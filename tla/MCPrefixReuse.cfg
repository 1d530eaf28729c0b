SPECIFICATION ReuseSpec
CONSTANTS
  None = None
  File = File
  Main = Main
  Pool = Pool
  Callers = {g1, g2}
  Managers <- MCManagers
  Prompts <- MCPrompts
  Sizes = {1}
  MaxEntries <- MCEntries
  MaxBytes <- Unlimited
  TTL <- MCAges
  OnDisk <- JustMain
  StripSWA <- JustMain
  MaxClock = 2
  Window = 1
INVARIANTS
  BufferCoversPrompt
  ShortPromptsExact
SYMMETRY Handlers
