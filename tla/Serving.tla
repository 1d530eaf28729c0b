------------------------------ MODULE Serving ------------------------------
(***************************************************************************)
(* The server in bank mode (server/server.go, server/handler.go and         *)
(* serveBank of cmd/server/main.go): every request is rendered, routed, and  *)
(* answered by the domain models its handler acquires from the bank, while   *)
(* other handlers, and other users of the bank, acquire theirs.             *)
(*                                                                         *)
(* A handler shares nothing but the bank, so rendering and routing are one   *)
(* step, each Bank.Acquire another, and the answer the last.  What the       *)
(* classifiers predict is free; generation itself is module Generation.     *)
(***************************************************************************)
EXTENDS Bank, Rendering, Router

CONSTANTS
  FirstDomain,     \* manifest.IDs()[0]
  Handlers,        \* request goroutines of the HTTP server
  ChatRequests,    \* the requests clients may send
  RouterDomains,   \* Router.Domains, which the manifest need not list
  Distributions,   \* probabilities a classifier may predict over RouterDomains
  HasTransformer,  \* the bundle carries a transformer head
  Threshold,       \* Router.Threshold, in percent
  MaxDomains,      \* Server.MaxDomains
  MinDomainScore,  \* Server.MinDomainScore, in percent
  RouteScope       \* "last-turn" or "full-prompt"

\* What a client may send as one message.
Messages == [role : STRING, content : Seq(STRING), reasoning : Seq(STRING),
             calls : Seq(Seq(STRING))]

\* A router bundle lists the domains it was trained on, and the classifiers have
\* a probability for every one of them.  A model is a number, and None is none.
ASSUME ServingConstants ==
  /\ RouterDomains \in Seq(Ids) \ {<< >>}
  /\ Distributions \subseteq [DOMAIN RouterDomains -> 0..100]
  /\ MaxDomains \in Int
  /\ MinDomainScore \in Int
  /\ \A request \in ChatRequests : request.messages \in Seq(Messages)
  /\ None \notin Nat

VARIABLES
  phase,       \* "starting", "serving" or "exited"
  job          \* handler -> None or the request it serves

servingVars == <<vars, phase, job>>

ServingInit ==
  /\ Init
  /\ phase = "starting"
  /\ job = [h \in Handlers |-> None]

-----------------------------------------------------------------------------
(* serveBank: the manifest's first domain must load, and is the engine's.   *)

Start ==
  /\ phase = "starting"
  /\ clock < MaxClock
  /\ \/ \E size \in Sizes : AcquireMiss(FirstDomain, size) /\ phase' = "serving"
     \/ AcquireFail(FirstDomain) /\ phase' = "exited"
  /\ UNCHANGED <<call, job>>

-----------------------------------------------------------------------------
(* handleChatCompletions and selectGenerator, up to the first Acquire.      *)

Pinned(request) == \E i \in DOMAIN RouterDomains : RouterDomains[i] = request.model

ClassifyPromptBug(request) == RenderMessages(request.messages, request.options, request.tools)

\* The text classified, after rendering has left its mark on the messages.
Classified(request) ==
  LET last == LastUserContent(RequestMessages(request.messages, request.options))
  IN  IF RouteScope = "last-turn" /\ last # << >> THEN last
      ELSE RenderMessages(request.messages, request.options, request.tools)

Scores(ngram, transformer) ==
  TopDomains(Route(RouterDomains, Predict(Threshold, ngram, transformer)),
             AtLeastOne(MaxDomains), MinDomainScore)

\* answers is what each Acquire of the request came to, a model or None: the code
\* keeps the models alone, as the members of the blend.
Taken(request, pinned, classified, scores) ==
  [request |-> request, pinned |-> pinned, classified |-> classified,
   scores |-> scores, answers |-> << >>, members |-> << >>]

Receive(h) ==
  /\ phase = "serving"
  /\ job[h] = None
  /\ \E request \in ChatRequests :
       \/ /\ Pinned(request)
          /\ job' = [job EXCEPT ![h] = Taken(request, TRUE, << >>,
                                             <<[domain |-> request.model, value |-> 100]>>)]
       \/ /\ ~Pinned(request)
          /\ \E ngram \in Distributions,
                transformer \in (IF HasTransformer THEN Distributions ELSE {<< >>}) :
               job' = [job EXCEPT ![h] = Taken(request, FALSE, Classified(request),
                                               Scores(ngram, transformer))]
  /\ UNCHANGED <<vars, phase>>

-----------------------------------------------------------------------------
(* ensembleForScores: one Acquire per routed domain; one that fails is left  *)
(* out of the blend.                                                       *)

Loading(h) == job[h] # None /\ Len(job[h].answers) < Len(job[h].scores)

WeightOf(j) == j.scores[Len(j.answers) + 1].value

NewBlendBug(h, id, model) ==
  job' = [job EXCEPT ![h].answers = Append(@, model),
                     ![h].members = <<[domain |-> id, model |-> model,
                                       weight |-> WeightOf(job[h])]>>]

Joined(h, id, model) ==
  job' = [job EXCEPT ![h].answers = Append(@, model),
                     ![h].members = Append(@, [domain |-> id, model |-> model,
                                               weight |-> WeightOf(job[h])])]

AcquireRouted(h) ==
  /\ Loading(h)
  /\ clock < MaxClock
  /\ LET id == job[h].scores[Len(job[h].answers) + 1].domain
     IN  \/ AcquireHit(id) /\ Joined(h, id, entries[id].model)
         \/ \E size \in Sizes : AcquireMiss(id, size) /\ Joined(h, id, clock + 1)
         \/ AcquireFail(id) /\ job' = [job EXCEPT ![h].answers = Append(@, None)]
  /\ UNCHANGED <<call, phase>>

-----------------------------------------------------------------------------
(* The generator a handler ends up with, and the domains of its header.     *)

Generator(j) ==
  CASE j.members # << >> -> "ensemble"
    [] j.members = << >> /\ j.pinned -> "nil"
    [] OTHER -> "engine"

Header(j) ==
  IF Generator(j) = "engine" THEN << >> ELSE [k \in DOMAIN j.scores |-> j.scores[k].domain]

\* complete and streamCompletion; without a generator the handler panics, which
\* net/http confines to the request.
Answer(h) ==
  /\ job[h] # None
  /\ ~Loading(h)
  /\ job' = [job EXCEPT ![h] = None]
  /\ UNCHANGED <<vars, phase>>

\* AcquireMany by other code that holds the bank.
Embedder == (\E c \in Clients : Begin(c) \/ Acquire(c) \/ Return(c)) /\ UNCHANGED <<phase, job>>

ServingNext ==
  \/ Start
  \/ \E h \in Handlers : Receive(h) \/ AcquireRouted(h) \/ Answer(h)
  \/ Embedder

ServingSpec == ServingInit /\ [][ServingNext]_servingVars

-----------------------------------------------------------------------------
(* Properties.                                                             *)

\* A blend is the routed domains less those that would not load: the places of the
\* route whose Acquire brought a model are, in their order, the members, each with
\* the model its Acquire brought (whatever the bank has evicted since) and the
\* probability of its own place.  A request that loaded anything is answered by its
\* blend, and its header names every domain of it.
BlendFollowsRoute ==
  \A h \in Handlers : job[h] # None =>
    LET j == job[h]
        loaded == {k \in DOMAIN j.answers : j.answers[k] # None}
    IN  /\ \E place \in [DOMAIN j.members -> loaded] :
             /\ \A k \in loaded : \E n \in DOMAIN j.members : place[n] = k
             /\ \A n \in DOMAIN j.members :
                  /\ j.members[n] = [domain |-> j.scores[place[n]].domain,
                                     model |-> j.answers[place[n]],
                                     weight |-> j.scores[place[n]].value]
                  /\ n > 1 => place[n - 1] < place[n]
        /\ loaded # {} => /\ Generator(j) = "ensemble"
                          /\ \A n \in DOMAIN j.members :
                               \E k \in DOMAIN Header(j) : Header(j)[k] = j.members[n].domain
        /\ \A k \in DOMAIN j.scores :
             k > 1 => j.scores[k - 1].value >= j.scores[k].value
                        /\ j.scores[k].value >= MinDomainScore

\* guides/07: last-turn "classifies only the latest user message", as the client
\* sent it - but for a request whose only user message follows its system
\* message, when no instruction is added: rendering has merged the two by then.
ClassifiesLastTurn ==
  \A h \in Handlers : job[h] # None /\ ~job[h].pinned /\ RouteScope = "last-turn" =>
    LET request == job[h].request
        users == {i \in DOMAIN request.messages : request.messages[i].role = "user"}
        merged == /\ users = {2}
                  /\ LeadingSystemOnly(request.messages)
                  /\ Instructions(request.options) = << >>
        last == LastUserContent(request.messages)
    IN  last # << >> /\ ~merged => job[h].classified = last
=============================================================================
