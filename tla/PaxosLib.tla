------------------------------ MODULE PaxosLib ------------------------------
(***************************************************************************)
(* The Paxos library of src/src/paxos/paxos.go: NPeers peers, each with an *)
(* acceptor per instance, the proposer goroutines that Start launches, and *)
(* the Done/Min bookkeeping that forgets old instances.                    *)
(*                                                                         *)
(* A peer's instances are *Instance pointers in px.instances.  They are    *)
(* kept here as an arena: objs is every Instance the peer ever allocated,  *)
(* imap maps a seq to the index of the one in the map.  A goroutine keeps  *)
(* the index it got from getInstance, so when cleanDoneValues deletes the  *)
(* entry and a later message allocates a new one, the goroutine goes on    *)
(* with the old object, as the Go code does.                               *)
(*                                                                         *)
(* Each RPC of propose, requestAccept and decide is one step: the callee's *)
(* Receive (atomic under px.mu and acceptorLock) and the caller's handling *)
(* of the reply.  call() may fail before the callee runs Receive (request  *)
(* lost) or after (reply lost); a call to the peer itself is a local call  *)
(* that cannot fail.  The proposer fields of an Instance are only used by  *)
(* the goroutine holding instance.mu, so they are kept in its record; the  *)
(* model starts at most one goroutine per peer and instance.               *)
(***************************************************************************)
EXTENDS Naturals, Integers, FiniteSets, Sequences, TLC

CONSTANTS
  NPeers,     \* len(px.peers)
  Seqs,       \* the instances the applications use
  Values,     \* the values they propose
  Nil,        \* a nil interface{}
  MaxBallot,  \* bound on highestSeenProposedNumber
  MaxStarts,  \* bound on the number of Start calls
  Proposals,  \* the <<peer, value>> pairs the applications Start with
  DoneApps    \* the peers whose application calls Done

Peer == 0..NPeers-1

max(a, b) == IF a > b THEN a ELSE b

\* minOfArray over doneMap; Min() is one more.
minOfArray(arr) == CHOOSE m \in {arr[i] : i \in DOMAIN arr} : \A i \in DOMAIN arr : m <= arr[i]
Min(pq) == minOfArray(pq.done) + 1

\* &Instance{}: the acceptor and decidedValue of a new instance, Go zero values.
NewInstance == [hp |-> 0, ha |-> 0, hv |-> Nil, dec |-> Nil]

VARIABLES
  px,     \* px[q]: [objs, imap, done (doneMap), toClean (toCleanSeq), maxSeq]
  gor,    \* gor[<<p, s>>]: the goroutine Start(s, v) launched on peer p
  votes   \* history: <<q, s, n, v>> for every ACCEPT peer q approved

vars == <<px, gor, votes>>

\* initMeta: the piggybacked Done of peer q.
initMeta(pq, q) == [Me |-> q, Done |-> pq.done[q]]

\* cleanDoneValues: delete the instances from toCleanSeq up to Min().
cleanDoneValues(pq) ==
  LET end == Min(pq)
      kept == {t \in DOMAIN pq.imap : ~(pq.toClean <= t /\ t < end)}
  IN [pq EXCEPT !.imap = [t \in kept |-> pq.imap[t]], !.toClean = end]

updateMeta(pq, meta) == cleanDoneValues([pq EXCEPT !.done[meta.Me] = max(@, meta.Done)])

\* getInstance: allocate a new Instance when seq has none in the map.
getInstance(pq, s) ==
  IF s \in DOMAIN pq.imap THEN pq
  ELSE [pq EXCEPT !.objs = Append(@, NewInstance), !.imap = (s :> Len(pq.objs) + 1) @@ @]

\* Mutant: PROPOSE approves a number equal to the highest it has seen.
OnProposeLt(ins, m) ==
  IF m.ProposedNum < ins.hp
  THEN [ins |-> ins, Approved |-> FALSE, Number |-> ins.hp, Value |-> Nil]
  ELSE [ins |-> [ins EXCEPT !.hp = m.ProposedNum], Approved |-> TRUE,
        Number |-> ins.ha, Value |-> ins.hv]

\* Receive's PROPOSE branch: promise a number above every one seen.
OnPropose(ins, m) ==
  IF m.ProposedNum <= ins.hp
  THEN [ins |-> ins, Approved |-> FALSE, Number |-> ins.hp, Value |-> Nil]
  ELSE [ins |-> [ins EXCEPT !.hp = m.ProposedNum], Approved |-> TRUE,
        Number |-> ins.ha, Value |-> ins.hv]

\* Receive's ACCEPT branch: accept a number at least the highest seen.
OnAccept(ins, m) ==
  IF m.ProposedNum < ins.hp
  THEN [ins |-> ins, Approved |-> FALSE, Number |-> ins.hp, Value |-> Nil]
  ELSE [ins |-> [ins EXCEPT !.hp = m.ProposedNum, !.ha = m.ProposedNum, !.hv = m.Value],
        Approved |-> TRUE, Number |-> m.ProposedNum, Value |-> Nil]

\* The acceptor's branch of Receive on instance ins.
Handle(ins, m) ==
  CASE m.Type = "PROPOSE" -> OnPropose(ins, m)
    [] m.Type = "ACCEPT" -> OnAccept(ins, m)
    [] m.Type = "DECIDE" ->
         [ins |-> [ins EXCEPT !.dec = m.Value], Approved |-> TRUE, Number |-> 0, Value |-> Nil]

\* Receive on peer q: updateMeta, getInstance, the acceptor, the response.
Receive(pq, q, m) ==
  LET a == getInstance(updateMeta(pq, m.Meta), m.Seq)
      k == a.imap[m.Seq]
      h == Handle(a.objs[k], m)
  IN [pq |-> [a EXCEPT !.objs[k] = h.ins,
                       !.maxSeq = IF m.Type = "DECIDE" THEN max(@, m.Seq) ELSE @],
      resp |-> [Approved |-> h.Approved, Number |-> h.Number, Value |-> h.Value,
                Meta |-> initMeta(a, q)]]

\* Status(seq): the decided value of the instance in the map, else Nil.
Status(pq, s) == IF s \in DOMAIN pq.imap THEN pq.objs[pq.imap[s]].dec ELSE Nil

\* The Proposal a goroutine sends in its current loop, with px.initMeta().
Msg(g) ==
  [Type |-> CASE g.pc = "propose" -> "PROPOSE" [] g.pc = "accept" -> "ACCEPT" [] g.pc = "decide" -> "DECIDE",
   ProposedNum |-> IF g.pc = "decide" THEN 0 ELSE g.pn,
   Seq |-> g.s,
   Value |-> IF g.pc = "propose" THEN Nil ELSE g.v,
   Meta |-> initMeta(px[g.p], g.p)]

\* decide's "if records[i] { continue }": the next peer from i on, cyclically,
\* that has not approved the DECIDE yet.
DecideTarget(g) ==
  LET d(j) == (j - g.i + NPeers) % NPeers
  IN CHOOSE j \in Peer \ g.records : \A j2 \in Peer \ g.records : d(j) <= d(j2)

Target(g) == IF g.pc = "decide" THEN DecideTarget(g) ELSE g.i

\* The goroutine is in one of the three calling loops with a call to make.
Calling(g) == g.pc \in {"propose", "accept", "decide"}

\* g at the head of a loop (pc), the locals of the last loop dropped.
Enter(g, pc) == [g EXCEPT !.pc = pc, !.i = 0, !.count = 0, !.hpn = 0, !.han = -1, !.hav = Nil, !.records = {}]

\* The goroutine has returned: nothing of it is left.
Exit(g) == [Enter(g, "end") EXCEPT !.v = Nil, !.pn = 0, !.hs = 0, !.obj = 0]

\* The end of propose and Start's use of its result: take the highest
\* number seen; with a majority go on to requestAccept with the value of
\* the highest accepted proposal, if any, else back to the loop head.
ProposeEnd(g) ==
  IF g.count > NPeers \div 2
  THEN [Enter(g, "accept") EXCEPT !.hs = g.hpn, !.hpn = g.hpn, !.v = IF g.hav # Nil THEN g.hav ELSE @]
  ELSE [Enter(g, "loop") EXCEPT !.hs = g.hpn, !.pn = 0]

\* The end of requestAccept and Start's use of its result.
AcceptEnd(g) ==
  IF g.count > NPeers \div 2
  THEN [Enter(g, "decide") EXCEPT !.hs = g.hpn]
  ELSE [Enter(g, "loop") EXCEPT !.hs = g.hpn, !.pn = 0]

\* The loop's local code after the call with the last peer runs with it.
EndLoop(g) ==
  CASE g.pc = "propose" /\ g.i = NPeers -> ProposeEnd(g)
    [] g.pc = "accept" /\ g.i = NPeers -> AcceptEnd(g)
    [] OTHER -> g

\* Mutant: decide returns once a majority has approved.
DecideStepMajority(g, j, yes) ==
  IF yes /\ g.count + 1 > NPeers \div 2 THEN Exit(g)
  ELSE [g EXCEPT !.i = (j + 1) % NPeers, !.count = IF yes THEN @ + 1 ELSE @,
                 !.records = IF yes THEN @ \cup {j} ELSE @]

\* Mutant: decide's index is not taken modulo len(px.peers).
DecideStepNoWrap(g, j, yes) ==
  IF yes /\ g.count + 1 = NPeers THEN Exit(g)
  ELSE [g EXCEPT !.i = j + 1, !.count = IF yes THEN @ + 1 ELSE @,
                 !.records = IF yes THEN @ \cup {j} ELSE @]

\* decide's loop body for peer j: count and record an approval, return
\* when every peer has approved, go on with the next peer.
DecideStep(g, j, yes) ==
  IF yes /\ g.count + 1 = NPeers THEN Exit(g)
  ELSE [g EXCEPT !.i = (j + 1) % NPeers, !.count = IF yes THEN @ + 1 ELSE @,
                 !.records = IF yes THEN @ \cup {j} ELSE @]

\* What the loop body does with call()'s result ok and the reply r.
AfterCall(g, j, ok, r) ==
  LET yes == ok /\ r.Approved
      no == ok /\ ~r.Approved
  IN CASE g.pc = "propose" ->
            [g EXCEPT !.i = @ + 1,
                      !.count = IF yes THEN @ + 1 ELSE @,
                      !.han = IF yes /\ r.Number > @ THEN r.Number ELSE @,
                      !.hav = IF yes /\ r.Number > g.han THEN r.Value ELSE @,
                      !.hpn = IF no THEN max(@, r.Number) ELSE @]
       [] g.pc = "accept" ->
            [g EXCEPT !.i = @ + 1,
                      !.count = IF yes THEN @ + 1 ELSE @,
                      !.hpn = IF no THEN max(@, r.Number) ELSE @]
       [] g.pc = "decide" -> DecideStep(g, j, yes)

\* The history of votes: an approved ACCEPT.
Voted(j, m, r) == IF m.Type = "ACCEPT" /\ r.Approved THEN {<<j, m.Seq, m.ProposedNum, m.Value>>} ELSE {}

\* Goroutine k's next call: its target j, the Proposal m, and Receive's
\* result r on peer j.
Call(k) ==
  LET g == gor[k]
      j == Target(g)
      m == Msg(g)
  IN [g |-> g, j |-> j, m |-> m, r |-> Receive(px[j], j, m)]

\* call() returns true: peer j runs Receive and the caller runs updateMeta
\* on the reply (px.Receive directly when j is the caller itself).
Delivered(c) ==
  LET px1 == [px EXCEPT ![c.j] = c.r.pq]
  IN [px |-> [px1 EXCEPT ![c.g.p] = updateMeta(px1[c.g.p], c.r.resp.Meta)],
      g |-> EndLoop(AfterCall(c.g, c.j, TRUE, c.r.resp)),
      votes |-> votes \cup Voted(c.j, c.m, c.r.resp)]

CallDelivered(k) ==
  /\ k \in DOMAIN gor
  /\ Calling(gor[k])
  /\ LET d == Delivered(Call(k))
     IN /\ px' = d.px
        /\ gor' = [gor EXCEPT ![k] = d.g]
        /\ votes' = d.votes

\* call() returns false: the request was lost, or Receive ran on peer j and
\* the reply was lost.
CallFailed(k) ==
  /\ k \in DOMAIN gor
  /\ Calling(gor[k])
  /\ LET c == Call(k)
     IN /\ c.j # c.g.p
        /\ gor' = [gor EXCEPT ![k] = EndLoop(AfterCall(c.g, c.j, FALSE, c.r.resp))]
        /\ \/ UNCHANGED <<px, votes>>
           \/ /\ px' = [px EXCEPT ![c.j] = c.r.pq]
              /\ votes' = votes \cup Voted(c.j, c.m, c.r.resp)

\* The head of Start's loop: stop if the goroutine's instance is decided,
\* else take the next proposal number and run propose.
Loop(k) ==
  LET g == gor[k] IN
  /\ k \in DOMAIN gor
  /\ g.pc = "loop"
  /\ \/ /\ px[g.p].objs[g.obj].dec # Nil
        /\ gor' = [gor EXCEPT ![k] = Exit(g)]
     \/ /\ px[g.p].objs[g.obj].dec = Nil
        /\ g.hs < MaxBallot
        /\ gor' = [gor EXCEPT ![k] = [@ EXCEPT !.hs = g.hs + 1, !.pn = g.hs + 1, !.pc = "propose", !.i = 0,
                                      !.count = 0, !.hpn = g.hs + 1, !.han = -1, !.hav = Nil]]
  /\ UNCHANGED <<px, votes>>

\* The application calls Start(s, v) on peer p: nothing if s < Min(),
\* else a goroutine on getInstance(s).
Start(p, s, v) ==
  /\ <<p, s>> \notin DOMAIN gor
  /\ Cardinality(DOMAIN gor) < MaxStarts
  /\ LET a == getInstance(px[p], s)
         g == [p |-> p, s |-> s, v |-> v, pc |-> "loop", i |-> 0, count |-> 0, hpn |-> 0,
               han |-> -1, hav |-> Nil, pn |-> 0, hs |-> 0, records |-> {}, obj |-> a.imap[s]]
     IN IF s < Min(px[p])
        THEN /\ gor' = (<<p, s>> :> Exit(g)) @@ gor
             /\ UNCHANGED px
        ELSE /\ gor' = (<<p, s>> :> g) @@ gor
             /\ px' = [px EXCEPT ![p] = a]
  /\ UNCHANGED votes

\* The application on peer p is done with every instance <= s: it calls
\* Done(s) once Status reports s decided and the instances before it are
\* decided or forgotten.
Done(p, s) ==
  /\ p \in DoneApps
  /\ \A t \in Seqs : t <= s => Status(px[p], t) # Nil \/ t < Min(px[p])
  /\ s > px[p].done[p]
  /\ px' = [px EXCEPT ![p] = cleanDoneValues([@ EXCEPT !.done[p] = max(@, s)])]
  /\ UNCHANGED <<gor, votes>>

\* Make: no instance, every doneMap entry -1, maxSeq -1.
Init ==
  /\ px = [q \in Peer |-> [objs |-> <<>>, imap |-> [t \in {} |-> 0],
                           done |-> [x \in Peer |-> -1], toClean |-> 0, maxSeq |-> -1]]
  /\ gor = [k \in {} |-> 0]
  /\ votes = {}

Next ==
  \/ \E k \in Peer \X Seqs : CallDelivered(k) \/ CallFailed(k) \/ Loop(k)
  \/ \E pv \in Proposals, s \in Seqs : Start(pv[1], s, pv[2])
  \/ \E p \in DoneApps, s \in Seqs : Done(p, s)

\* Goroutine k is in one of its calling loops.
CanCall(k) == k \in DOMAIN gor /\ Calling(gor[k])

\* The goroutines run, and the lab's network delivers a call that is
\* retried (it drops requests and replies at random, never forever).
\* CallDelivered(k) is enabled exactly when CanCall(k) and always changes
\* gor[k], so the first conjunct is WF_vars(CallDelivered(k)) with its
\* ENABLED written out.
Fairness ==
  \A k \in Peer \X Seqs :
    /\ <>[]CanCall(k) => []<><<CallDelivered(k)>>_vars
    /\ WF_vars(Loop(k))

Spec == Init /\ [][Next]_vars
FairSpec == Spec /\ Fairness

(* ----------------------------- properties ------------------------------ *)

Instance == [hp : Nat, ha : Nat, hv : Values \cup {Nil}, dec : Values \cup {Nil}]

TypeOK ==
  /\ \A q \in Peer :
       /\ px[q].objs \in Seq(Instance)
       /\ DOMAIN px[q].imap \subseteq Nat
       /\ \A t \in DOMAIN px[q].imap : px[q].imap[t] \in 1..Len(px[q].objs)
       /\ px[q].done \in [Peer -> {-1} \cup Seqs]
  /\ DOMAIN gor \subseteq Peer \X Seqs
  /\ \A k \in DOMAIN gor :
       /\ gor[k].pc \in {"loop", "propose", "accept", "decide", "end"}
       /\ gor[k].i \in IF gor[k].pc = "decide" THEN Peer ELSE 0..NPeers
       /\ gor[k].count \in 0..NPeers /\ gor[k].records \subseteq Peer
       /\ gor[k].hs \in 0..MaxBallot
  /\ votes \subseteq Peer \X Seqs \X Nat \X Values

\* The values instance s has chosen: accepted by a majority at one number.
Chosen(s) ==
  {v \in Values : \E n \in {vt[3] : vt \in votes} :
     Cardinality({q \in Peer : <<q, s, n, v>> \in votes}) > NPeers \div 2}

\* Refinement: the library implements PaxosConsensus with chosen mapped to
\* Chosen and learned to what Status reports on every peer.
Abstract == INSTANCE PaxosConsensus WITH
  Peer <- Peer, Seqs <- Seqs, Values <- Values, Nil <- Nil,
  chosen <- [s \in Seqs |-> Chosen(s)],
  learned <- [q \in Peer |-> [s \in Seqs |-> Status(px[q], s)]],
  done <- [q \in Peer |-> px[q].done[q]]

\* Start/Status's promise: an instance decides one value, and Status on any
\* peer reports nothing or that value, until every application has called
\* Done for it -- whatever requests and replies the network loses and
\* however two proposers' calls interleave.
ImplementsConsensus == Abstract!Spec

\* Min()'s comment: "Paxos is required to have forgotten all information
\* about any instances it knows that are < Min()" (and Status reports no
\* such instance).  cleanDoneValues deletes them; nothing may bring one back.
ForgetsBelowMin == \A q \in Peer : \A t \in DOMAIN px[q].imap : t >= Min(px[q])

\* Some peer's Status reports instance s decided.
DecidedSomewhere(s) == \E q \in Peer : Status(px[q], s) # Nil

\* Every peer knows s is decided (or has forgotten it) and every goroutine
\* for s has returned.
Settled(s) ==
  /\ \A q \in Peer : Status(px[q], s) # Nil \/ s < Min(px[q])
  /\ \A k \in DOMAIN gor : k[2] = s => gor[k].pc = "end"

\* decide keeps calling until every peer has approved the DECIDE, and Start's
\* loop stops at a decided instance: once one peer has decided s, every peer
\* learns it and every proposer of s returns -- the library has no other
\* way for a peer that missed the DECIDE to catch up.
DecisionSpreads == \A s \in Seqs : DecidedSomewhere(s) ~> Settled(s)
=============================================================================
