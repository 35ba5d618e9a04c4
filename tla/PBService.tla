------------------------------ MODULE PBService ------------------------------
(***************************************************************************)
(* The primary/backup key/value service of src/src/pbservice, composed    *)
(* with the view service of ViewService.                                  *)
(*                                                                         *)
(* Each PBServer keeps pb.view (the View its last tick() got back),        *)
(* pb.content and pb.isinitBackup.  Put, Get, DoAppend and InitBackup run  *)
(* under pb.mu; a Put or Get holds the primary's mu across its call to the *)
(* backup, and the backup handles that call under its own mu, so each is  *)
(* one atomic step of the primary and the backup together.  pb.content's  *)
(* entries "previous."+client and "previousReply."+client are the fields   *)
(* prev and prevReply (one clerk); an absent map entry is 0.               *)
(*                                                                         *)
(* Every RPC (call() in client.go) may fail: the server is dead, the       *)
(* request is dropped, or -- pb.unreliable -- the handler runs and its     *)
(* reply is dropped.  The clerk of client.go runs one Get, Put or PutHash  *)
(* at a time and retries it at ck.view.Primary, calling PingView after     *)
(* each failure; PingView pings the view service under the name its       *)
(* creator passed to MakeClerk, ClerkName.  kill() stops a server;         *)
(* StartServer under the same name restarts it with empty state.           *)
(***************************************************************************)
EXTENDS Naturals, FiniteSets

CONSTANTS
  Servers,    \* the pbservice servers' names
  DeadPings,  \* viewservice.DeadPings
  ClerkName,  \* the name the clerk pings the view service with
  Keys,       \* the keys the clerk uses
  Vals,       \* the values it Puts, as positive integers
  HashMod,    \* range of the stand-in for strconv.Itoa(hash(...))
  MaxOps      \* operations the clerk runs (each PutExt draws a new UUID)

ASSUME Vals \subseteq Nat \ {0}

VARIABLES
  currentView, isPrimaryAck, primaryTick, backupTick, idleServers, tickPc, acked,
  pbview,    \* pb.view of each server
  content,   \* pb.content of each server
  isinit,    \* pb.isinitBackup of each server
  alive,     \* the servers running (not killed)
  ckview,    \* ck.view
  ckop,      \* the clerk's current operation
  ckpc,      \* "idle", "call" (next: call the primary) or "ping" (next: PingView)
  nops,      \* operations the clerk has started
  result,    \* the value the clerk's last operation returned
  store      \* ghost: each key's value after the acknowledged Puts, in order

VS == INSTANCE ViewService WITH known <- [x \in Servers |-> pbview[x].Viewnum]

None == VS!None
NoView == VS!NoView

vars == <<currentView, isPrimaryAck, primaryTick, backupTick, idleServers, tickPc, acked,
          pbview, content, isinit, alive, ckview, ckop, ckpc, nops, result, store>>
vsVars == <<currentView, isPrimaryAck, primaryTick, backupTick, idleServers, tickPc, acked>>
ckVars == <<ckview, ckop, ckpc, nops, result, store>>

\* A string value; 0 is "".
Str == 0..Cardinality(Vals) + HashMod

\* strconv.Itoa(int(hash(previous + value))): FNV-32 of the concatenation,
\* a non-empty string whatever its input.
Hash(a, b) == Cardinality(Vals) + 1 + ((a + b) % HashMod)

\* pb.content = map[string]string{} (StartServer).
EmptyContent == [data |-> [k \in Keys |-> 0], prev |-> 0, prevReply |-> 0]

\* The AppendArgs of a Put: key, "previous."+client and "previousReply."+client.
Write(c, k, v, uid, pv) == [c EXCEPT !.data[k] = v, !.prev = uid, !.prevReply = pv]

\* InitBackup's "for key,value := range args.Content { pb.content[key] = value }":
\* the primary's entries overwrite the backup's, others stay.
Merge(into, from) ==
  [data |-> [k \in Keys |-> IF from.data[k] # 0 THEN from.data[k] ELSE into.data[k]],
   prev |-> IF from.prev # 0 THEN from.prev ELSE into.prev,
   prevReply |-> IF from.prev # 0 THEN from.prevReply ELSE into.prevReply]

IsBackup(s) == s \in alive /\ pbview[s].Backup = s

\* pb.Append with the backup's DoAppend: no backup is success; otherwise the
\* call fails (backup dead, request dropped, or DoAppend's "not backup
\* server" error), or DoAppend applies the entries and its reply arrives or
\* is dropped.
Append(p, k, v, uid, pv) ==
  LET b == pbview[p].Backup
  IN IF b = None THEN {[ok |-> TRUE, content |-> content]}
     ELSE {[ok |-> FALSE, content |-> content]}
          \cup (IF IsBackup(b)
                THEN {[ok |-> ok, content |-> [content EXCEPT ![b] = Write(@, k, v, uid, pv)]]
                        : ok \in BOOLEAN}
                ELSE {})

\* The primary's reply reaches the clerk, which returns it; or it is dropped
\* and the clerk sleeps and calls PingView.
Reply(value, newStore) ==
  \/ /\ ckpc' = "idle" /\ result' = value /\ store' = newStore
  \/ /\ ckpc' = "ping" /\ UNCHANGED <<result, store>>

(* ------------------------------- clerk ---------------------------------- *)

\* Get or PutExt: "if ck.view.Viewnum == 0 { ck.PingView() }", then the call
\* loop; PutExt draws the request's UUID.
ClerkStart ==
  /\ ckpc = "idle" /\ nops < MaxOps
  /\ \E t \in {"Get", "Put", "PutHash"}, k \in Keys, v \in Vals :
       ckop' = [type |-> t, key |-> k, value |-> IF t = "Get" THEN 0 ELSE v, uid |-> nops + 1]
  /\ nops' = nops + 1
  /\ ckpc' = IF ckview.Viewnum = 0 THEN "ping" ELSE "call"
  /\ UNCHANGED <<vsVars, pbview, content, isinit, alive, ckview, result, store>>

\* PingView: "view, err := ck.vs.Ping(ck.view.Viewnum); if err != nil
\* {return}; ck.view = view".  The request reaches the view service or not,
\* and its reply arrives or not.
ClerkPing ==
  /\ ckpc = "ping"
  /\ \/ /\ VS!Ping(ClerkName, ckview.Viewnum)
        /\ \E replied \in BOOLEAN : ckview' = IF replied THEN currentView' ELSE ckview
     \/ UNCHANGED <<vsVars, ckview>>
  /\ ckpc' = "call"
  /\ UNCHANGED <<tickPc, pbview, content, isinit, alive, ckop, nops, result, store>>

\* call() returns false without the handler changing anything: the
\* primary's name is "", it is dead, the request is dropped, or it answers
\* ErrWrongServer.
CallFails ==
  /\ ckpc = "call"
  /\ ckpc' = "ping"
  /\ UNCHANGED <<vsVars, pbview, content, isinit, alive, ckview, ckop, nops, result, store>>

(* ------------------------------- server --------------------------------- *)

\* Put at the primary p the clerk calls: "if !pb.isPrimary()" fails; a
\* request whose UUID is "previous."+client is answered from
\* "previousReply."+client; otherwise PutHash hashes the previous value in,
\* pb.Append forwards the entries to the backup, and only if it succeeds
\* does p apply them and reply.
Put(p) ==
  /\ ckpc = "call" /\ ckop.type # "Get"
  /\ p = ckview.Primary /\ p \in alive /\ pbview[p].Primary = p
  /\ LET op == ckop
         c == content[p]
         pv == IF op.type = "PutHash" THEN c.data[op.key] ELSE 0
         v == IF op.type = "PutHash" THEN Hash(pv, op.value) ELSE op.value
         ref == [store EXCEPT ![op.key] = IF op.type = "PutHash"
                                          THEN Hash(store[op.key], op.value) ELSE op.value]
     IN IF c.prev = op.uid
        THEN /\ Reply(c.prevReply, ref)
             /\ UNCHANGED content
        ELSE \E o \in Append(p, op.key, v, op.uid, pv) :
               IF o.ok
               THEN /\ content' = [o.content EXCEPT ![p] = Write(@, op.key, v, op.uid, pv)]
                    /\ Reply(pv, ref)
               ELSE /\ content' = o.content
                    /\ ckpc' = "ping"
                    /\ UNCHANGED <<result, store>>
  /\ UNCHANGED <<vsVars, pbview, isinit, alive, ckview, ckop, nops>>

\* Get at the primary p: it first calls InitBackup on its backup with all
\* of pb.content (the call's outcome is ignored); a backup that is one by
\* its own view and not yet initialised takes the entries and sets
\* isinitBackup.  Then it replies pb.content[key].
Get(p) ==
  /\ ckpc = "call" /\ ckop.type = "Get"
  /\ p = ckview.Primary /\ p \in alive /\ pbview[p].Primary = p
  /\ LET b == pbview[p].Backup
     IN \E reached \in BOOLEAN :
          IF reached /\ b # None /\ IsBackup(b) /\ ~isinit[b]
          THEN /\ content' = [content EXCEPT ![b] = Merge(@, content[p])]
               /\ isinit' = [isinit EXCEPT ![b] = TRUE]
          ELSE UNCHANGED <<content, isinit>>
  /\ Reply(content[p].data[ckop.key], store)
  /\ UNCHANGED <<vsVars, pbview, alive, ckview, ckop, nops>>

\* tick(): "view, err := pb.vs.Ping(pb.view.Viewnum); pb.view = view".  A
\* failed call leaves the zero View.  The push to a new backup that
\* follows compares view.Backup with pb.view.Backup after the assignment,
\* so it never runs.
Tick(s) ==
  /\ s \in alive
  /\ \/ /\ VS!Ping(s, pbview[s].Viewnum)
        /\ \E replied \in BOOLEAN :
             pbview' = [pbview EXCEPT ![s] = IF replied THEN currentView' ELSE NoView]
     \/ /\ pbview' = [pbview EXCEPT ![s] = NoView]
        /\ UNCHANGED <<currentView, isPrimaryAck, primaryTick, backupTick, idleServers, acked>>
  /\ UNCHANGED <<tickPc, content, isinit, alive, ckVars>>

\* kill(): the server stops serving and ticking.
Kill(s) ==
  /\ s \in alive
  /\ alive' = alive \ {s}
  /\ UNCHANGED <<vsVars, pbview, content, isinit, ckVars>>

\* StartServer(vshost, s) again: a new PBServer with zero view and empty
\* content.
Restart(s) ==
  /\ s \notin alive
  /\ alive' = alive \cup {s}
  /\ pbview' = [pbview EXCEPT ![s] = NoView]
  /\ content' = [content EXCEPT ![s] = EmptyContent]
  /\ isinit' = [isinit EXCEPT ![s] = FALSE]
  /\ UNCHANGED <<vsVars, ckVars>>

\* The view service's tick(), in its three blocks.
ViewServiceTick ==
  /\ UNCHANGED <<pbview, content, isinit, alive, ckVars>>
  /\ (VS!TickSweep \/ VS!TickReadAck \/ VS!TickSwitch \/ VS!TickCount)

Init ==
  /\ pbview = [s \in Servers |-> NoView]
  /\ VS!Init
  /\ content = [s \in Servers |-> EmptyContent]
  /\ isinit = [s \in Servers |-> FALSE]
  /\ alive = Servers
  /\ ckview = NoView
  /\ ckop = [type |-> "Get", key |-> CHOOSE k \in Keys : TRUE, value |-> 0, uid |-> 0]
  /\ ckpc = "idle"
  /\ nops = 0
  /\ result = 0
  /\ store = [k \in Keys |-> 0]

Next ==
  \/ ClerkStart \/ ClerkPing \/ CallFails
  \/ \E s \in Servers : Put(s) \/ Get(s) \/ Tick(s) \/ Kill(s) \/ Restart(s)
  \/ ViewServiceTick

Spec == Init /\ [][Next]_vars

(* ----------------------------- properties ------------------------------ *)

ContentType == [data : [Keys -> Str], prev : 0..MaxOps, prevReply : Str]

TypeOK ==
  /\ currentView.Viewnum \in Nat
  /\ primaryTick \in 0..DeadPings /\ backupTick \in 0..DeadPings
  /\ \A s \in DOMAIN idleServers : idleServers[s] \in 0..DeadPings
  /\ tickPc \in {"sweep", "switch", "isSwitch", "count"}
  /\ pbview \in [Servers -> [Viewnum : Nat, Primary : Servers \cup {None, ClerkName},
                             Backup : Servers \cup {None, ClerkName}]]
  /\ content \in [Servers -> ContentType]
  /\ isinit \in [Servers -> BOOLEAN]
  /\ alive \subseteq Servers
  /\ ckpc \in {"idle", "call", "ping"}
  /\ nops \in 0..MaxOps
  /\ result \in Str /\ store \in [Keys -> Str]

\* The view service's acknowledgement flag belongs to its current view,
\* with real pbservice servers and the clerk pinging it.
AckIsForCurrentView == VS!AckIsForCurrentView

\* Get returns the value of the latest acknowledged Put or PutHash to its
\* key: the primary/backup guarantee the clerk's Get relies on, through
\* failovers, restarts and dropped messages.
ReadSeesLastPut ==
  [][ckpc = "call" /\ ckop.type = "Get" /\ ckpc' = "idle" => result' = store[ckop.key]]_vars

=============================================================================
