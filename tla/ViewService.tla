---------------------------- MODULE ViewService ----------------------------
(***************************************************************************)
(* The view service of src/src/viewservice/server.go together with the     *)
(* pinging half of the primary/backup servers (pbservice tick()).          *)
(*                                                                         *)
(* Ping runs under vs.mu and is one atomic step.  tick() runs in its own   *)
(* goroutine WITHOUT taking vs.mu, so a Ping may run while a tick is half  *)
(* done: tick is split into its blocks (sweep the idle servers, read      *)
(* isPrimaryAck, run isSwitch, count down the primary and backup ticks)    *)
(* and Pings interleave between them.                                      *)
(*                                                                         *)
(* currentView = nil is the View Get reports for it, Viewnum 0.  newView   *)
(* is always nil between calls (isSwitch installs it before returning),    *)
(* so it is local to IsSwitch.  The empty server name "" is None.          *)
(***************************************************************************)
EXTENDS Naturals, FiniteSets, TLC

CONSTANTS
  Servers,    \* the pbservice servers' names
  DeadPings   \* ticks a server may miss before it is considered dead

None == ""

View(n, p, b) == [Viewnum |-> n, Primary |-> p, Backup |-> b]

NoView == View(0, None, None)

VARIABLES
  currentView,   \* vs.currentView (NoView for nil)
  isPrimaryAck,  \* vs.isPrimaryAck
  primaryTick,   \* vs.primaryTick
  backupTick,    \* vs.backupTick
  idleServers,   \* vs.idleServers: a function from the idle servers to ticks
  tickPc,        \* the block of tick() to run next
  known,         \* each pbservice server's pb.view.Viewnum
  acked          \* history: the view numbers their primary has acknowledged

vars == <<currentView, isPrimaryAck, primaryTick, backupTick, idleServers,
          tickPc, known, acked>>

EmptyIdle == [s \in {} |-> 0]

(* ------------------------------ isSwitch ------------------------------- *)

\* "for server := range vs.idleServers { delete(...); availableServer =
\* server }": every idle server is deleted and the last one in map order
\* -- any of them -- is kept.
Pick(idle) == IF DOMAIN idle = {} THEN {None} ELSE DOMAIN idle

\* setNewView on a non-nil currentView with newView nil.
SetNewView(cv, p, b) == View(cv.Viewnum + 1, p, b)

Outcome(switched, view, idle) == [switched |-> switched, view |-> view, idle |-> idle]

\* isSwitch: the set of outcomes (map order picks the idle server).
IsSwitch(cv, idle, pt, bt) ==
  IF cv.Backup = None /\ DOMAIN idle = {} THEN {Outcome(FALSE, cv, idle)}
  ELSE IF pt > 0 /\ bt <= 0
       THEN {Outcome(TRUE, SetNewView(cv, cv.Primary, a), EmptyIdle) : a \in Pick(idle)}
  ELSE IF pt <= 0 /\ bt > 0
       THEN {Outcome(TRUE, SetNewView(cv, cv.Backup, a), EmptyIdle) : a \in Pick(idle)}
  ELSE IF pt <= 0
       THEN {Outcome(TRUE, SetNewView(cv, None, None), idle)}
  ELSE {Outcome(FALSE, cv, idle)}

\* "if vs.isPrimaryAck && vs.isSwitch() { vs.isPrimaryAck = false }".
AckedSwitch(ack, cv, idle, pt, bt) ==
  IF ack THEN IsSwitch(cv, idle, pt, bt) ELSE {Outcome(FALSE, cv, idle)}

(* ------------------------------- Ping ---------------------------------- *)

\* The part of Ping before "calculate Ticks": the view, the ack flag, the
\* primary's ticks and the idle servers it leaves.
PingBody(ck, n) ==
  LET cv == currentView
  IN IF n = 0 /\ cv.Viewnum = 0
     THEN {[view |-> View(1, ck, None), ack |-> isPrimaryAck, pt |-> primaryTick,
            idle |-> idleServers]}
     ELSE IF n = 0
     THEN LET pt == IF ck = cv.Primary THEN 0 ELSE primaryTick
              os == IF ck = cv.Primary
                    THEN AckedSwitch(isPrimaryAck, cv, idleServers, pt, backupTick)
                    ELSE {Outcome(FALSE, cv, idleServers)}
          IN {[view |-> o.view, ack |-> isPrimaryAck /\ ~o.switched, pt |-> pt,
               idle |-> IF ck # None /\ ck # o.view.Backup
                        THEN (ck :> DeadPings) @@ o.idle ELSE o.idle] : o \in os}
     ELSE {[view |-> cv, ack |-> isPrimaryAck \/ (ck = cv.Primary /\ n = cv.Viewnum),
            pt |-> primaryTick, idle |-> idleServers]}

\* Ping(ck, n) as the view service runs it, "calculate Ticks" included;
\* reply.View is currentView'.
Ping(ck, n) ==
  \E r \in PingBody(ck, n) :
    /\ currentView' = r.view
    /\ isPrimaryAck' = r.ack
    /\ primaryTick' = IF ck = r.view.Primary THEN DeadPings ELSE r.pt
    /\ backupTick' = IF ck # r.view.Primary /\ ck = r.view.Backup THEN DeadPings ELSE backupTick
    /\ idleServers' = IF ck # r.view.Primary /\ ck # r.view.Backup
                      THEN (ck :> DeadPings) @@ r.idle ELSE r.idle
    /\ acked' = IF n # 0 /\ ck = currentView.Primary /\ n = currentView.Viewnum
                THEN acked \cup {n} ELSE acked

(* --------------------------- pbservice tick ---------------------------- *)

\* pb.tick(): "view, err := pb.vs.Ping(pb.view.Viewnum); pb.view = view".
\* The call reaches the view service; its reply arrives, or it is lost
\* and the clerk's zero View (Viewnum 0) is stored.  A lost request, or a
\* pbservice restart (a new PBServer, pb.view zero), only zeroes known[s];
\* every such state is already one this action reaches, and neither moves
\* the view, so they are not separate actions.
PBTick(s) ==
  /\ Ping(s, known[s])
  /\ \E replied \in BOOLEAN :
       known' = [known EXCEPT ![s] = IF replied THEN currentView'.Viewnum ELSE 0]
  /\ UNCHANGED tickPc

(* --------------------------- view service tick ------------------------- *)

\* "clean all dead server": drop idle servers at 0, count the others down.
TickSweep ==
  /\ tickPc = "sweep" /\ currentView.Viewnum # 0
  /\ idleServers' = [s \in {x \in DOMAIN idleServers : idleServers[x] > 0} |->
                       idleServers[s] - 1]
  /\ tickPc' = "switch"
  /\ UNCHANGED <<currentView, isPrimaryAck, primaryTick, backupTick, known, acked>>

\* "if vs.isPrimaryAck && vs.isSwitch()": tick holds no lock, so the flag is
\* read in a step of its own; a Ping may run before isSwitch reads the view.
\* The value read is kept in the program counter.
TickReadAck ==
  /\ tickPc = "switch"
  /\ tickPc' = IF isPrimaryAck THEN "isSwitch" ELSE "count"
  /\ UNCHANGED <<currentView, isPrimaryAck, primaryTick, backupTick, idleServers,
                 known, acked>>

\* Mutant: a switch by tick leaves the acknowledgement flag set.
TickSwitchKeepsAck ==
  /\ tickPc = "isSwitch"
  /\ \E o \in IsSwitch(currentView, idleServers, primaryTick, backupTick) :
       /\ currentView' = o.view
       /\ idleServers' = o.idle
       /\ isPrimaryAck' = isPrimaryAck
  /\ tickPc' = "count"
  /\ UNCHANGED <<primaryTick, backupTick, known, acked>>

\* "... && vs.isSwitch() { vs.isPrimaryAck = false }" on the state as it is now.
TickSwitch ==
  /\ tickPc = "isSwitch"
  /\ \E o \in IsSwitch(currentView, idleServers, primaryTick, backupTick) :
       /\ currentView' = o.view
       /\ idleServers' = o.idle
       /\ isPrimaryAck' = (isPrimaryAck /\ ~o.switched)
  /\ tickPc' = "count"
  /\ UNCHANGED <<primaryTick, backupTick, known, acked>>

\* Mutant: the ticks are counted down past zero.
CountDownNoFloor(t, holder) == IF holder = None THEN 0 ELSE t - 1

CountDown(t, holder) == LET t0 == IF holder = None THEN 0 ELSE t
                        IN IF t0 > 0 THEN t0 - 1 ELSE t0

\* "update primary tick value and backup ticks value".
TickCount ==
  /\ tickPc = "count"
  /\ primaryTick' = CountDown(primaryTick, currentView.Primary)
  /\ backupTick' = CountDown(backupTick, currentView.Backup)
  /\ tickPc' = "sweep"
  /\ UNCHANGED <<currentView, isPrimaryAck, idleServers, known, acked>>

Init ==
  /\ currentView = NoView
  /\ isPrimaryAck = FALSE
  /\ primaryTick = 0
  /\ backupTick = 0
  /\ idleServers = EmptyIdle
  /\ tickPc = "sweep"
  /\ known = [s \in Servers |-> 0]
  /\ acked = {}

Next ==
  \/ \E s \in Servers : PBTick(s)
  \/ TickSweep \/ TickReadAck \/ TickSwitch \/ TickCount

Spec == Init /\ [][Next]_vars

(* ----------------------------- properties ------------------------------ *)

TypeOK ==
  /\ currentView.Viewnum \in Nat
  /\ {currentView.Primary, currentView.Backup} \subseteq Servers \cup {None}
  /\ primaryTick \in 0..DeadPings /\ backupTick \in 0..DeadPings
  /\ DOMAIN idleServers \subseteq Servers
  /\ \A s \in DOMAIN idleServers : idleServers[s] \in 0..DeadPings
  /\ tickPc \in {"sweep", "switch", "isSwitch", "count"}
  /\ known \in [Servers -> 0..currentView.Viewnum]

\* The view service moves on from view i only after the primary of view i
\* has acknowledged it by pinging with i.  tick() reads isPrimaryAck
\* without vs.mu: a primary's Ping(0) may switch the view and clear the
\* flag between that read and isSwitch, which then switches the new view
\* unacknowledged, so this does not hold (see README.md).
ViewChangeOnlyAfterAck ==
  [][currentView.Viewnum # 0 /\ currentView' # currentView =>
       currentView.Viewnum \in acked]_vars

\* isPrimaryAck, which tick() and a primary's Ping(0) test before they
\* switch, is set only while the current view is one its primary
\* acknowledged: every switch, by tick's isSwitch or by Ping(0), clears it
\* -- the race above included -- and a Ping carrying an older view number
\* does not set it.
AckIsForCurrentView == isPrimaryAck => currentView.Viewnum \in acked

\* A view never names the same server as primary and backup.
PrimaryNotBackup ==
  currentView.Primary = None \/ currentView.Primary # currentView.Backup

=============================================================================
