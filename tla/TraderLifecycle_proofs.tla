----------------------- MODULE TraderLifecycle_proofs -----------------------
(***************************************************************************)
(* Theorems about TraderLifecycle, for any finite set of traders, any      *)
(* accounts, requests and monitors.  The safety properties hold of careful *)
(* use: one change of a trader at a time, none while a Run of the trader   *)
(* is starting up, and no update (which may start the trader twice).       *)
(*                                                                         *)
(* The argument: an object executes Run at most once, because a start or a *)
(* reload always makes a new object; the object of a trader that runs, or  *)
(* is about to, is the one in the manager's map, because RemoveTrader only *)
(* takes it out of the map when Stop has waited for its goroutines; and an *)
(* account belongs to the one object that owns it.                         *)
(***************************************************************************)
EXTENDS TraderLifecycle, FiniteSetTheorems, SequenceTheorems, TLAPS

CarefulUse == Careful /\ "update" \notin Ops

-----------------------------------------------------------------------------
(* Lists *)

\* SetToSeq lists every element of a finite set once.
LEMMA Listed ==
  ASSUME NEW S, IsFiniteSet(S)
  PROVE  /\ SetToSeq(S) \in Seq(S) /\ Len(SetToSeq(S)) = Cardinality(S)
         /\ DOMAIN SetToSeq(S) = 1..Cardinality(S) /\ Cardinality(S) \in Nat
         /\ \A x \in S : \E n \in DOMAIN SetToSeq(S) : SetToSeq(S)[n] = x
         /\ \A m, n \in DOMAIN SetToSeq(S) : SetToSeq(S)[m] = SetToSeq(S)[n] => m = n
<1> DEFINE N == Cardinality(S)
           s == SetToSeq(S)
<1>1. N \in Nat /\ ExistsBijection(1..N, S)
  BY FS_CardinalityType
<1>2. PICK f : f \in Bijection(1..N, S)
  BY <1>1 DEF ExistsBijection
<1>3. f \in [1..N -> S] /\ IsInjective(f)
  BY <1>2 DEF Bijection, Injection, IsInjective
<1>4. s \in [1..N -> S] /\ IsInjective(s)
  BY <1>3 DEF SetToSeq
<1>5. IsFiniteSet(1..N) /\ Cardinality(1..N) = N
  BY <1>1, FS_Interval
<1>6. s \in Injection(1..N, S)
  BY <1>4 DEF Injection, IsInjective
<1>7. s \in Surjection(1..N, S)
  BY <1>5, <1>6, FS_Injection
<1>8. s \in Seq(S) /\ Len(s) = N /\ DOMAIN s = 1..N
  BY <1>1, <1>4
<1> QED BY <1>1, <1>4, <1>7, <1>8 DEF Surjection, IsInjective

\* One element of a list is replaced.
LEMMA Replaced ==
  ASSUME NEW S, NEW s \in Seq(S), NEW n \in DOMAIN s, NEW x \in S
  PROVE  /\ [s EXCEPT ![n] = x] \in Seq(S)
         /\ Len([s EXCEPT ![n] = x]) = Len(s) /\ DOMAIN [s EXCEPT ![n] = x] = DOMAIN s
         /\ [s EXCEPT ![n] = x][n] = x
         /\ \A m \in DOMAIN s : m # n => [s EXCEPT ![n] = x][m] = s[m]
<1>1. Len(s) \in Nat /\ DOMAIN s = 1..Len(s) /\ s \in [1..Len(s) -> S]
  OBVIOUS
<1>2. [s EXCEPT ![n] = x] \in [1..Len(s) -> S]
  BY <1>1
<1> QED BY <1>1, <1>2

-----------------------------------------------------------------------------
(* The inductive invariant *)

Inst(r) == insts[runs[r].inst]

Owner(i) == insts[i].trader

HasRun(i) == \E r \in DOMAIN runs : runs[r].inst = i

\* Requests that change a trader.
Busy(c) == clients[c].pc # "idle" /\ clients[c].op # "query"

Ending(c) == Busy(c) /\ clients[c].pc \in {"close", "wait", "release"}

\* A goroutine that is over, as are its monitors, and whose account is given back.
Over(r) == runs[r].pc = "done" /\ ~Monitoring(r)

Unclaimed == {"start", "channel", "join", "claim"}

\* An object has one Run.  It is running, about to run, over, or being stopped,
\* and while it monitors it owns its account.
RunOK(r) ==
  LET i == runs[r].inst
  IN /\ i \in DOMAIN insts
     /\ \A q \in DOMAIN runs : runs[q].inst = i => q = r
     /\ runs[r].pc = "start" => traders[Owner(i)] = i /\ ~insts[i].running
     /\ runs[r].pc \in StartUp \ {"start"} => insts[i].running
     /\ runs[r].pc \in Unclaimed => ~insts[i].owns
     /\ runs[r].pc = "monitors" => insts[i].owns
     /\ Monitoring(r) => insts[i].owns /\ runs[r].pc \notin Unclaimed \cup {"monitors"}
     /\ \/ insts[i].running \/ runs[r].pc = "start"
        \/ Over(r) /\ ~insts[i].owns
        \/ \E c \in Clients : Ending(c) /\ clients[c].inst = i

RunInv == \A r \in DOMAIN runs : RunOK(r)

\* An object that runs or owns an account is its trader's object in the map; a
\* channel is closed when its object has run and was stopped.
InstInv ==
  /\ \A t \in Traders : traders[t] # 0 => Owner(traders[t]) = t
  /\ \A i \in DOMAIN insts : insts[i].running \/ insts[i].owns => traders[Owner(i)] = i /\ HasRun(i)
  /\ \A p \in closed : /\ p[1] \in DOMAIN insts /\ ~insts[p[1]].running /\ HasRun(p[1])
                       /\ \A r \in DOMAIN runs : runs[r].inst = p[1] => runs[r].pc # "start"

\* The registry and the objects agree on who owns an account.
OwnerInv ==
  /\ \A i \in DOMAIN insts : insts[i].owns => owners[Account(i)] = Owner(i)
  /\ \A a \in Accounts : owners[a] # None =>
       \E i \in DOMAIN insts : insts[i].owns /\ Owner(i) = owners[a] /\ Account(i) = a

Starting(t) == \E r \in DOMAIN runs : runs[r].inst = traders[t] /\ runs[r].pc = "start"

Alive(t) == traders[t] # 0 /\ (insts[traders[t]].running \/ Starting(t))

\* The table says whether a trader that nobody is changing runs.
Consistent(t) == (db[t] = "running" => Alive(t)) /\ (db[t] = "stopped" => ~Alive(t))

TraderInv ==
  \A t \in Traders : (\A c \in Clients : Busy(c) => clients[c].trader # t) => Consistent(t)

\* No Run of the trader is starting up.
Quiet(t) == \A r \in DOMAIN runs : Owner(runs[r].inst) = t => runs[r].pc \notin StartUp

\* The trader was not running, and its object, if it has one, is new.
Unstarted(t) == db[t] # "running" /\ (traders[t] # 0 => ~HasRun(traders[t]))

\* What a handler relies on at each of its steps.
ClientOK(c) ==
  LET t  == clients[c].trader
      i  == clients[c].inst
      op == clients[c].op
      pc == clients[c].pc
  IN /\ op # "update"
     /\ op = "delete" => db[t] = "deleted"
     /\ pc \notin {"load", "fetch", "save"} => Quiet(t)
     /\ pc \in {"status", "unmap"} \cup Stopping => i = traders[t] /\ i # 0
     /\ pc \in {"lookup", "status"} => op \in {"start", "stop", "delete"} /\ Consistent(t)
     /\ pc = "remove" => op \in {"start", "delete", "reload"} /\ (db[t] = "running" => traders[t] # 0)
     /\ op = "start" /\ pc \in Stopping \cup {"remove", "unmap"} => db[t] # "running"
     /\ pc \in {"close", "wait", "release", "unmap"} => ~insts[i].running
     /\ pc \in {"close", "wait", "release"} => HasRun(i)
     /\ pc = "close" => \A p \in closed : p[1] # i
     /\ pc \in {"wait", "release"} => <<i, insts[i].channel>> \in closed
     /\ pc = "release" => \A r \in DOMAIN runs : runs[r].inst = i => Over(r)
     /\ pc = "unmap" => ~insts[i].owns /\ mu = c
     /\ pc = "load" => /\ op \in {"start", "reload"}
                       /\ op = "start" => Unstarted(t)
                       /\ op = "reload" /\ traders[t] # 0 => Consistent(t)
     /\ pc = "fetch" => op = "start" /\ Unstarted(t)
     /\ pc = "save" => /\ op \in {"start", "stop"} /\ traders[t] # 0
                       /\ op = "start" <=> Alive(t)

\* Changes of one trader exclude each other; a query only loads.
ClientInv ==
  /\ \A c \in Clients : clients[c].op = "query" => clients[c].pc \in {"idle", "lookup", "load"}
  /\ \A c \in Clients : Busy(c) => ClientOK(c)
  /\ \A c, d \in Clients : Busy(c) /\ Busy(d) /\ clients[c].trader = clients[d].trader => c = d

LockInv ==
  mu # None => Busy(mu) /\ clients[mu].pc \in Stopping \cup {"unmap"} /\ clients[mu].op # "stop"

Inv == TypeOK /\ RunInv /\ InstInv /\ OwnerInv /\ TraderInv /\ ClientInv /\ LockInv

-----------------------------------------------------------------------------
(* The properties follow from the invariant *)

\* What the invariant says of a goroutine and its object, types included.
LEMMA OfRun ==
  ASSUME Inv, NEW r \in DOMAIN runs
  PROVE  /\ runs[r] \in Run /\ RunOK(r)
         /\ runs[r].inst \in DOMAIN insts /\ Inst(r) \in Instance /\ Inst(r).trader \in Traders
         /\ Account(runs[r].inst) \in Accounts
<1>1. runs[r] \in Run /\ RunOK(r)
  BY DEF Inv, TypeOK, RunInv
<1>2. runs[r].inst \in DOMAIN insts
  BY <1>1 DEF RunOK
<1>3. Inst(r) \in Instance
  BY <1>2 DEF Inv, TypeOK, Inst
<1>4. Inst(r).trader \in Traders
  BY <1>3 DEF Instance
<1> QED BY <1>1, <1>2, <1>3, <1>4, LifecycleAssumption DEF Account, Inst

\* The type of an object.
LEMMA OfObject ==
  ASSUME Inv, NEW i \in DOMAIN insts
  PROVE  /\ insts[i] \in Instance /\ Owner(i) \in Traders
         /\ Account(i) = AccountOf[Owner(i)] /\ Account(i) \in Accounts
<1>1. insts[i] \in Instance
  BY DEF Inv, TypeOK
<1>2. insts[i].trader \in Traders
  BY <1>1 DEF Instance
<1> QED BY <1>1, <1>2, LifecycleAssumption DEF Owner, Account

\* A monitor runs for the object in the map of the trader that owns the account.
LEMMA MonitorsOwn ==
  ASSUME Inv, NEW r \in DOMAIN runs, Monitoring(r)
  PROVE  /\ owners[Account(runs[r].inst)] = Inst(r).trader
         /\ traders[Inst(r).trader] = runs[r].inst
<1>1. Inst(r).owns /\ runs[r].inst \in DOMAIN insts
  BY OfRun DEF RunOK, Inst
<1> QED BY <1>1 DEF Inv, OwnerInv, InstInv, Owner, Inst

\* At most one object of an account monitors.
LEMMA InvOneProtector == Inv => OneProtector
<1> SUFFICES ASSUME Inv, NEW q \in DOMAIN runs, NEW r \in DOMAIN runs, Monitoring(q), Monitoring(r),
                    Account(runs[q].inst) = Account(runs[r].inst)
             PROVE  runs[q].inst = runs[r].inst
  BY DEF OneProtector
<1>1. Inst(q).trader = Inst(r).trader
  BY MonitorsOwn
<1> QED BY <1>1, MonitorsOwn

\* An object runs once.
LEMMA InvOneRun == Inv => OneRunPerInstance
  BY DEF Inv, RunInv, RunOK, OneRunPerInstance

\* An account's owner runs or is being stopped.
LEMMA InvInactive == Inv => InactiveOwnsNothing
<1> SUFFICES ASSUME Inv, NEW a \in Accounts, owners[a] # None
             PROVE  Active(owners[a])
  BY DEF InactiveOwnsNothing
<1>1. PICK i \in DOMAIN insts : insts[i].owns /\ insts[i].trader = owners[a]
  BY DEF Inv, OwnerInv, Owner
<1>2. PICK r \in DOMAIN runs : runs[r].inst = i
  BY <1>1 DEF Inv, InstInv, HasRun
<1>3. \/ insts[i].running \/ runs[r].pc = "start"
      \/ \E c \in Clients : clients[c].pc \in Stopping /\ clients[c].inst = i
  BY <1>1, <1>2, OfRun DEF RunOK, Ending, Stopping
<1> QED BY <1>1, <1>2, <1>3 DEF Active

\* The monitors of a stopped object find its channel closed.
LEMMA InvStopReaches == Inv => StopReachesMonitors
<1> SUFFICES ASSUME Inv, NEW r \in DOMAIN runs, Monitoring(r), ~Inst(r).running,
                    \A c \in Clients : clients[c].pc = "close" => clients[c].inst # runs[r].inst
             PROVE  <<runs[r].inst, Inst(r).channel>> \in closed
  BY DEF StopReachesMonitors, Inst
<1>1. PICK c \in Clients : Ending(c) /\ clients[c].inst = runs[r].inst
  BY OfRun DEF RunOK, Inst, Over, Unclaimed
<1>2. clients[c].pc \in {"wait", "release"} /\ ClientOK(c)
  BY <1>1 DEF Ending, Inv, ClientInv
<1> QED BY <1>1, <1>2 DEF ClientOK, Inst

-----------------------------------------------------------------------------
(* Goroutines move *)

Watching(st) == \E m \in Monitors : st.monitor[m] \in {"top", "select"}

\* A goroutine past its beginning moves to state st, and nothing else changes.
Moves(r, st) ==
  /\ st \in Run /\ st.inst = runs[r].inst
  /\ runs' = [runs EXCEPT ![r] = st]
  /\ \/ runs[r].pc # "start" /\ st.pc \notin {"start", "channel", "join", "monitors"}
     \/ st.pc = runs[r].pc
  /\ st.pc \in StartUp => runs[r].pc \in StartUp
  /\ st.pc = "claim" => runs[r].pc \in {"join", "claim"}
  /\ Watching(st) => Monitoring(r) \/ runs[r].pc = "monitors"
  /\ Watching(st) => st.pc \notin Unclaimed \cup {"monitors"}
  /\ Over(r) => st.pc = "done" /\ ~Watching(st)
  /\ UNCHANGED <<db, traders, mu, insts, closed, owners, clients, asked>>

\* What a moving goroutine leaves alone.
LEMMA MovesFrame ==
  ASSUME Inv, NEW r \in DOMAIN runs, NEW st, Moves(r, st)
  PROVE  /\ runs' \in Seq(Run) /\ Len(runs') = Len(runs) /\ DOMAIN runs' = DOMAIN runs
         /\ runs'[r] = st
         /\ \A q \in DOMAIN runs : /\ q # r => runs'[q] = runs[q]
                                   /\ runs'[q].inst = runs[q].inst
                                   /\ (runs'[q].pc = "start") <=> (runs[q].pc = "start")
                                   /\ runs'[q].pc \in StartUp => runs[q].pc \in StartUp
                                   /\ Over(q) => Over(q)'
         /\ \A q \in DOMAIN runs : q # r => (Monitoring(q)' <=> Monitoring(q))
         /\ Monitoring(r)' <=> Watching(st)
         /\ UNCHANGED <<db, traders, mu, insts, closed, owners, clients, asked>>
<1>1. runs \in Seq(Run) /\ st \in Run /\ runs' = [runs EXCEPT ![r] = st]
  BY DEF Inv, TypeOK, Moves
<1>2. /\ runs' \in Seq(Run) /\ Len(runs') = Len(runs) /\ DOMAIN runs' = DOMAIN runs
      /\ runs'[r] = st /\ \A q \in DOMAIN runs : q # r => runs'[q] = runs[q]
  BY <1>1, Replaced
<1>3. /\ \A q \in DOMAIN runs : q # r => (Monitoring(q)' <=> Monitoring(q))
      /\ Monitoring(r)' <=> Watching(st)
  BY <1>2 DEF Monitoring, Watching
<1>4. ASSUME NEW q \in DOMAIN runs
      PROVE  /\ runs'[q].inst = runs[q].inst
             /\ (runs'[q].pc = "start") <=> (runs[q].pc = "start")
             /\ runs'[q].pc \in StartUp => runs[q].pc \in StartUp
             /\ Over(q) => Over(q)'
  <2>1. CASE q = r
    BY <1>2, <1>3, <2>1 DEF Moves, Over
  <2>2. CASE q # r
    BY <1>2, <1>3, <2>2 DEF Over
  <2> QED BY <2>1, <2>2
<1> QED BY <1>2, <1>3, <1>4 DEF Moves

\* Such a move keeps the invariant.
LEMMA MovesInv ==
  ASSUME Inv, NEW r \in DOMAIN runs, NEW st, Moves(r, st)
  PROVE  Inv'
<1> USE MovesFrame
<1>1. TypeOK'
  BY DEF Inv, TypeOK
<1>2. \A c \in Clients : (Busy(c)' <=> Busy(c)) /\ (Ending(c)' <=> Ending(c))
  BY DEF Busy, Ending
<1>3. \A i : (HasRun(i)' <=> HasRun(i)) /\ Owner(i)' = Owner(i)
  BY DEF HasRun, Owner
<1>4. \A t \in Traders : (Starting(t)' <=> Starting(t)) /\ (Alive(t)' <=> Alive(t))
  BY DEF Starting, Alive
<1>5. \A t \in Traders : Consistent(t)' <=> Consistent(t)
  BY <1>4 DEF Consistent
<1>6. RunInv'
  <2> SUFFICES ASSUME NEW q \in DOMAIN runs PROVE RunOK(q)'
    BY DEF RunInv
  <2>1. RunOK(q) /\ RunOK(r)
    BY OfRun
  <2>2. CASE q # r
    BY <1>2, <1>3, <2>1, <2>2 DEF RunOK, Over
  <2>3. CASE q = r
    <3>1. RunOK(r) /\ Moves(r, st) /\ runs'[r] = st
      BY <2>1
    <3>2. \A x \in DOMAIN runs : runs'[x].inst = runs[r].inst => x = r
      BY <3>1 DEF RunOK
    <3>3. \/ insts[st.inst].running \/ st.pc = "start" \/ (Over(r)' /\ ~insts[st.inst].owns)
          \/ \E c \in Clients : Ending(c)' /\ clients'[c].inst = st.inst
      <4>1. \/ insts[st.inst].running \/ runs[r].pc = "start" \/ (Over(r) /\ ~insts[st.inst].owns)
            \/ \E c \in Clients : Ending(c) /\ clients[c].inst = st.inst
        BY <3>1 DEF RunOK, Moves
      <4>2. (runs[r].pc = "start" => st.pc = "start") /\ (Over(r) => Over(r)')
        OBVIOUS
      <4> QED BY <1>2, <4>1, <4>2
    <3> QED BY <2>3, <3>1, <3>2, <3>3 DEF RunOK, Moves, Owner, Unclaimed, StartUp
  <2> QED BY <2>2, <2>3
<1>7. InstInv'
  BY <1>3 DEF Inv, InstInv, Owner
<1>8. OwnerInv'
  BY DEF Inv, OwnerInv, Owner, Account
<1>9. TraderInv'
  BY <1>2, <1>5 DEF Inv, TraderInv
<1>10. ClientInv'
  <2>1. \A t \in Traders : Quiet(t) => Quiet(t)'
    BY DEF Quiet, Owner
  <2>2. \A t \in Traders : Unstarted(t) => Unstarted(t)'
    BY DEF Unstarted, HasRun
  <2>3. ASSUME NEW c \in Clients, Busy(c) PROVE ClientOK(c)'
    <3>1. ClientOK(c) /\ clients[c].trader \in Traders
      BY <2>3 DEF Inv, ClientInv, TypeOK, Client
    <3> QED BY <1>3, <1>4, <1>5, <2>1, <2>2, <3>1 DEF ClientOK
  <2> QED BY <1>2, <2>3 DEF Inv, ClientInv
<1>11. LockInv'
  BY <1>2 DEF Inv, TypeOK, LockInv
<1> QED BY <1>1, <1>6, <1>7, <1>8, <1>9, <1>10, <1>11 DEF Inv

\* The steps of Run after its beginning, but for the claim.
LEMMA RunStepInv ==
  ASSUME Inv, NEW r \in DOMAIN runs,
         \/ RunJoin(r) \/ RunMonitors(r) \/ RunSync(r) \/ RunGrid(r) \/ RunFirst(r)
         \/ RunTimer(r) \/ RunStopped(r) \/ RunCheck(r)
  PROVE  Inv'
<1>1. /\ runs[r] \in Run /\ RunOK(r) /\ Inst(r).channel \in 0..MaxRuns
      /\ Monitoring(r) <=> Watching(runs[r])
  BY OfRun DEF Instance, Monitoring, Watching
<1>2. ASSUME NEW pc \in RunPc, NEW ch \in 0..MaxRuns,
             runs' = [runs EXCEPT ![r] = [runs[r] EXCEPT !.pc = pc, !.channel = ch]],
             UNCHANGED <<db, traders, mu, insts, closed, owners, clients, asked>>,
             runs[r].pc \notin {"start", "monitors"}, pc \notin StartUp \/ (pc = "sync" /\ runs[r].pc \in StartUp)
                                         \/ (pc = "claim" /\ runs[r].pc = "join"),
             runs[r].pc = "done" => pc = "done"
      PROVE  Inv'
  <2> DEFINE st == [runs[r] EXCEPT !.pc = pc, !.channel = ch]
  <2>1. /\ st \in Run /\ st.pc = pc /\ st.inst = runs[r].inst
        /\ Watching(st) <=> Monitoring(r)
    BY <1>1, <1>2 DEF Run, Watching
  <2>2. Monitoring(r) => runs[r].pc \notin Unclaimed \cup {"monitors"}
    BY <1>1 DEF RunOK
  <2>3. Moves(r, st)
    BY <1>2, <2>1, <2>2 DEF Moves, Over, Unclaimed, StartUp
  <2> QED BY <2>3, MovesInv
<1>3. CASE RunMonitors(r)
  <2> DEFINE st == [runs[r] EXCEPT !.pc = "sync", !.monitor = [m \in Monitors |-> "top"]]
  <2>1. st \in Run /\ st.pc = "sync" /\ st.inst = runs[r].inst
    BY <1>1 DEF Run, RunPc, StartUp
  <2>2. Moves(r, st)
    BY <1>3, <2>1 DEF RunMonitors, Moves, Over, Unclaimed, StartUp
  <2> QED BY <2>2, MovesInv
<1>4. ASSUME NEW pc \in RunPc, Move(r, pc)
      PROVE  /\ runs' = [runs EXCEPT ![r] = [runs[r] EXCEPT !.pc = pc, !.channel = runs[r].channel]]
             /\ runs[r].channel \in 0..MaxRuns
  <2>1. [runs[r] EXCEPT !.pc = pc, !.channel = runs[r].channel] = [runs[r] EXCEPT !.pc = pc]
    BY <1>1 DEF Run
  <2> QED BY <1>1, <1>4, <2>1 DEF Move, Run
<1>5. CASE RunJoin(r)
  BY <1>2, <1>4, <1>5 DEF RunJoin, RunPc, StartUp
<1>6. CASE RunSync(r)
  <2>1. PICK pc \in {"grid", "first"} : Move(r, pc)
    BY <1>6 DEF RunSync
  <2> QED BY <1>2, <1>4, <1>6, <2>1 DEF RunSync, RunPc, StartUp
<1>7. CASE RunGrid(r)
  BY <1>2, <1>4, <1>7 DEF RunGrid, RunPc, StartUp
<1>8. CASE RunFirst(r)
  BY <1>1, <1>2, <1>8 DEF RunFirst, RunPc, StartUp, Inst
<1>9. CASE RunTimer(r)
  BY <1>2, <1>4, <1>9 DEF RunTimer, RunPc, StartUp
<1>10. CASE RunStopped(r)
  BY <1>2, <1>4, <1>10 DEF RunStopped, RunPc, StartUp
<1>11. CASE RunCheck(r)
  <2> DEFINE i == runs[r].inst
             pc == IF ~insts[i].running THEN "done"
                   ELSE IF runs[r].pc = "recheck" THEN "loop" ELSE "select"
             ch == IF runs[r].pc = "loop" THEN insts[i].channel ELSE runs[r].channel
  <2>1. pc \in {"done", "loop", "select"} /\ ch \in 0..MaxRuns
    BY <1>1 DEF Inst, Run
  <2>2. runs' = [runs EXCEPT ![r] = [runs[r] EXCEPT !.pc = pc, !.channel = ch]]
    <3>1. runs' = [runs EXCEPT ![r].pc = pc,
                              ![r].channel = IF runs[r].pc = "loop" THEN insts[i].channel ELSE @]
      BY <1>11 DEF RunCheck
    <3> HIDE DEF pc
    <3> QED BY <1>1, <3>1 DEF Run
  <2> HIDE DEF pc, ch
  <2> QED BY <1>2, <1>11, <2>1, <2>2 DEF RunCheck, RunPc, StartUp
<1> QED BY <1>3, <1>5, <1>6, <1>7, <1>8, <1>9, <1>10, <1>11

\* The steps of a monitor.
LEMMA MonitorInv ==
  ASSUME Inv, NEW r \in DOMAIN runs, NEW m \in Monitors,
         MonitorSelect(r, m) \/ MonitorTick(r, m) \/ MonitorStopped(r, m)
  PROVE  Inv'
<1>1. /\ runs[r] \in Run /\ RunOK(r) /\ Inst(r).channel \in 0..MaxRuns
      /\ Monitoring(r)
  BY OfRun DEF Instance, Monitoring, MonitorSelect, MonitorTick, MonitorStopped
<1>2. ASSUME NEW x \in {"top", "select", "done"}, NEW w \in 0..MaxRuns,
             runs' = [runs EXCEPT ![r] = [runs[r] EXCEPT !.monitor[m] = x, !.waits[m] = w]],
             UNCHANGED <<db, traders, mu, insts, closed, owners, clients, asked>>
      PROVE  Inv'
  <2> DEFINE st == [runs[r] EXCEPT !.monitor[m] = x, !.waits[m] = w]
  <2>1. st \in Run /\ st.pc = runs[r].pc /\ st.inst = runs[r].inst
    BY <1>1, <1>2 DEF Run
  <2>2. runs[r].pc \notin Unclaimed \cup {"monitors"}
    BY <1>1 DEF RunOK
  <2>3. Moves(r, st)
    BY <1>1, <1>2, <2>1, <2>2 DEF Moves, Over, Unclaimed, StartUp
  <2> QED BY <2>3, MovesInv
<1>3. CASE MonitorSelect(r, m)
  BY <1>1, <1>2, <1>3 DEF MonitorSelect, Inst
<1>4. ASSUME NEW x, runs' = [runs EXCEPT ![r].monitor[m] = x]
      PROVE  /\ runs' = [runs EXCEPT ![r] = [runs[r] EXCEPT !.monitor[m] = x, !.waits[m] = runs[r].waits[m]]]
             /\ runs[r].waits[m] \in 0..MaxRuns
  <2>1. [runs[r] EXCEPT !.monitor[m] = x, !.waits[m] = runs[r].waits[m]] = [runs[r] EXCEPT !.monitor[m] = x]
    BY <1>1 DEF Run
  <2> QED BY <1>1, <1>4, <2>1 DEF Run
<1>5. CASE MonitorTick(r, m)
  BY <1>2, <1>4, <1>5 DEF MonitorTick
<1>6. CASE MonitorStopped(r, m)
  BY <1>2, <1>4, <1>6 DEF MonitorStopped
<1> QED BY <1>3, <1>5, <1>6

\* One object changes, but not its trader.
LEMMA InstFrame ==
  ASSUME Inv, NEW i \in DOMAIN insts, NEW x \in Instance, x.trader = insts[i].trader,
         insts' = [insts EXCEPT ![i] = x]
  PROVE  /\ insts' \in Seq(Instance) /\ Len(insts') = Len(insts) /\ DOMAIN insts' = DOMAIN insts
         /\ insts'[i] = x
         /\ \A j \in DOMAIN insts : /\ j # i => insts'[j] = insts[j]
                                    /\ Owner(j)' = Owner(j) /\ Account(j)' = Account(j)
<1>1. insts \in Seq(Instance)
  BY DEF Inv, TypeOK
<1>2. /\ insts' \in Seq(Instance) /\ Len(insts') = Len(insts) /\ DOMAIN insts' = DOMAIN insts
      /\ insts'[i] = x /\ \A j \in DOMAIN insts : j # i => insts'[j] = insts[j]
  BY <1>1, Replaced
<1> QED BY <1>2 DEF Owner, Account

\* A goroutine that is starting up goes on to state st and leaves its object x
\* running; the objects and the registry still agree.
Starts(r, st, x) ==
  /\ runs[r].pc \in StartUp /\ st.pc \in StartUp \ {"start"}
  /\ st \in Run /\ st.inst = runs[r].inst /\ st.monitor = runs[r].monitor
  /\ x \in Instance /\ x.trader = insts[st.inst].trader /\ x.running
  /\ st.pc \in Unclaimed => ~x.owns
  /\ st.pc = "monitors" => x.owns
  /\ runs[r].pc \in Unclaimed
  /\ runs' = [runs EXCEPT ![r] = st] /\ insts' = [insts EXCEPT ![st.inst] = x]
  /\ UNCHANGED <<db, traders, mu, closed, clients, asked>>
  /\ owners' \in [Accounts -> Traders \cup {None}]

\* A step of the start-up keeps the invariant.
LEMMA StartsInv ==
  ASSUME Inv, NEW r \in DOMAIN runs, NEW st, NEW x, Starts(r, st, x), OwnerInv'
  PROVE  Inv'
<1> DEFINE i == st.inst
<1>1. /\ RunOK(r) /\ i = runs[r].inst /\ i \in DOMAIN insts /\ runs[r] \in Run
      /\ ~Monitoring(r) /\ runs[r].pc # "done" /\ ~insts[i].owns
  BY OfRun DEF RunOK, Starts, Unclaimed, StartUp
<1>2. /\ runs' \in Seq(Run) /\ Len(runs') = Len(runs) /\ DOMAIN runs' = DOMAIN runs
      /\ runs'[r] = st
      /\ \A q \in DOMAIN runs : q # r => runs'[q] = runs[q]
  <2>1. runs \in Seq(Run) /\ st \in Run /\ runs' = [runs EXCEPT ![r] = st]
    BY DEF Inv, TypeOK, Starts
  <2> QED BY <2>1, Replaced
<1>3. /\ insts' \in Seq(Instance) /\ Len(insts') = Len(insts) /\ DOMAIN insts' = DOMAIN insts
      /\ insts'[i] = x
      /\ \A j \in DOMAIN insts : /\ j # i => insts'[j] = insts[j]
                                 /\ Owner(j)' = Owner(j) /\ Account(j)' = Account(j)
  BY <1>1, InstFrame DEF Starts
<1>4. \A q \in DOMAIN runs : /\ runs'[q].inst = runs[q].inst
                             /\ Monitoring(q)' <=> Monitoring(q)
                             /\ Over(q)' <=> Over(q)
  BY <1>1, <1>2 DEF Starts, Monitoring, Over, StartUp
<1>5. \A j : HasRun(j)' <=> HasRun(j)
  BY <1>2, <1>4 DEF HasRun
<1>6. traders[Owner(i)] = i /\ HasRun(i) /\ Owner(i) \in Traders
  <2>1. runs[r].pc # "start" => insts[i].running
    BY <1>1 DEF RunOK, Starts
  <2> QED BY <1>1, <2>1, OfRun DEF RunOK, Inv, InstInv, HasRun, Owner, Inst
<1>7. \A t \in Traders : traders[t] # 0 => traders[t] \in DOMAIN insts /\ Owner(traders[t]) = t
  BY DEF Inv, TypeOK, InstInv
<1>8. \A t \in Traders : Alive(t)' <=> Alive(t)
  <2> SUFFICES ASSUME NEW t \in Traders, traders[t] # 0
               PROVE  insts'[traders[t]].running \/ Starting(t)' <=> insts[traders[t]].running \/ Starting(t)
    BY DEF Alive, Starts
  <2>1. CASE traders[t] = i
    <3>1. insts[i].running \/ Starting(t)
      BY <1>1, <2>1 DEF RunOK, Starting, Starts
    <3> QED BY <1>3, <2>1, <3>1 DEF Starts
  <2>2. CASE traders[t] # i
    <3>1. Starting(t)' <=> Starting(t)
      BY <1>1, <1>2, <1>4, <2>2 DEF Starting, Starts
    <3> QED BY <1>3, <1>7, <2>2, <3>1
  <2> QED BY <2>1, <2>2
<1>9. \A t \in Traders : Consistent(t)' <=> Consistent(t)
  BY <1>8 DEF Consistent, Starts
<1>10. \A c \in Clients : (Busy(c)' <=> Busy(c)) /\ (Ending(c)' <=> Ending(c))
  BY DEF Busy, Ending, Starts
<1>11. TypeOK'
  BY <1>2, <1>3 DEF Inv, TypeOK, Starts
<1>12. RunInv'
  <2> SUFFICES ASSUME NEW q \in DOMAIN runs PROVE RunOK(q)'
    BY <1>2 DEF RunInv
  <2>1. RunOK(q) /\ runs[q].inst \in DOMAIN insts
    BY OfRun
  <2>2. CASE q = r
    <3>1. \A y \in DOMAIN runs : runs'[y].inst = i => y = r
      BY <1>1, <1>4 DEF RunOK
    <3> QED BY <1>1, <1>2, <1>3, <1>4, <2>2, <3>1 DEF RunOK, Starts
  <2>3. CASE q # r
    <3>1. runs[q].inst # i /\ runs'[q] = runs[q]
      BY <1>1, <1>2, <2>3 DEF RunOK
    <3>2. /\ insts'[runs[q].inst] = insts[runs[q].inst]
          /\ Owner(runs[q].inst)' = Owner(runs[q].inst)
      BY <1>3, <2>1, <3>1
    <3>3. \A y \in DOMAIN runs : runs'[y].inst = runs'[q].inst => y = q
      BY <1>4, <2>1 DEF RunOK
    <3> QED BY <1>2, <1>3, <1>4, <1>10, <2>1, <3>1, <3>2, <3>3 DEF RunOK, Starts
  <2> QED BY <2>2, <2>3
<1>13. InstInv'
  <2>1. \A p \in closed : p[1] # i
    <3>1. SUFFICES ASSUME NEW p \in closed, p[1] = i PROVE FALSE
      OBVIOUS
    <3>2. ~insts[i].running /\ runs[r].pc # "start"
      BY <1>1, <3>1 DEF Inv, InstInv
    <3> QED BY <1>1, <3>2 DEF RunOK, Starts
  <2>2. \A t \in Traders : traders'[t] # 0 => Owner(traders[t])' = t
    BY <1>3, <1>7 DEF Starts
  <2>3. ASSUME NEW j \in DOMAIN insts', insts'[j].running \/ insts'[j].owns
        PROVE  traders'[Owner(j)'] = j /\ HasRun(j)'
    <3>1. CASE j = i
      BY <1>3, <1>5, <1>6, <3>1 DEF Starts
    <3>2. CASE j # i
      BY <1>3, <1>5, <2>3, <3>2 DEF Starts, Inv, InstInv
    <3> QED BY <3>1, <3>2
  <2>4. ASSUME NEW p \in closed
        PROVE  /\ p[1] \in DOMAIN insts' /\ ~insts'[p[1]].running /\ HasRun(p[1])'
               /\ \A q \in DOMAIN runs' : runs'[q].inst = p[1] => runs'[q].pc # "start"
    <3>1. /\ p[1] \in DOMAIN insts /\ ~insts[p[1]].running /\ HasRun(p[1])
          /\ \A q \in DOMAIN runs : runs[q].inst = p[1] => runs[q].pc # "start"
      BY <2>4 DEF Inv, InstInv
    <3> QED BY <1>1, <1>2, <1>3, <1>4, <1>5, <2>1, <2>4, <3>1 DEF Starts
  <2> QED BY <2>2, <2>3, <2>4 DEF InstInv, Starts
<1>14. TraderInv'
  BY <1>9, <1>10 DEF Inv, TraderInv, Starts
<1>15. ClientInv'
  <2>1. \A t \in Traders : Quiet(t)' <=> Quiet(t)
    <3>1. \A q \in DOMAIN runs : /\ Owner(runs[q].inst)' = Owner(runs[q].inst)
                                 /\ (runs'[q].pc \in StartUp <=> runs[q].pc \in StartUp)
      BY <1>2, <1>3, <1>4, OfRun DEF Starts
    <3> QED BY <1>2, <3>1 DEF Quiet
  <2>2. \A t \in Traders : Unstarted(t)' <=> Unstarted(t)
    BY <1>5, <1>7 DEF Unstarted, Starts
  <2>3. ~Quiet(Owner(i))
    BY <1>1 DEF Quiet, Starts
  <2>4. ASSUME NEW c \in Clients, Busy(c) PROVE ClientOK(c)'
    <3>1. ClientOK(c) /\ clients[c].trader \in Traders
      BY <2>4 DEF Inv, ClientInv, TypeOK, Client
    <3>2. clients[c].pc \in {"status", "unmap"} \cup Stopping =>
            /\ clients[c].inst # i /\ clients[c].inst \in DOMAIN insts
            /\ insts'[clients[c].inst] = insts[clients[c].inst]
      <4>1. SUFFICES ASSUME clients[c].pc \in {"status", "unmap"} \cup Stopping
                     PROVE  clients[c].inst # i /\ clients[c].inst \in DOMAIN insts
        BY <1>3
      <4>2. Quiet(clients[c].trader) /\ clients[c].inst = traders[clients[c].trader] /\ clients[c].inst # 0
        BY <3>1, <4>1 DEF ClientOK, Stopping
      <4> QED BY <1>7, <2>3, <3>1, <4>2
    <3>3. UNCHANGED <<db, traders, mu, closed, clients>>
      BY DEF Starts
    <3>4. PICK t \in Traders : t = clients[c].trader
      BY <3>1
    <3>5. /\ Alive(t)' <=> Alive(t)
          /\ Consistent(t)' <=> Consistent(t)
          /\ Quiet(t)' <=> Quiet(t)
          /\ Unstarted(t)' <=> Unstarted(t)
      BY <1>8, <1>9, <2>1, <2>2
    <3>6. (\A q \in DOMAIN runs : runs[q].inst = clients[c].inst => Over(q))
            => (\A q \in DOMAIN runs' : runs'[q].inst = clients[c].inst => Over(q)')
      BY <1>2, <1>4
    <3> QED BY <1>5, <3>1, <3>2, <3>3, <3>4, <3>5, <3>6 DEF ClientOK, Stopping
  <2> QED BY <1>10, <2>4 DEF Inv, ClientInv, Starts
<1>16. LockInv'
  BY <1>10 DEF Inv, TypeOK, LockInv, Starts
<1> QED BY <1>11, <1>12, <1>13, <1>14, <1>15, <1>16 DEF Inv

\* The beginning of Run: isRunning, its stop channel, and the claim.
LEMMA BeginInv ==
  ASSUME Inv, NEW r \in DOMAIN runs, RunBegin(r) \/ RunChannel(r) \/ RunClaim(r)
  PROVE  Inv'
<1> DEFINE i == runs[r].inst
           o == insts[i]
<1>1. /\ runs[r] \in Run /\ RunOK(r) /\ i \in DOMAIN insts /\ o \in Instance
      /\ o.trader \in Traders /\ Account(i) \in Accounts
      /\ r \in 1..MaxRuns
  BY OfRun, LifecycleAssumption DEF Inst, Inv, TypeOK
<1>2. \A pc \in RunPc : /\ [runs[r] EXCEPT !.pc = pc] \in Run
                        /\ [runs[r] EXCEPT !.pc = pc].inst = i
                        /\ [runs[r] EXCEPT !.pc = pc].pc = pc
                        /\ [runs[r] EXCEPT !.pc = pc].monitor = runs[r].monitor
  BY <1>1 DEF Run
<1>3. owners \in [Accounts -> Traders \cup {None}]
  BY DEF Inv, TypeOK
<1>4. ASSUME NEW x \in Instance, insts' = [insts EXCEPT ![i] = x],
             x.trader = o.trader, x.owns = o.owns, UNCHANGED owners
      PROVE  OwnerInv'
  <2>1. /\ DOMAIN insts' = DOMAIN insts
        /\ \A j \in DOMAIN insts : /\ insts'[j].owns = insts[j].owns
                                   /\ Owner(j)' = Owner(j) /\ Account(j)' = Account(j)
    BY <1>1, <1>4, InstFrame
  <2> QED BY <1>4, <2>1 DEF Inv, OwnerInv
<1>5. CASE RunBegin(r)
  <2> DEFINE st == [runs[r] EXCEPT !.pc = "channel"]
             x == [o EXCEPT !.running = TRUE]
  <2>1. x \in Instance /\ x.trader = o.trader /\ x.owns = o.owns /\ x.running
    BY <1>1 DEF Instance
  <2>2. insts' = [insts EXCEPT ![i] = x] /\ runs' = [runs EXCEPT ![r] = st]
    BY <1>5 DEF RunBegin, Move
  <2>3. ~o.owns /\ runs[r].pc = "start"
    BY <1>1, <1>5 DEF RunOK, RunBegin, Unclaimed
  <2>4. Starts(r, st, x)
    BY <1>2, <1>3, <1>5, <2>1, <2>2, <2>3 DEF Starts, RunBegin, RunPc, StartUp, Unclaimed
  <2>5. OwnerInv'
    BY <1>4, <1>5, <2>1, <2>2 DEF RunBegin
  <2> QED BY <2>4, <2>5, StartsInv
<1>6. CASE RunChannel(r)
  <2> DEFINE st == [runs[r] EXCEPT !.pc = "join"]
             x == [o EXCEPT !.channel = r]
  <2>1. /\ x \in Instance /\ x.trader = o.trader /\ x.owns = o.owns /\ x.running = o.running
    BY <1>1 DEF Instance
  <2>2. insts' = [insts EXCEPT ![i] = x] /\ runs' = [runs EXCEPT ![r] = st]
    BY <1>6 DEF RunChannel, Move
  <2>3. ~o.owns /\ o.running /\ runs[r].pc = "channel"
    BY <1>1, <1>6 DEF RunOK, RunChannel, Unclaimed, StartUp
  <2>4. Starts(r, st, x)
    BY <1>2, <1>3, <1>6, <2>1, <2>2, <2>3 DEF Starts, RunChannel, RunPc, StartUp, Unclaimed
  <2>5. OwnerInv'
    BY <1>4, <1>6, <2>1, <2>2 DEF RunChannel
  <2> QED BY <2>4, <2>5, StartsInv
<1>7. CASE RunClaim(r)
  <2> DEFINE g == owners[Account(i)] \in {None, o.trader}
             st == [runs[r] EXCEPT !.pc = IF g THEN "monitors" ELSE "sync"]
             x == [o EXCEPT !.owns = g]
  <2>1. g \in BOOLEAN /\ (g <=> Granted(i)) /\ Granted(i) = g
    BY DEF Granted
  <2>2. x \in Instance /\ x.trader = o.trader /\ x.owns = g /\ x.running = o.running
    BY <1>1, <2>1 DEF Instance
  <2>3. insts' = [insts EXCEPT ![i] = x] /\ runs' = [runs EXCEPT ![r] = st]
    BY <1>7, <2>1 DEF RunClaim, Move
  <2>4. ~o.owns /\ o.running /\ runs[r].pc = "claim"
    BY <1>1, <1>7 DEF RunOK, RunClaim, Unclaimed, StartUp
  <2>5. owners' = IF g THEN [owners EXCEPT ![Account(i)] = o.trader] ELSE owners
    BY <1>7, <2>1 DEF RunClaim
  <2> HIDE DEF g
  <2>6. Starts(r, st, x)
    <3>1. owners' \in [Accounts -> Traders \cup {None}]
      BY <1>1, <1>3, <2>5
    <3>2. /\ st \in Run /\ st.inst = i /\ st.monitor = runs[r].monitor
          /\ st.pc \in {"monitors", "sync"} /\ (st.pc = "monitors" => x.owns)
      BY <1>2, <2>2 DEF RunPc, StartUp
    <3>3. UNCHANGED <<db, traders, mu, closed, clients, asked>>
      BY <1>7 DEF RunClaim
    <3> QED BY <2>2, <2>3, <2>4, <3>1, <3>2, <3>3 DEF Starts, StartUp, Unclaimed
  <2>7. /\ DOMAIN insts' = DOMAIN insts /\ insts'[i] = x
        /\ \A j \in DOMAIN insts : /\ j # i => insts'[j] = insts[j]
                                   /\ Owner(j)' = Owner(j) /\ Account(j)' = Account(j)
    BY <1>1, <2>2, <2>3, InstFrame
  <2>8. \A j \in DOMAIN insts : insts[j].owns => owners[Account(j)] = Owner(j) /\ Owner(j) # None
    <3>1. \A j \in DOMAIN insts : Owner(j) \in Traders
      BY OfObject
    <3> QED BY <3>1, LifecycleAssumption DEF Inv, OwnerInv
  <2>9. OwnerInv'
    <3>1. CASE g
      <4>1. owners' = [owners EXCEPT ![Account(i)] = Owner(i)] /\ insts'[i].owns
        BY <2>2, <2>5, <2>7, <3>1 DEF Owner
      <4>2. ASSUME NEW j \in DOMAIN insts, insts'[j].owns PROVE owners'[Account(j)] = Owner(j)
        <5>1. CASE j = i
          BY <1>1, <1>3, <4>1, <5>1
        <5>2. CASE j # i
          <6>1. owners[Account(j)] = Owner(j) /\ Owner(j) # None
            BY <2>7, <2>8, <4>2, <5>2
          <6>2. CASE Account(j) = Account(i)
            BY <1>1, <1>3, <3>1, <4>1, <6>1, <6>2 DEF g, Owner
          <6>3. CASE Account(j) # Account(i)
            BY <1>3, <4>1, <6>1, <6>3
          <6> QED BY <6>2, <6>3
        <5> QED BY <5>1, <5>2
      <4>3. ASSUME NEW a \in Accounts, owners'[a] # None
            PROVE  \E j \in DOMAIN insts : insts'[j].owns /\ Owner(j) = owners'[a] /\ Account(j) = a
        <5>1. CASE a = Account(i)
          BY <1>1, <1>3, <4>1, <5>1
        <5>2. CASE a # Account(i)
          <6>1. owners'[a] = owners[a]
            BY <1>3, <4>1, <5>2
          <6>2. PICK j \in DOMAIN insts : insts[j].owns /\ Owner(j) = owners[a] /\ Account(j) = a
            BY <4>3, <6>1 DEF Inv, OwnerInv
          <6> QED BY <2>7, <5>2, <6>1, <6>2
        <5> QED BY <5>1, <5>2
      <4> QED BY <2>7, <4>2, <4>3 DEF OwnerInv
    <3>2. CASE ~g
      BY <1>4, <2>2, <2>3, <2>4, <2>5, <3>2, <1>1, <2>1 DEF Instance
    <3> QED BY <3>1, <3>2
  <2> QED BY <2>6, <2>9, StartsInv
<1> QED BY <1>5, <1>6, <1>7

-----------------------------------------------------------------------------
(* Requests move *)

\* The handler of c moves to state st.  It may write the row of its trader, take
\* or give back the lock, and close a channel of its stopped object; the objects,
\* the goroutines and the registry stay as they are.
Steps(c, st) ==
  /\ st \in Client /\ clients' = [clients EXCEPT ![c] = st]
  /\ Busy(c)' => \/ Busy(c) /\ st.trader = clients[c].trader
                 \/ \A d \in Clients : Busy(d) => clients[d].trader # st.trader
  /\ Busy(c)' => ClientOK(c)'
  /\ st.op = "query" => st.pc \in {"idle", "lookup", "load"}
  /\ Busy(c) => st.trader = clients[c].trader
  /\ Busy(c) /\ ~Busy(c)' => \A t \in Traders : t = st.trader => Consistent(t)'
  /\ ~Busy(c) /\ ~Busy(c)' => UNCHANGED db
  /\ Ending(c) => Ending(c)' /\ st.inst = clients[c].inst
  /\ db' \in [Traders -> {"deleted", "running", "stopped"}]
  /\ \A t \in Traders : t # st.trader => db'[t] = db[t]
  /\ \/ UNCHANGED closed
     \/ /\ \E ch \in 0..MaxRuns : closed' = closed \cup {<<st.inst, ch>>}
        /\ Busy(c) /\ st.inst \in DOMAIN insts /\ Owner(st.inst) = st.trader
        /\ ~insts[st.inst].running /\ HasRun(st.inst) /\ Quiet(st.trader)
  /\ mu' \in Clients \cup {None}
  /\ \A d \in Clients \ {c} : mu' = d <=> mu = d
  /\ mu' = c => LockInv'
  /\ asked' \in 0..MaxRequests
  /\ UNCHANGED <<traders, insts, runs, owners>>

\* What the step of one handler leaves to the others.
LEMMA StepsFrame ==
  ASSUME Inv, NEW c \in Clients, NEW st, Steps(c, st)
  PROVE  /\ clients' \in [Clients -> Client] /\ clients'[c] = st
         /\ \A d \in Clients : d # c => /\ clients'[d] = clients[d]
                                        /\ Busy(d)' <=> Busy(d)
                                        /\ Ending(d)' <=> Ending(d)
         /\ \A d \in Clients : Ending(d) => Ending(d)' /\ clients'[d].inst = clients[d].inst
         /\ UNCHANGED <<traders, insts, runs, owners>>
         /\ \A t \in Traders : Alive(t)' <=> Alive(t)
         /\ \A r \in DOMAIN runs : Monitoring(r)' <=> Monitoring(r)
<1>1. clients \in [Clients -> Client]
  BY DEF Inv, TypeOK
<1>2. clients' \in [Clients -> Client] /\ clients'[c] = st /\ \A d \in Clients : d # c => clients'[d] = clients[d]
  BY <1>1 DEF Steps
<1> QED BY <1>2 DEF Steps, Busy, Ending, Alive, Starting, Monitoring

\* Such a step keeps the invariant.
LEMMA StepsInv ==
  ASSUME Inv, NEW c \in Clients, NEW st, Steps(c, st)
  PROVE  Inv'
<1>1. /\ clients' \in [Clients -> Client] /\ clients'[c] = st
      /\ \A d \in Clients : d # c => /\ clients'[d] = clients[d]
                                     /\ Busy(d)' <=> Busy(d)
                                     /\ Ending(d)' <=> Ending(d)
      /\ \A d \in Clients : Ending(d) => Ending(d)' /\ clients'[d].inst = clients[d].inst
      /\ UNCHANGED <<traders, insts, runs, owners>>
      /\ \A t \in Traders : Alive(t)' <=> Alive(t)
      /\ \A r \in DOMAIN runs : Monitoring(r)' <=> Monitoring(r)
  BY StepsFrame
<1>2. st \in Client /\ st.trader \in Traders
  BY DEF Steps, Client
<1>3. LockInv'
  <2>1. CASE mu' = c
    BY <2>1 DEF Steps
  <2>2. CASE mu' # c /\ mu' # None
    <3>1. mu' \in Clients \ {c} /\ mu' = mu
      BY <2>2 DEF Steps
    <3> QED BY <1>1, <3>1 DEF Inv, LockInv
  <2> QED BY <2>1, <2>2 DEF LockInv
<1>4. TypeOK'
  <2>1. closed' \subseteq (1..MaxInstances) \X (0..MaxRuns)
    <3>1. closed \subseteq (1..MaxInstances) \X (0..MaxRuns) /\ DOMAIN insts \subseteq 1..MaxInstances
      BY LifecycleAssumption DEF Inv, TypeOK
    <3> QED BY <3>1 DEF Steps
  <2>2. mu' # None => clients'[mu'].pc \in Stopping \cup {"unmap"}
    BY <1>3 DEF LockInv
  <2> QED BY <1>1, <2>1, <2>2 DEF Inv, TypeOK, Steps
<1>5. RunInv'
  <2> SUFFICES ASSUME NEW r \in DOMAIN runs PROVE RunOK(r)'
    BY <1>1 DEF RunInv
  <2>1. RunOK(r)
    BY OfRun
  <2> QED BY <1>1, <2>1 DEF RunOK, Owner, Over
<1>6. InstInv'
  <2>1. ASSUME NEW p \in closed'
        PROVE  /\ p[1] \in DOMAIN insts /\ ~insts[p[1]].running /\ HasRun(p[1])
               /\ \A r \in DOMAIN runs : runs[r].inst = p[1] => runs[r].pc # "start"
    <3>1. CASE p \in closed
      BY <3>1 DEF Inv, InstInv
    <3>2. CASE p \notin closed
      <4>1. /\ p[1] = st.inst /\ st.inst \in DOMAIN insts /\ Owner(st.inst) = st.trader
            /\ ~insts[st.inst].running /\ HasRun(st.inst) /\ Quiet(st.trader)
        BY <2>1, <3>2 DEF Steps
      <4> QED BY <4>1 DEF Quiet, StartUp
    <3> QED BY <3>1, <3>2
  <2> QED BY <1>1, <2>1 DEF Inv, InstInv, Owner, HasRun
<1>7. OwnerInv'
  BY <1>1 DEF Inv, OwnerInv, Owner, Account
<1>8. TraderInv'
  <2> SUFFICES ASSUME NEW t \in Traders, \A d \in Clients : Busy(d)' => clients'[d].trader # t
               PROVE  Consistent(t)'
    BY DEF TraderInv
  <2>1. CASE t = st.trader /\ Busy(c)
    BY <1>1, <2>1 DEF Steps
  <2>2. CASE ~(t = st.trader /\ Busy(c))
    <3>1. \A d \in Clients : Busy(d) => clients[d].trader # t
      BY <1>1, <2>2 DEF Steps
    <3>2. Consistent(t)
      BY <3>1 DEF Inv, TraderInv
    <3>3. db'[t] = db[t]
      BY <1>1, <2>2 DEF Steps
    <3> QED BY <1>1, <3>2, <3>3 DEF Consistent
  <2> QED BY <2>1, <2>2
<1>9. ClientInv'
  <2>1. ASSUME NEW d \in Clients, Busy(d)'
        PROVE  ClientOK(d)'
    <3>1. CASE d = c
      BY <2>1, <3>1 DEF Steps
    <3>2. CASE d # c
      <4>1. Busy(d) /\ ClientOK(d) /\ clients'[d] = clients[d] /\ clients[d].trader \in Traders
        BY <1>1, <2>1, <3>2 DEF Inv, ClientInv, TypeOK, Client
      <4> DEFINE t == clients[d].trader
      <4>2. t # st.trader \/ (UNCHANGED <<db, closed>>)
        <5>1. CASE Busy(c)
          BY <1>1, <3>2, <4>1, <5>1 DEF Inv, ClientInv, Steps
        <5>2. CASE ~Busy(c)
          BY <4>1, <5>2 DEF Steps
        <5> QED BY <5>1, <5>2
      <4>3. /\ db'[t] = db[t] /\ (Consistent(t) => Consistent(t)') /\ (Alive(t)' <=> Alive(t))
            /\ Quiet(t) => Quiet(t)'
            /\ Unstarted(t) => Unstarted(t)'
        <5>1. db'[t] = db[t] /\ clients'[d] = clients[d]
          BY <4>1, <4>2 DEF Steps
        <5> QED BY <1>1, <4>1, <5>1 DEF Consistent, Quiet, Unstarted, HasRun, Owner
      <4>4. closed \subseteq closed' /\ (mu' = d <=> mu = d)
        BY <3>2 DEF Steps
      <4>5. clients[d].pc = "close" => \A p \in closed' : p[1] # clients[d].inst
        <5>1. SUFFICES ASSUME clients[d].pc = "close", NEW p \in closed', p \notin closed
                       PROVE  p[1] # clients[d].inst
          BY <4>1 DEF ClientOK
        <5>2. p[1] = st.inst /\ Owner(st.inst) = st.trader /\ t # st.trader
          BY <4>2, <5>1 DEF Steps
        <5>3. clients[d].inst = traders[t] /\ traders[t] # 0
          BY <4>1, <5>1 DEF ClientOK, Stopping
        <5> QED BY <4>1, <5>2, <5>3 DEF Inv, InstInv
      <4>6. \A i : /\ HasRun(i) => HasRun(i)'
                   /\ (\A r \in DOMAIN runs : runs[r].inst = i => Over(r))
                        => (\A r \in DOMAIN runs' : runs'[r].inst = i => Over(r)')
        BY <1>1 DEF HasRun, Over
      <4> QED BY <1>1, <4>1, <4>3, <4>4, <4>5, <4>6 DEF ClientOK
    <3> QED BY <3>1, <3>2
  <2>2. ASSUME NEW d \in Clients, NEW e \in Clients, Busy(d)', Busy(e)', clients'[d].trader = clients'[e].trader
        PROVE  d = e
    BY <1>1, <2>2 DEF Inv, ClientInv, Steps
  <2>3. \A d \in Clients : clients'[d].op = "query" => clients'[d].pc \in {"idle", "lookup", "load"}
    BY <1>1 DEF Inv, ClientInv, Steps
  <2> QED BY <2>1, <2>2, <2>3 DEF ClientInv
<1> QED BY <1>3, <1>4, <1>5, <1>6, <1>7, <1>8, <1>9 DEF Inv

\* The handler of c moves to state st, with the same trader and operation, and
\* perhaps with the lock.
Goes(c, st) ==
  /\ clients[c].pc # "idle" /\ st \in Client /\ clients' = [clients EXCEPT ![c] = st]
  /\ st.trader = clients[c].trader /\ st.op = clients[c].op
  /\ st.op = "query" => st.pc \in {"idle", "lookup", "load"}
  /\ clients[c].pc \notin {"close", "wait", "release"}
     \/ (st.pc \in {"close", "wait", "release"} /\ st.inst = clients[c].inst)
  /\ UNCHANGED <<db, traders, insts, closed, runs, owners, asked>>
  /\ mu' = mu \/ (mu \in {None, c} /\ mu' \in {None, c})

\* Such a move keeps the invariant if the handler may rely on what it needs there.
LEMMA GoesInv ==
  ASSUME Inv, NEW c \in Clients, NEW st, Goes(c, st),
         Busy(c) /\ st.pc # "idle" => ClientOK(c)',
         Busy(c) /\ st.pc = "idle" => Consistent(st.trader),
         mu' = c => st.op \notin {"stop", "query"} /\ st.pc \in Stopping \cup {"unmap"}
  PROVE  Inv'
<1>1. clients'[c] = st
  BY DEF Inv, TypeOK, Goes
<1>2. Busy(c)' => Busy(c)
  BY <1>1 DEF Busy, Goes
<1>3. Busy(c) /\ ~Busy(c)' => \A t \in Traders : t = st.trader => Consistent(t)'
  BY <1>1, <1>2 DEF Busy, Goes, Consistent, Alive, Starting
<1>4. mu' = c => LockInv'
  BY <1>1 DEF LockInv, Busy, Stopping, Goes
<1>5. Ending(c) => Ending(c)' /\ st.inst = clients[c].inst
  BY <1>1 DEF Ending, Busy, Goes
<1>6. /\ db' \in [Traders -> {"deleted", "running", "stopped"}]
      /\ mu' \in Clients \cup {None} /\ asked' \in 0..MaxRequests
      /\ \A d \in Clients \ {c} : mu' = d <=> mu = d
  BY LifecycleAssumption DEF Goes, Inv, TypeOK
<1>7. Steps(c, st)
  BY <1>1, <1>2, <1>3, <1>4, <1>5, <1>6 DEF Steps, Goes, Busy
<1> QED BY <1>7, StepsInv

\* What a handler at work may rely on, with the types.
LEMMA OfClient ==
  ASSUME Inv, NEW c \in Clients
  PROVE  /\ clients[c] \in Client /\ clients[c].trader \in Traders
         /\ traders[clients[c].trader] \in 0..Len(insts) /\ traders[clients[c].trader] \in Instances
         /\ Busy(c) => ClientOK(c)
         /\ clients[c].op = "query" => clients[c].pc \in {"idle", "lookup", "load"}
<1>1. clients[c] \in Client
  BY DEF Inv, TypeOK
<1>2. clients[c].trader \in Traders
  BY <1>1 DEF Client
<1>3. traders[clients[c].trader] \in 0..Len(insts)
  BY <1>2 DEF Inv, TypeOK
<1>4. Len(insts) \in Nat /\ Len(insts) <= MaxInstances /\ MaxInstances \in Nat
  BY LifecycleAssumption DEF Inv, TypeOK
<1>5. traders[clients[c].trader] \in Instances
  BY <1>3, <1>4 DEF Instances
<1> QED BY <1>1, <1>2, <1>3, <1>5 DEF Inv, ClientInv

\* The lock is held by a handler that removes its trader.
LEMMA HoldsLock ==
  ASSUME Inv, NEW c \in Clients, mu = c
  PROVE  clients[c].pc \in Stopping \cup {"unmap"} /\ clients[c].op \notin {"stop", "query"}
  BY LifecycleAssumption DEF Inv, LockInv, Busy

\* The object a handler stopped, or found at rest, does not own its account.
LEMMA AtRest ==
  ASSUME Inv, NEW c \in Clients, Busy(c), ~Ending(c), Quiet(clients[c].trader),
         NEW i \in DOMAIN insts, traders[clients[c].trader] = i, ~insts[i].running
  PROVE  ~insts[i].owns /\ ~Alive(clients[c].trader)
<1>1. Owner(i) = clients[c].trader
  BY OfClient, OfObject DEF Inv, InstInv
<1>2. ~Starting(clients[c].trader)
  BY <1>1 DEF Starting, Quiet, StartUp
<1>3. ASSUME insts[i].owns PROVE FALSE
  <2>1. PICK r \in DOMAIN runs : runs[r].inst = i
    BY <1>3 DEF Inv, InstInv, HasRun
  <2>2. PICK d \in Clients : Ending(d) /\ clients[d].inst = i
    BY <1>1, <1>3, <2>1, OfRun DEF RunOK, Quiet, StartUp
  <2>3. Busy(d) /\ ClientOK(d) /\ clients[d].pc \in Stopping /\ clients[d].trader \in Traders
    BY <2>2, OfClient DEF Ending, Stopping
  <2>4. i = traders[clients[d].trader] /\ i # 0
    BY <2>2, <2>3 DEF ClientOK
  <2>5. Owner(i) = clients[d].trader
    BY <2>3, <2>4 DEF Inv, InstInv
  <2> QED BY <1>1, <2>2, <2>3, <2>5 DEF Inv, ClientInv
<1> QED BY <1>2, <1>3 DEF Alive

\* What a handler's move leaves as it is.
LEMMA GoesFrame ==
  ASSUME Inv, NEW c \in Clients, NEW st, Goes(c, st)
  PROVE  /\ clients'[c] = st /\ UNCHANGED <<db, traders, insts, closed, runs>>
         /\ \A t \in Traders : /\ Quiet(t)' <=> Quiet(t)
                               /\ Consistent(t)' <=> Consistent(t)
                               /\ Unstarted(t)' <=> Unstarted(t)
                               /\ Alive(t)' <=> Alive(t)
         /\ \A i : HasRun(i)' <=> HasRun(i)
         /\ \A r : Over(r)' <=> Over(r)
<1>1. clients'[c] = st /\ UNCHANGED <<db, traders, insts, closed, runs>>
  BY DEF Inv, TypeOK, Goes
<1> QED BY <1>1 DEF Quiet, Consistent, Unstarted, Alive, Starting, HasRun, Over, Monitoring, Owner

\* A trader that nobody starts up and whose object does not run is not recorded
\* as running.
LEMMA NotRunning ==
  ASSUME Inv, NEW t \in Traders, Quiet(t), Consistent(t),
         traders[t] = 0 \/ ~insts[traders[t]].running
  PROVE  db[t] # "running" /\ ~Alive(t)
<1>1. ASSUME Starting(t), traders[t] # 0 PROVE FALSE
  BY <1>1 DEF Starting, Quiet, Inv, InstInv, StartUp
<1> QED BY <1>1 DEF Alive, Consistent

\* Looking a trader up keeps the invariant.
LEMMA LookupInv ==
  ASSUME Inv, NEW c \in Clients, Lookup(c)
  PROVE  Inv'
<1> DEFINE t  == clients[c].trader
           i  == traders[t]
           op == clients[c].op
           pc == IF i # 0 THEN IF op = "query" THEN "idle" ELSE "status"
                 ELSE CASE op \in {"query", "start"} -> "load"
                        [] op = "stop"               -> "idle"
                        [] OTHER                     -> "remove"
           st == [clients[c] EXCEPT !.inst = i, !.pc = pc]
<1>1. /\ clients[c] \in Client /\ clients[c].pc = "lookup" /\ t \in Traders /\ i \in Instances
      /\ Busy(c) <=> op # "query"
  BY OfClient DEF Lookup, Busy
<1>2. /\ st \in Client /\ st.trader = t /\ st.op = op /\ st.inst = i /\ st.pc = pc
      /\ clients' = [clients EXCEPT ![c] = st]
  BY <1>1 DEF Client, Stopping, Lookup
<1>3. op = "query" => pc \in {"idle", "load"}
  OBVIOUS
<1>4. Busy(c) => /\ op \in {"start", "stop", "delete"} /\ Consistent(t) /\ Quiet(t)
                 /\ op = "delete" => db[t] = "deleted"
  BY <1>1, OfClient DEF ClientOK
<1>5. Busy(c) => \/ pc = "status" /\ i # 0
                 \/ pc = "load" /\ op = "start" /\ i = 0
                 \/ pc = "idle" /\ op = "stop"
                 \/ pc = "remove" /\ op = "delete" /\ i = 0
  BY <1>1, <1>4
<1> HIDE DEF pc
<1>6. Goes(c, st)
  BY <1>1, <1>2, <1>3 DEF Goes, Lookup
<1>7. ASSUME Busy(c), st.pc # "idle" PROVE ClientOK(c)'
  <2>1. pc = "load" => Unstarted(t)
    BY <1>1, <1>4, <1>5, <1>7, NotRunning DEF Unstarted
  <2> QED BY <1>1, <1>2, <1>4, <1>5, <1>6, <1>7, <2>1, GoesFrame DEF ClientOK, Stopping
<1> QED BY <1>1, <1>2, <1>4, <1>6, <1>7, GoesInv, HoldsLock DEF Lookup, Stopping

\* So does asking for its status.
LEMMA StatusInv ==
  ASSUME Inv, NEW c \in Clients, Status(c)
  PROVE  Inv'
<1> DEFINE t  == clients[c].trader
           i  == clients[c].inst
           op == clients[c].op
           running == insts[i].running
           pc == CASE op = "start"  -> IF running THEN "idle" ELSE "remove"
                   [] op = "stop"   -> IF running THEN "stop" ELSE "idle"
                   [] op = "update" -> "remove"
                   [] op = "delete" -> IF running THEN "stop" ELSE "remove"
           st == [clients[c] EXCEPT !.was = running, !.pc = pc]
<1>1. /\ clients[c] \in Client /\ clients[c].pc = "status" /\ t \in Traders
      /\ Busy(c) /\ ClientOK(c) /\ traders[t] \in 0..Len(insts)
  BY OfClient DEF Status, Busy
<1>2. /\ op \in {"start", "stop", "delete"} /\ Consistent(t) /\ Quiet(t) /\ i = traders[t] /\ i # 0
      /\ op = "delete" => db[t] = "deleted"
  BY <1>1 DEF ClientOK
<1>3. i \in DOMAIN insts
  BY <1>1, <1>2 DEF Inv, TypeOK
<1>4. running \in BOOLEAN
  BY <1>3, OfObject DEF Instance
<1>5. \/ pc = "idle" /\ op \in {"start", "stop"}
      \/ pc = "remove" /\ op \in {"start", "delete"} /\ ~running
      \/ pc = "stop" /\ op \in {"stop", "delete"} /\ running
  BY <1>2, <1>4
<1>6. clients' = [clients EXCEPT ![c] = st]
  <2>1. clients' = [clients EXCEPT ![c].was = running, ![c].pc = pc]
    BY DEF Status
  <2> HIDE DEF pc, running
  <2> QED BY <1>1, <2>1 DEF Client
<1> HIDE DEF pc
<1>7. st \in Client /\ st.trader = t /\ st.op = op /\ st.inst = i /\ st.pc = pc
  BY <1>1, <1>4, <1>5 DEF Client, Stopping
<1>8. Goes(c, st)
  BY <1>1, <1>2, <1>6, <1>7 DEF Goes, Status
<1>9. ASSUME st.pc # "idle" PROVE ClientOK(c)'
  <2>1. ~running => db[t] # "running"
    BY <1>1, <1>2, NotRunning
  <2> HIDE DEF st
  <2>2. /\ clients'[c] = st /\ UNCHANGED <<db, traders>>
        /\ \A u \in Traders : Quiet(u)' <=> Quiet(u)
    BY <1>1, <1>8, GoesFrame
  <2> QED BY <1>1, <1>2, <1>4, <1>5, <1>7, <1>9, <2>1, <2>2 DEF ClientOK, Stopping
<1> QED BY <1>1, <1>2, <1>5, <1>7, <1>8, <1>9, GoesInv, HoldsLock DEF Status, Stopping

\* So does removing it from memory.
LEMMA RemoveTraderInv ==
  ASSUME Inv, NEW c \in Clients, RemoveTrader(c)
  PROVE  Inv'
<1> DEFINE t  == clients[c].trader
           i  == traders[t]
           op == clients[c].op
<1>1. /\ clients[c] \in Client /\ clients[c].pc = "remove" /\ t \in Traders
      /\ Busy(c) /\ ~Ending(c) /\ ClientOK(c) /\ i \in 0..Len(insts) /\ i \in Instances
  BY OfClient DEF RemoveTrader, Busy, Ending, Instances
<1>2. /\ op \in {"start", "delete", "reload"} /\ Quiet(t)
      /\ db[t] = "running" => i # 0
      /\ op = "delete" => db[t] = "deleted"
      /\ op = "start" => db[t] # "running"
  BY <1>1 DEF ClientOK, Stopping
<1>3. mu \in {None, c} /\ mu # c
  BY <1>1, HoldsLock DEF RemoveTrader, Free, Stopping
<1>4. CASE i = 0
  <2> DEFINE st == [clients[c] EXCEPT !.pc = AfterRemove(c)]
  <2>1. clients' = [clients EXCEPT ![c] = st] /\ mu' = None
    BY <1>4 DEF RemoveTrader, Go, Unlocked
  <2>2. /\ st \in Client /\ st.trader = t /\ st.op = op
        /\ st.pc = IF op = "delete" THEN "idle" ELSE "load"
    BY <1>1 DEF Client, AfterRemove
  <2>3. Goes(c, st)
    BY <1>1, <1>2, <1>3, <2>1, <2>2 DEF Goes, RemoveTrader
  <2>4. ASSUME st.pc # "idle" PROVE ClientOK(c)'
    <3> HIDE DEF st
    <3>1. /\ clients'[c] = st /\ UNCHANGED <<db, traders>>
          /\ \A u \in Traders : Unstarted(u)' <=> Unstarted(u)
      BY <1>1, <2>3, GoesFrame
    <3> QED BY <1>1, <1>2, <1>4, <2>2, <2>4, <3>1 DEF ClientOK, Stopping, Unstarted
  <2>5. st.pc = "idle" => Consistent(t)
    BY <1>2, <2>2 DEF Consistent
  <2> QED BY <2>1, <2>2, <2>3, <2>4, <2>5, GoesInv, LifecycleAssumption
<1>5. CASE i # 0
  <2> DEFINE running == insts[i].running
             st == [clients[c] EXCEPT !.inst = i, !.pc = IF running THEN "stop" ELSE "unmap"]
  <2>1. i \in DOMAIN insts
    BY <1>1, <1>5 DEF Inv, TypeOK
  <2>2. running \in BOOLEAN
    BY <2>1, OfObject DEF Instance
  <2>3. clients' = [clients EXCEPT ![c] = st] /\ mu' = c
    BY <1>5 DEF RemoveTrader
  <2>4. /\ st \in Client /\ st.trader = t /\ st.op = op /\ st.inst = i
        /\ st.pc = IF running THEN "stop" ELSE "unmap"
    BY <1>1 DEF Client, Stopping
  <2>5. Goes(c, st)
    BY <1>1, <1>2, <1>3, <2>2, <2>3, <2>4 DEF Goes, RemoveTrader
  <2>6. ~running => ~insts[i].owns
    BY <1>1, <1>2, <2>1, AtRest
  <2>7. ClientOK(c)'
    <3> HIDE DEF st
    <3>1. /\ clients'[c] = st /\ UNCHANGED <<db, traders, insts>>
          /\ \A u \in Traders : Quiet(u)' <=> Quiet(u)
      BY <1>1, <2>5, GoesFrame
    <3> QED BY <1>1, <1>2, <1>5, <2>2, <2>3, <2>4, <2>6, <3>1 DEF ClientOK, Stopping
  <2> HIDE DEF st
  <2> QED BY <1>2, <2>2, <2>3, <2>4, <2>5, <2>7, GoesInv DEF Stopping
<1> QED BY <1>4, <1>5

\* So does waiting for its goroutines to end.
LEMMA StopWaitInv ==
  ASSUME Inv, NEW c \in Clients, StopWait(c)
  PROVE  Inv'
<1> DEFINE t  == clients[c].trader
           i  == clients[c].inst
           st == [clients[c] EXCEPT !.pc = "release"]
<1>1. /\ clients[c] \in Client /\ clients[c].pc = "wait" /\ t \in Traders
      /\ Busy(c) /\ ClientOK(c)
  BY OfClient DEF StopWait, Busy
<1>2. /\ i = traders[t] /\ i # 0 /\ Quiet(t) /\ ~insts[i].running /\ HasRun(i)
      /\ <<i, insts[i].channel>> \in closed /\ clients[c].op # "update"
      /\ clients[c].op = "delete" => db[t] = "deleted"
      /\ clients[c].op = "start" => db[t] # "running"
  BY <1>1 DEF ClientOK, Stopping
<1>3. st \in Client /\ st.trader = t /\ st.op = clients[c].op /\ st.inst = i /\ st.pc = "release"
  BY <1>1 DEF Client, Stopping
<1>4. clients' = [clients EXCEPT ![c] = st]
  BY DEF StopWait, Go
<1>5. clients[c].op # "query"
  BY <1>1 DEF Busy
<1>6. Goes(c, st)
  BY <1>1, <1>3, <1>4, <1>5 DEF Goes, StopWait
<1>7. Owner(i) = t
  BY <1>1, <1>2 DEF Inv, InstInv
<1>8. \A r \in DOMAIN runs : runs[r].inst = i => Over(r)
  BY <1>1, <1>2, <1>7 DEF StopWait, CountsInWg, Quiet, StartUp, Over
<1>9. ClientOK(c)'
  <2> HIDE DEF st
  <2>1. /\ clients'[c] = st /\ UNCHANGED <<db, traders, insts, closed, runs>>
        /\ \A u \in Traders : Quiet(u)' <=> Quiet(u)
        /\ \A j : HasRun(j)' <=> HasRun(j)
        /\ \A r : Over(r)' <=> Over(r)
    BY <1>1, <1>6, GoesFrame
  <2> QED BY <1>1, <1>2, <1>3, <1>5, <1>8, <2>1 DEF ClientOK, Stopping
<1>10. mu' = c => st.op # "stop"
  BY <1>3, HoldsLock DEF StopWait
<1> QED BY <1>3, <1>5, <1>6, <1>9, <1>10, GoesInv DEF Stopping

\* Where a handler goes after Stop: it is ready for what comes next.
LEMMA AfterStopOK ==
  ASSUME Inv, NEW c \in Clients, clients[c].pc \in {"stop", "release"}
  PROVE  /\ AfterStop(c) \in {"unmap", "save", "remove"}
         /\ mu = c => AfterStop(c) = "unmap" /\ clients[c].op # "stop"
         /\ mu # c => \/ AfterStop(c) = "save" /\ clients[c].op = "stop"
                      \/ AfterStop(c) = "remove" /\ clients[c].op # "stop"
  BY HoldsLock DEF AfterStop

\* The handler of c, stopping its object, moves to state st and leaves the object
\* as x, which no longer runs; the objects and the registry still agree.
Stops(c, st, x) ==
  LET i == clients[c].inst
  IN /\ clients[c].pc \in {"stop", "release"}
     /\ st \in Client /\ clients' = [clients EXCEPT ![c] = st]
     /\ st.trader = clients[c].trader /\ st.op = clients[c].op /\ st.inst = i /\ st.pc # "idle"
     /\ x \in Instance /\ insts' = [insts EXCEPT ![i] = x]
     /\ x.trader = insts[i].trader /\ x.channel = insts[i].channel /\ ~x.running
     /\ \/ x.owns = insts[i].owns /\ st.pc \in {"close", "wait", "release"}
        \/ ~x.owns /\ \A r \in DOMAIN runs : runs[r].inst = i => Over(r)
     /\ mu = c => st.pc \in Stopping \cup {"unmap"}
     /\ owners' \in [Accounts -> Traders \cup {None}]
     /\ UNCHANGED <<db, traders, mu, closed, runs, asked>>

\* What such a step leaves alone.
LEMMA StopsFrame ==
  ASSUME Inv, NEW c \in Clients, NEW st, NEW x, Stops(c, st, x),
         NEW i, NEW t, i = clients[c].inst, t = clients[c].trader
  PROVE  /\ i \in DOMAIN insts /\ i = traders[t] /\ i # 0 /\ Owner(i) = t /\ t \in Traders
         /\ clients[c].op # "query" /\ Busy(c) /\ ClientOK(c) /\ Quiet(t)
         /\ insts' \in Seq(Instance) /\ Len(insts') = Len(insts) /\ DOMAIN insts' = DOMAIN insts
         /\ insts'[i] = x
         /\ \A j \in DOMAIN insts : /\ j # i => insts'[j] = insts[j]
                                    /\ Owner(j)' = Owner(j) /\ Account(j)' = Account(j)
         /\ clients' \in [Clients -> Client] /\ clients'[c] = st
         /\ \A d \in Clients : /\ d # c => clients'[d] = clients[d]
                               /\ Busy(d)' <=> Busy(d)
                               /\ clients'[d].trader = clients[d].trader
                               /\ d # c => (Ending(d)' <=> Ending(d))
         /\ \A r \in DOMAIN runs : (Monitoring(r)' <=> Monitoring(r)) /\ (Over(r)' <=> Over(r))
         /\ \A j : HasRun(j)' <=> HasRun(j)
         /\ \A u \in Traders : Quiet(u)' <=> Quiet(u)
         /\ \A u \in Traders : Unstarted(u)' <=> Unstarted(u)
<1>1. /\ clients[c].op # "query" /\ Busy(c) /\ ClientOK(c) /\ t \in Traders
      /\ i = traders[t] /\ i # 0 /\ Quiet(t) /\ i \in 0..Len(insts)
  BY OfClient DEF Stops, Busy, ClientOK, Stopping
<1>2. i \in DOMAIN insts /\ Owner(i) = t
  BY <1>1 DEF Inv, TypeOK, InstInv
<1>3. /\ insts' \in Seq(Instance) /\ Len(insts') = Len(insts) /\ DOMAIN insts' = DOMAIN insts
      /\ insts'[i] = x
      /\ \A j \in DOMAIN insts : /\ j # i => insts'[j] = insts[j]
                                 /\ Owner(j)' = Owner(j) /\ Account(j)' = Account(j)
  BY <1>2, InstFrame DEF Stops
<1>4. clients' \in [Clients -> Client] /\ clients'[c] = st /\ \A d \in Clients : d # c => clients'[d] = clients[d]
  BY DEF Inv, TypeOK, Stops
<1>5. \A d \in Clients : /\ Busy(d)' <=> Busy(d)
                         /\ clients'[d].trader = clients[d].trader
                         /\ d # c => (Ending(d)' <=> Ending(d))
  BY <1>1, <1>4 DEF Busy, Ending, Stops
<1>6. /\ \A r \in DOMAIN runs : (Monitoring(r)' <=> Monitoring(r)) /\ (Over(r)' <=> Over(r))
      /\ \A j : HasRun(j)' <=> HasRun(j)
      /\ \A u \in Traders : Unstarted(u)' <=> Unstarted(u)
  BY DEF Stops, Monitoring, Over, HasRun, Unstarted
<1>7. \A u \in Traders : Quiet(u)' <=> Quiet(u)
  <2>1. \A r \in DOMAIN runs : Owner(runs[r].inst)' = Owner(runs[r].inst)
    BY <1>3, OfRun DEF Stops
  <2> QED BY <2>1 DEF Quiet, Stops
<1> QED BY <1>1, <1>2, <1>3, <1>4, <1>5, <1>6, <1>7

\* A step of Stop keeps the invariant.
LEMMA StopsInv ==
  ASSUME Inv, NEW c \in Clients, NEW st, NEW x, Stops(c, st, x), ClientOK(c)', OwnerInv'
  PROVE  Inv'
<1>0. PICK i, t : i = clients[c].inst /\ t = clients[c].trader
  OBVIOUS
<1>1. UNCHANGED <<db, traders, mu, closed, runs, asked>>
  BY DEF Stops
<1>2. /\ i \in DOMAIN insts /\ i = traders[t] /\ i # 0 /\ Owner(i) = t /\ t \in Traders
      /\ clients[c].op # "query" /\ Busy(c) /\ ClientOK(c) /\ Quiet(t)
      /\ insts' \in Seq(Instance) /\ Len(insts') = Len(insts) /\ DOMAIN insts' = DOMAIN insts
      /\ insts'[i] = x
      /\ \A j \in DOMAIN insts : /\ j # i => insts'[j] = insts[j]
                                 /\ Owner(j)' = Owner(j) /\ Account(j)' = Account(j)
      /\ clients' \in [Clients -> Client] /\ clients'[c] = st
      /\ \A d \in Clients : /\ d # c => clients'[d] = clients[d]
                            /\ Busy(d)' <=> Busy(d)
                            /\ clients'[d].trader = clients[d].trader
                            /\ d # c => (Ending(d)' <=> Ending(d))
      /\ \A r \in DOMAIN runs : (Monitoring(r)' <=> Monitoring(r)) /\ (Over(r)' <=> Over(r))
      /\ \A j : HasRun(j)' <=> HasRun(j)
      /\ \A u \in Traders : Quiet(u)' <=> Quiet(u)
      /\ \A u \in Traders : Unstarted(u)' <=> Unstarted(u)
  BY <1>0, StopsFrame
<1>3. TypeOK' /\ LockInv'
  <2>1. LockInv'
    <3>1. CASE mu = c
      BY <1>1, <1>2, <3>1, HoldsLock DEF LockInv, Stops
    <3>2. CASE mu # c /\ mu # None
      <4>1. mu \in Clients
        BY <3>2 DEF Inv, TypeOK
      <4> QED BY <1>1, <1>2, <3>2, <4>1 DEF Inv, LockInv
    <3> QED BY <1>1, <3>1, <3>2 DEF LockInv
  <2> QED BY <1>1, <1>2, <2>1 DEF Inv, TypeOK, Stops, LockInv
<1>4. /\ x.owns => insts[i].owns
      /\ ~x.running
      /\ \/ x.owns = insts[i].owns /\ Ending(c)' /\ clients'[c].inst = i
         \/ ~x.owns /\ \A r \in DOMAIN runs : runs[r].inst = i => Over(r)
  BY <1>0, <1>2 DEF Stops, Ending
<1>5. RunInv'
  <2> SUFFICES ASSUME NEW r \in DOMAIN runs PROVE RunOK(r)'
    BY <1>1 DEF RunInv
  <2>1. RunOK(r) /\ runs[r].inst \in DOMAIN insts
    BY OfRun
  <2>2. CASE runs[r].inst = i
    <3>1. runs[r].pc \notin StartUp
      BY <1>2, <2>2 DEF Quiet
    <3>2. Monitoring(r) => x.owns
      BY <1>4, <2>1, <2>2 DEF RunOK, Over
    <3>3. \/ Over(r)' /\ ~x.owns
          \/ Ending(c)' /\ clients'[c].inst = i
      BY <1>2, <1>4, <2>2
    <3> QED BY <1>1, <1>2, <1>4, <2>1, <2>2, <3>1, <3>2, <3>3 DEF RunOK, StartUp, Unclaimed
  <2>3. CASE runs[r].inst # i
    <3>1. /\ \A e \in Clients : Ending(e) /\ clients[e].inst = runs[r].inst
               => Ending(e)' /\ clients'[e].inst = runs[r].inst
          /\ insts'[runs[r].inst] = insts[runs[r].inst]
          /\ Owner(runs[r].inst)' = Owner(runs[r].inst)
      <4>1. ASSUME NEW e \in Clients, Ending(e), clients[e].inst = runs[r].inst
            PROVE  Ending(e)' /\ clients'[e].inst = runs[r].inst
        <5>1. e # c
          BY <1>0, <2>3, <4>1
        <5> QED BY <1>2, <4>1, <5>1
      <4> QED BY <1>1, <1>2, <2>1, <2>3, <4>1
    <3> QED BY <1>1, <1>2, <2>1, <2>3, <3>1 DEF RunOK
  <2> QED BY <2>2, <2>3
<1>6. InstInv'
  <2>1. \A u \in Traders : traders[u] # 0 => traders[u] \in DOMAIN insts /\ Owner(traders[u])' = u
    <3>1. \A u \in Traders : traders[u] # 0 => traders[u] \in DOMAIN insts /\ Owner(traders[u]) = u
      BY DEF Inv, TypeOK, InstInv
    <3> QED BY <1>1, <1>2, <3>1
  <2>2. ASSUME NEW j \in DOMAIN insts, insts'[j].running \/ insts'[j].owns
        PROVE  traders[Owner(j)'] = j /\ HasRun(j)'
    BY <1>2, <1>4, <2>2 DEF Inv, InstInv
  <2>3. \A p \in closed : /\ p[1] \in DOMAIN insts /\ ~insts'[p[1]].running /\ HasRun(p[1])'
                          /\ \A r \in DOMAIN runs : runs[r].inst = p[1] => runs[r].pc # "start"
    BY <1>2, <1>4 DEF Inv, InstInv
  <2> QED BY <1>1, <1>2, <2>1, <2>2, <2>3 DEF InstInv
<1>7. ASSUME NEW u \in Traders, u # t
      PROVE  /\ Alive(u)' <=> Alive(u)
             /\ Consistent(u)' <=> Consistent(u)
             /\ traders[u] # 0 => traders[u] # i /\ insts'[traders[u]] = insts[traders[u]]
  <2>1. traders[u] # 0 => traders[u] # i /\ insts'[traders[u]] = insts[traders[u]]
    BY <1>2, <1>7 DEF Inv, TypeOK, InstInv
  <2> QED BY <1>1, <2>1 DEF Alive, Starting, Consistent
<1>8. TraderInv'
  BY <1>0, <1>1, <1>2, <1>7 DEF Inv, TraderInv
<1>9. ClientInv'
  <2>1. ASSUME NEW d \in Clients, Busy(d)'
        PROVE  ClientOK(d)'
    <3>1. CASE d # c
      <4>1. Busy(d) /\ ClientOK(d) /\ clients'[d] = clients[d] /\ clients[d].trader \in Traders
        BY <1>2, <2>1, <3>1 DEF Inv, ClientInv, TypeOK, Client
      <4>2. clients[d].trader # t
        BY <1>0, <1>2, <3>1, <4>1 DEF Inv, ClientInv
      <4>3. PICK u \in Traders : u = clients[d].trader
        BY <4>1
      <4>4. /\ Alive(u)' <=> Alive(u)
            /\ Consistent(u)' <=> Consistent(u)
            /\ Quiet(u)' <=> Quiet(u)
            /\ Unstarted(u)' <=> Unstarted(u)
            /\ traders[u] # 0 => insts'[traders[u]] = insts[traders[u]]
        BY <1>2, <1>7, <4>2, <4>3
      <4>5. (\A r \in DOMAIN runs : runs[r].inst = clients[d].inst => Over(r))
              => (\A r \in DOMAIN runs' : runs'[r].inst = clients[d].inst => Over(r)')
        BY <1>1, <1>2
      <4>6. clients[d].pc \in {"status", "unmap"} \cup Stopping => insts'[clients[d].inst] = insts[clients[d].inst]
        BY <4>1, <4>3, <4>4 DEF ClientOK, Stopping
      <4>7. \A j : HasRun(j)' <=> HasRun(j)
        BY <1>2
      <4> QED BY <1>1, <4>1, <4>3, <4>4, <4>5, <4>6, <4>7 DEF ClientOK, Stopping
    <3> QED BY <3>1
  <2>2. \A d, e \in Clients : Busy(d)' /\ Busy(e)' /\ clients'[d].trader = clients'[e].trader => d = e
    BY <1>2 DEF Inv, ClientInv
  <2>3. \A d \in Clients : clients'[d].op = "query" => clients'[d].pc \in {"idle", "lookup", "load"}
    BY <1>2 DEF Inv, ClientInv, Stops
  <2> QED BY <2>1, <2>2, <2>3 DEF ClientInv
<1> QED BY <1>3, <1>5, <1>6, <1>8, <1>9 DEF Inv

\* Stop clears isRunning, or finds it cleared.
LEMMA StopBeginInv ==
  ASSUME Inv, NEW c \in Clients, StopBegin(c)
  PROVE  Inv'
<1> DEFINE i == clients[c].inst
           t == clients[c].trader
           op == clients[c].op
<1>1. /\ clients[c] \in Client /\ clients[c].pc = "stop" /\ op # "query" /\ t \in Traders
      /\ Busy(c) /\ ~Ending(c) /\ ClientOK(c) /\ i = traders[t] /\ i # 0 /\ Quiet(t)
      /\ i \in 0..Len(insts)
  BY OfClient DEF StopBegin, Busy, Ending, ClientOK, Stopping
<1>2. /\ op \in {"start", "stop", "delete", "reload"}
      /\ op = "delete" => db[t] = "deleted"
      /\ op = "start" => db[t] # "running"
  BY <1>1 DEF ClientOK, Stopping, Client, AllOps
<1>3. i \in DOMAIN insts /\ Owner(i) = t
  BY <1>1 DEF Inv, TypeOK, InstInv
<1>4. insts[i] \in Instance
  BY <1>3, OfObject
<1>5. mu = c => op # "stop"
  BY HoldsLock
<1>6. CASE insts[i].running
  <2> DEFINE st == [clients[c] EXCEPT !.pc = "close"]
             x  == [insts[i] EXCEPT !.running = FALSE]
  <2>1. /\ st \in Client /\ st.trader = t /\ st.op = op /\ st.inst = i /\ st.pc = "close"
        /\ x \in Instance /\ x.trader = insts[i].trader /\ x.channel = insts[i].channel
        /\ x.owns = insts[i].owns /\ ~x.running
    BY <1>1, <1>4 DEF Client, Stopping, Instance
  <2>2. /\ clients' = [clients EXCEPT ![c] = st] /\ insts' = [insts EXCEPT ![i] = x]
        /\ UNCHANGED <<db, traders, mu, closed, runs, owners, asked>>
    BY <1>6 DEF StopBegin, Go
  <2>3. Stops(c, st, x)
    BY <1>1, <2>1, <2>2 DEF Stops, Stopping, Inv, TypeOK
  <2>4. /\ DOMAIN insts' = DOMAIN insts /\ insts'[i] = x /\ clients'[c] = st
        /\ \A j \in DOMAIN insts : /\ j # i => insts'[j] = insts[j]
                                   /\ Owner(j)' = Owner(j) /\ Account(j)' = Account(j)
        /\ \A j : HasRun(j)' <=> HasRun(j)
        /\ \A u \in Traders : Quiet(u)' <=> Quiet(u)
    <3> HIDE DEF st, x
    <3> QED BY <1>1, <2>3, StopsFrame
  <2>5. OwnerInv'
    <3>1. \A j \in DOMAIN insts : insts'[j].owns = insts[j].owns
      BY <2>1, <2>4
    <3> QED BY <2>2, <2>4, <3>1 DEF Inv, OwnerInv
  <2>6. HasRun(i) /\ \A p \in closed : p[1] # i
    BY <1>3, <1>6 DEF Inv, InstInv
  <2>7. ClientOK(c)'
    BY <1>1, <1>2, <2>1, <2>2, <2>4, <2>6 DEF ClientOK, Stopping
  <2> QED BY <2>3, <2>5, <2>7, StopsInv
<1>7. CASE ~insts[i].running
  <2> DEFINE st == [clients[c] EXCEPT !.pc = AfterStop(c)]
  <2>1. st \in Client /\ st.trader = t /\ st.op = op /\ st.inst = i /\ st.pc = AfterStop(c)
    BY <1>1, AfterStopOK DEF Client
  <2>2. clients' = [clients EXCEPT ![c] = st]
    BY <1>7 DEF StopBegin, Go
  <2>3. Goes(c, st)
    BY <1>1, <1>7, <2>1, <2>2 DEF Goes, StopBegin
  <2>4. ~insts[i].owns /\ ~Alive(t)
    BY <1>1, <1>3, <1>7, AtRest
  <2>5. ClientOK(c)'
    <3> HIDE DEF st
    <3>1. /\ clients'[c] = st /\ UNCHANGED <<db, traders, insts>>
          /\ \A u \in Traders : Quiet(u)' <=> Quiet(u)
          /\ \A u \in Traders : Alive(u)' <=> Alive(u)
      BY <1>1, <2>3, GoesFrame
    <3>2. mu' = mu
      BY DEF StopBegin
    <3> QED BY <1>1, <1>2, <1>7, <2>1, <2>4, <3>1, <3>2, AfterStopOK DEF ClientOK, Stopping
  <2>6. mu' = c => st.op \notin {"stop", "query"} /\ st.pc \in Stopping \cup {"unmap"}
    BY <1>1, <2>1, AfterStopOK DEF StopBegin
  <2>7. st.pc # "idle"
    BY <1>1, <2>1, AfterStopOK
  <2> QED BY <2>3, <2>5, <2>6, <2>7, GoesInv
<1> QED BY <1>6, <1>7

\* Stop gives the account back: its object owned it, or owned nothing.
LEMMA StopReleaseInv ==
  ASSUME Inv, NEW c \in Clients, StopRelease(c)
  PROVE  Inv'
<1> DEFINE i == clients[c].inst
           t == clients[c].trader
           op == clients[c].op
           st == [clients[c] EXCEPT !.pc = AfterStop(c)]
           x  == [insts[i] EXCEPT !.owns = FALSE]
<1>1. /\ clients[c] \in Client /\ clients[c].pc = "release" /\ op # "query" /\ t \in Traders
      /\ Busy(c) /\ ClientOK(c) /\ i = traders[t] /\ i # 0 /\ Quiet(t)
      /\ i \in 0..Len(insts) /\ ~insts[i].running
      /\ \A r \in DOMAIN runs : runs[r].inst = i => Over(r)
  BY OfClient DEF StopRelease, Busy, ClientOK, Stopping
<1>2. /\ op \in {"start", "stop", "delete", "reload"}
      /\ op = "delete" => db[t] = "deleted"
      /\ op = "start" => db[t] # "running"
  BY <1>1 DEF ClientOK, Stopping, Client, AllOps
<1>3. i \in DOMAIN insts /\ Owner(i) = t
  BY <1>1 DEF Inv, TypeOK, InstInv
<1>4. insts[i] \in Instance /\ Account(i) \in Accounts /\ Account(i) = AccountOf[t]
  BY <1>3, OfObject
<1>5. /\ st \in Client /\ st.trader = t /\ st.op = op /\ st.inst = i /\ st.pc = AfterStop(c)
      /\ x \in Instance /\ x.trader = insts[i].trader /\ x.channel = insts[i].channel
      /\ ~x.owns /\ ~x.running
  BY <1>1, <1>4, AfterStopOK DEF Client, Instance
<1>6. owners \in [Accounts -> Traders \cup {None}]
  BY DEF Inv, TypeOK
<1>7. /\ clients' = [clients EXCEPT ![c] = st] /\ insts' = [insts EXCEPT ![i] = x]
      /\ UNCHANGED <<db, traders, mu, closed, runs, asked>>
      /\ owners' = IF insts[i].owns THEN [owners EXCEPT ![Account(i)] = None] ELSE owners
  <2>1. CASE insts[i].owns
    <3>1. owners[Account(i)] = insts[i].trader
      BY <1>3, <2>1 DEF Inv, OwnerInv, Owner
    <3> QED BY <2>1, <3>1 DEF StopRelease, Go, Released
  <2>2. CASE ~insts[i].owns
    <3>1. insts[i].owns = FALSE
      BY <1>4, <2>2 DEF Instance
    <3>2. x = insts[i]
      BY <1>4, <3>1 DEF Instance
    <3>3. insts = [insts EXCEPT ![i] = x]
      BY <1>3, <3>2 DEF Inv, TypeOK
    <3> QED BY <2>2, <3>3 DEF StopRelease, Go
  <2> QED BY <2>1, <2>2
<1>8. Stops(c, st, x)
  <2>1. owners' \in [Accounts -> Traders \cup {None}]
    BY <1>6, <1>7
  <2> QED BY <1>1, <1>5, <1>7, <2>1, AfterStopOK DEF Stops
<1>9. /\ DOMAIN insts' = DOMAIN insts /\ insts'[i] = x /\ clients'[c] = st
      /\ \A j \in DOMAIN insts : /\ j # i => insts'[j] = insts[j]
                                 /\ Owner(j)' = Owner(j) /\ Account(j)' = Account(j)
      /\ \A u \in Traders : Quiet(u)' <=> Quiet(u)
  <2> HIDE DEF st, x
  <2> QED BY <1>1, <1>8, StopsFrame
<1>10. OwnerInv'
  <2>1. CASE ~insts[i].owns
    <3>1. owners' = owners /\ \A j \in DOMAIN insts : insts'[j].owns <=> insts[j].owns
      BY <1>5, <1>7, <1>9, <2>1
    <3> QED BY <1>9, <3>1 DEF Inv, OwnerInv
  <2>2. CASE insts[i].owns
    <3>1. owners' = [owners EXCEPT ![Account(i)] = None]
      BY <1>7, <2>2
    <3>2. ASSUME NEW j \in DOMAIN insts, insts'[j].owns
          PROVE  owners'[Account(j)] = Owner(j)
      <4>1. j # i /\ insts[j].owns
        BY <1>5, <1>9, <3>2
      <4>2. owners[Account(j)] = Owner(j) /\ traders[Owner(j)] = j
        BY <4>1 DEF Inv, OwnerInv, InstInv
      <4>3. owners[Account(i)] = t /\ traders[t] = i
        BY <1>1, <1>3, <2>2 DEF Inv, OwnerInv
      <4>4. Account(j) # Account(i)
        BY <4>1, <4>2, <4>3
      <4> QED BY <1>4, <1>6, <3>1, <4>2, <4>4
    <3>3. ASSUME NEW a \in Accounts, owners'[a] # None
          PROVE  \E j \in DOMAIN insts : insts'[j].owns /\ Owner(j) = owners'[a] /\ Account(j) = a
      <4>1. a # Account(i) /\ owners'[a] = owners[a]
        BY <1>4, <1>6, <3>1, <3>3
      <4>2. PICK j \in DOMAIN insts : insts[j].owns /\ Owner(j) = owners[a] /\ Account(j) = a
        BY <3>3, <4>1 DEF Inv, OwnerInv
      <4> QED BY <1>9, <4>1, <4>2
    <3> QED BY <1>9, <3>2, <3>3 DEF OwnerInv
  <2> QED BY <2>1, <2>2
<1>11. \A u \in Traders : u = t => ~Alive(u)'
  BY <1>1, <1>3, <1>5, <1>7, <1>9 DEF Alive, Starting, Quiet, StartUp
<1>12. mu # c => st.pc \in {"save", "remove"}
  BY <1>1, <1>5, AfterStopOK
<1>13. ClientOK(c)'
  <2> HIDE DEF st, x
  <2> QED BY <1>1, <1>2, <1>5, <1>7, <1>9, <1>11, AfterStopOK DEF ClientOK, Stopping
<1> QED BY <1>8, <1>10, <1>13, StopsInv

\* Stop closes a channel that was not closed.
LEMMA StopCloseInv ==
  ASSUME Inv, NEW c \in Clients, StopClose(c)
  PROVE  Inv'
<1> DEFINE i == clients[c].inst
           t == clients[c].trader
           op == clients[c].op
           st == [clients[c] EXCEPT !.pc = "wait"]
<1>1. /\ clients[c] \in Client /\ clients[c].pc = "close" /\ op # "query" /\ t \in Traders
      /\ Busy(c) /\ Ending(c) /\ ClientOK(c) /\ i = traders[t] /\ i # 0 /\ Quiet(t)
      /\ i \in 0..Len(insts) /\ ~insts[i].running /\ HasRun(i) /\ \A p \in closed : p[1] # i
  BY OfClient DEF StopClose, Busy, Ending, ClientOK, Stopping
<1>2. /\ op \in {"start", "stop", "delete", "reload"}
      /\ op = "delete" => db[t] = "deleted"
      /\ op = "start" => db[t] # "running"
  BY <1>1 DEF ClientOK, Stopping, Client, AllOps
<1>3. i \in DOMAIN insts /\ Owner(i) = t /\ insts[i].channel \in 0..MaxRuns
  <2>1. i \in DOMAIN insts /\ Owner(i) = t
    BY <1>1 DEF Inv, TypeOK, InstInv
  <2> QED BY <2>1, OfObject DEF Instance
<1>4. /\ closed' = closed \cup {<<i, insts[i].channel>>} /\ clients' = [clients EXCEPT ![c] = st]
      /\ UNCHANGED <<db, traders, mu, insts, runs, owners, asked>>
  BY <1>1 DEF StopClose, StopChannel, Go
<1>5. st \in Client /\ st.trader = t /\ st.op = op /\ st.inst = i /\ st.pc = "wait"
  BY <1>1 DEF Client, Stopping
<1>6. clients'[c] = st
  BY <1>4 DEF Inv, TypeOK
<1>7. Busy(c)' /\ Ending(c)'
  BY <1>1, <1>5, <1>6 DEF Busy, Ending
<1>8. ClientOK(c)'
  <2>1. (\A u \in Traders : Quiet(u)' <=> Quiet(u)) /\ (\A j : HasRun(j)' <=> HasRun(j))
    BY <1>4 DEF Quiet, HasRun, Owner
  <2> HIDE DEF st
  <2> QED BY <1>1, <1>2, <1>4, <1>5, <1>6, <2>1 DEF ClientOK, Stopping
<1>9. mu' = c => LockInv'
  BY <1>4, <1>5, <1>6, <1>7 DEF Inv, LockInv, Stopping
<1>10. Steps(c, st)
  BY <1>1, <1>3, <1>4, <1>5, <1>7, <1>8, <1>9 DEF Steps, Inv, TypeOK
<1> QED BY <1>10, StepsInv

\* UpdateStatus records what the handler did.
LEMMA SaveInv ==
  ASSUME Inv, NEW c \in Clients, Save(c)
  PROVE  Inv'
<1> DEFINE t  == clients[c].trader
           op == clients[c].op
           st == [clients[c] EXCEPT !.pc = "idle"]
<1>1. /\ clients[c] \in Client /\ clients[c].pc = "save" /\ op # "query" /\ t \in Traders
      /\ Busy(c) /\ ~Ending(c) /\ op \in {"start", "stop"} /\ (op = "start" <=> Alive(t))
  BY OfClient DEF Save, Busy, Ending, ClientOK
<1>2. st \in Client /\ st.trader = t /\ st.op = op /\ st.pc = "idle"
  BY <1>1 DEF Client
<1>3. /\ clients' = [clients EXCEPT ![c] = st]
      /\ UNCHANGED <<traders, mu, insts, closed, runs, owners, asked>>
  BY DEF Save, Go
<1>4. clients'[c] = st /\ ~Busy(c)'
  BY <1>2, <1>3 DEF Inv, TypeOK, Busy
<1>5. db \in [Traders -> {"deleted", "running", "stopped"}]
  BY DEF Inv, TypeOK
<1>6. db' = [db EXCEPT ![t] = IF db[t] = "deleted" THEN "deleted"
                              ELSE IF op = "start" THEN "running" ELSE "stopped"]
  BY <1>5 DEF Save
<1>7. /\ db' \in [Traders -> {"deleted", "running", "stopped"}]
      /\ \A u \in Traders : u # t => db'[u] = db[u]
      /\ db'[t] = IF db[t] = "deleted" THEN "deleted" ELSE IF op = "start" THEN "running" ELSE "stopped"
  BY <1>1, <1>5, <1>6
<1>8. \A u \in Traders : Alive(u)' <=> Alive(u)
  BY <1>3 DEF Alive, Starting
<1>9. \A u \in Traders : u = t => Consistent(u)'
  BY <1>1, <1>7, <1>8 DEF Consistent
<1>10. mu' # c
  BY <1>1, <1>3, HoldsLock DEF Stopping
<1>11. Steps(c, st)
  BY <1>1, <1>2, <1>3, <1>4, <1>7, <1>9, <1>10 DEF Steps, Inv, TypeOK
<1> QED BY <1>11, StepsInv

\* A request arrives of a careful user.
LEMMA AskInv ==
  ASSUME Inv, CarefulUse, NEW c \in Clients, NEW op \in Ops, NEW t \in Traders, Ask(c, op, t)
  PROVE  Inv'
<1> DEFINE pc == IF op = "reload" THEN "remove" ELSE "lookup"
           st == [pc |-> pc, op |-> op, trader |-> t, inst |-> 0, was |-> FALSE]
<1>1. /\ clients[c] \in Client /\ clients[c].pc = "idle" /\ ~Busy(c) /\ ~Ending(c)
      /\ op \in AllOps \ {"update"} /\ asked < MaxRequests
  BY OfClient, LifecycleAssumption DEF Ask, Busy, Ending, CarefulUse
<1>2. st \in Client /\ st.trader = t /\ st.op = op /\ st.pc = pc
  BY <1>1, LifecycleAssumption DEF Client, Instances
<1>3. /\ clients' = [clients EXCEPT ![c] = st]
      /\ UNCHANGED <<traders, mu, insts, closed, runs, owners>>
      /\ asked' = asked + 1
      /\ db' = IF op = "delete" THEN [db EXCEPT ![t] = "deleted"] ELSE db
  BY DEF Ask
<1>4. clients'[c] = st /\ (Busy(c)' <=> op # "query")
  BY <1>2, <1>3 DEF Inv, TypeOK, Busy
<1>5. db \in [Traders -> {"deleted", "running", "stopped"}]
  BY DEF Inv, TypeOK
<1>6. /\ db' \in [Traders -> {"deleted", "running", "stopped"}]
      /\ \A u \in Traders : u # t => db'[u] = db[u]
      /\ op = "delete" => db'[t] = "deleted"
      /\ op # "delete" => db' = db
  BY <1>3, <1>5
<1>7. op # "query" => Quiet(t) /\ \A d \in Clients : Busy(d) => clients[d].trader # t
  BY DEF Ask, MayAsk, CarefulUse, Quiet, Busy, Owner
<1>8. op # "query" => Consistent(t)
  BY <1>7 DEF Inv, TraderInv
<1>9. (Alive(t)' <=> Alive(t)) /\ (Quiet(t)' <=> Quiet(t))
  BY <1>3 DEF Alive, Starting, Quiet, Owner
<1>10. op # "query" => Consistent(t)'
  BY <1>6, <1>8, <1>9 DEF Consistent
<1>11. op = "reload" => (db'[t] = "running" => traders'[t] # 0)
  BY <1>3, <1>9, <1>10 DEF Consistent, Alive
<1>12. Busy(c)' => ClientOK(c)'
  BY <1>1, <1>2, <1>4, <1>6, <1>7, <1>9, <1>10, <1>11 DEF ClientOK, Stopping, AllOps
<1>13. mu' # c
  BY <1>1, <1>3, HoldsLock DEF Stopping
<1>14. asked' \in 0..MaxRequests
  BY <1>1, <1>3, LifecycleAssumption DEF Inv, TypeOK
<1>15. Steps(c, st)
  BY <1>1, <1>2, <1>3, <1>4, <1>6, <1>7, <1>12, <1>13, <1>14 DEF Steps, Inv, TypeOK
<1> QED BY <1>15, StepsInv

-----------------------------------------------------------------------------
(* The map changes *)

\* A trader taken out of the map does not run, and its object owns nothing.
LEMMA UnmapInv ==
  ASSUME Inv, NEW c \in Clients, Unmap(c)
  PROVE  Inv'
<1>0. PICK t, i, op : t = clients[c].trader /\ i = traders[t] /\ op = clients[c].op
  OBVIOUS
<1> DEFINE st == [clients[c] EXCEPT !.pc = IF op = "delete" THEN "idle" ELSE "load"]
<1>1. /\ clients[c] \in Client /\ clients[c].pc = "unmap" /\ op \notin {"query", "stop", "update"}
      /\ t \in Traders /\ Busy(c) /\ ~Ending(c) /\ Quiet(t) /\ i # 0 /\ i \in 0..Len(insts) /\ mu = c
      /\ ~insts[i].running /\ ~insts[i].owns
      /\ op = "delete" => db[t] = "deleted"
      /\ op = "start" => db[t] # "running"
  BY <1>0, OfClient, HoldsLock DEF Unmap, Busy, Ending, ClientOK
<1>2. op \in {"start", "delete", "reload"}
  BY <1>0, <1>1 DEF Client, AllOps
<1>3. st \in Client /\ st.trader = t /\ st.op = op /\ st.pc = IF op = "delete" THEN "idle" ELSE "load"
  BY <1>0, <1>1 DEF Client
<1>4. /\ traders' = [traders EXCEPT ![t] = 0] /\ clients' = [clients EXCEPT ![c] = st] /\ mu' = None
      /\ UNCHANGED <<db, insts, closed, runs, owners, asked>>
  BY <1>0 DEF Unmap, Go, AfterRemove, Unlocked
<1> HIDE DEF st
<1>5. /\ traders' \in [Traders -> 0..Len(insts)] /\ traders'[t] = 0
      /\ \A u \in Traders : u # t => traders'[u] = traders[u]
  BY <1>1, <1>4 DEF Inv, TypeOK
<1>6. /\ clients' \in [Clients -> Client] /\ clients'[c] = st
      /\ \A d \in Clients : d # c => clients'[d] = clients[d]
  BY <1>3, <1>4 DEF Inv, TypeOK
<1>7. \A d \in Clients : /\ d # c => (Busy(d)' <=> Busy(d)) /\ (Ending(d)' <=> Ending(d))
                         /\ Ending(d) => Ending(d)' /\ clients'[d].inst = clients[d].inst
  BY <1>1, <1>6 DEF Busy, Ending
<1>8. \A u \in Traders : u # t => /\ Alive(u)' <=> Alive(u)
                                  /\ Consistent(u)' <=> Consistent(u)
                                  /\ Unstarted(u)' <=> Unstarted(u)
  BY <1>4, <1>5 DEF Alive, Starting, Consistent, Unstarted, HasRun
<1>9. /\ \A u \in Traders : Quiet(u)' <=> Quiet(u)
      /\ \A r \in DOMAIN runs : (Monitoring(r)' <=> Monitoring(r)) /\ (Over(r)' <=> Over(r))
      /\ \A j : (HasRun(j)' <=> HasRun(j)) /\ Owner(j)' = Owner(j)
  BY <1>4 DEF Quiet, Monitoring, Over, HasRun, Owner
<1>10. LockInv'
  BY <1>4 DEF LockInv
<1>11. TypeOK'
  BY <1>4, <1>5, <1>6 DEF Inv, TypeOK
<1>12. RunInv'
  <2> SUFFICES ASSUME NEW r \in DOMAIN runs PROVE RunOK(r)'
    BY <1>4 DEF RunInv
  <2>1. RunOK(r) /\ Owner(runs[r].inst) \in Traders
    BY OfRun DEF Owner, Inst
  <2>2. runs[r].pc = "start" => traders'[Owner(runs[r].inst)] = traders[Owner(runs[r].inst)]
    BY <1>1, <1>5, <2>1 DEF Quiet, StartUp
  <2> QED BY <1>4, <1>7, <1>9, <2>1, <2>2 DEF RunOK
<1>13. InstInv'
  <2>1. ASSUME NEW j \in DOMAIN insts, insts[j].running \/ insts[j].owns
        PROVE  traders'[Owner(j)] = j /\ HasRun(j)
    <3>1. traders[Owner(j)] = j /\ HasRun(j) /\ Owner(j) \in Traders
      BY <2>1, OfObject DEF Inv, InstInv
    <3>2. Owner(j) # t
      BY <1>0, <1>1, <2>1, <3>1
    <3> QED BY <1>5, <3>1, <3>2
  <2>2. \A u \in Traders : traders'[u] # 0 => Owner(traders'[u]) = u
    BY <1>5 DEF Inv, InstInv
  <2>3. \A p \in closed : /\ p[1] \in DOMAIN insts /\ ~insts[p[1]].running /\ HasRun(p[1])
                          /\ \A r \in DOMAIN runs : runs[r].inst = p[1] => runs[r].pc # "start"
    BY DEF Inv, InstInv
  <2> QED BY <1>4, <1>9, <2>1, <2>2, <2>3 DEF InstInv
<1>14. OwnerInv'
  BY <1>4 DEF Inv, OwnerInv, Owner, Account
<1>15. TraderInv'
  <2> SUFFICES ASSUME NEW u \in Traders, \A d \in Clients : Busy(d)' => clients'[d].trader # u
               PROVE  Consistent(u)'
    BY DEF TraderInv
  <2>1. CASE u = t
    <3>1. op = "delete"
      BY <1>2, <1>3, <1>6, <2>1 DEF Busy
    <3> QED BY <1>1, <1>4, <2>1, <3>1 DEF Consistent
  <2>2. CASE u # t
    <3>1. \A d \in Clients : Busy(d) => clients[d].trader # u
      BY <1>0, <1>6, <1>7, <2>2
    <3> QED BY <1>8, <2>2, <3>1 DEF Inv, TraderInv
  <2> QED BY <2>1, <2>2
<1>16. ClientInv'
  <2>1. ASSUME NEW d \in Clients, Busy(d)'
        PROVE  ClientOK(d)'
    <3>1. CASE d = c
      <4>1. st.pc = "load" /\ op \in {"start", "reload"}
        BY <1>2, <1>3, <1>6, <2>1, <3>1 DEF Busy
      <4> QED BY <1>1, <1>3, <1>4, <1>5, <1>6, <3>1, <4>1 DEF ClientOK, Unstarted, Stopping
    <3>2. CASE d # c
      <4>1. Busy(d) /\ ClientOK(d) /\ clients'[d] = clients[d] /\ clients[d].trader \in Traders
        BY <1>6, <1>7, <2>1, <3>2 DEF Inv, ClientInv, TypeOK, Client
      <4>2. PICK u \in Traders : u = clients[d].trader
        BY <4>1
      <4>3. u # t
        BY <1>0, <1>1, <3>2, <4>1, <4>2 DEF Inv, ClientInv
      <4>4. clients[d].pc # "unmap"
        BY <1>0, <1>1, <3>2, <4>1 DEF ClientOK
      <4>5. traders'[u] = traders[u] /\ (Alive(u)' <=> Alive(u)) /\ (Consistent(u)' <=> Consistent(u))
            /\ (Unstarted(u)' <=> Unstarted(u)) /\ (Quiet(u)' <=> Quiet(u))
        BY <1>5, <1>8, <1>9, <4>3
      <4>6. (\A r \in DOMAIN runs : runs[r].inst = clients[d].inst => Over(r))
              => (\A r \in DOMAIN runs' : runs'[r].inst = clients[d].inst => Over(r)')
        BY <1>4, <1>9
      <4>7. HasRun(clients[d].inst)' <=> HasRun(clients[d].inst)
        BY <1>9, <4>1
      <4> QED BY <1>4, <4>1, <4>2, <4>4, <4>5, <4>6, <4>7 DEF ClientOK, Stopping
    <3> QED BY <3>1, <3>2
  <2>2. \A d, e \in Clients : Busy(d)' /\ Busy(e)' /\ clients'[d].trader = clients'[e].trader => d = e
    <3>1. \A d \in Clients : (Busy(d)' => Busy(d)) /\ clients'[d].trader = clients[d].trader
      BY <1>0, <1>1, <1>3, <1>6, <1>7
    <3> QED BY <3>1 DEF Inv, ClientInv
  <2>3. \A d \in Clients : clients'[d].op = "query" => clients'[d].pc \in {"idle", "lookup", "load"}
    BY <1>1, <1>3, <1>6 DEF Inv, ClientInv
  <2> QED BY <2>1, <2>2, <2>3 DEF ClientInv
<1> QED BY <1>10, <1>11, <1>12, <1>13, <1>14, <1>15, <1>16 DEF Inv

\* The handler of c moves to state st, with new objects for traders that had none
\* and new goroutines: for those of the new objects that the table says run, and
\* for the trader w (None: for no other).
Grows(c, st, w) ==
  /\ clients[c].pc \in {"load", "fetch"}
  /\ st \in Client /\ clients' = [clients EXCEPT ![c] = st]
  /\ st.trader = clients[c].trader /\ st.op = clients[c].op
  /\ st.op = "query" => st.pc = "idle"
  /\ w # None => Busy(c) /\ w = clients[c].trader
  /\ insts' \in Seq(Instance) /\ Len(insts) <= Len(insts') /\ Len(insts') <= MaxInstances
  /\ \A j \in DOMAIN insts : insts'[j] = insts[j]
  /\ \A j \in DOMAIN insts' \ DOMAIN insts : ~insts'[j].running /\ ~insts'[j].owns
  /\ traders' \in [Traders -> 0..Len(insts')]
  /\ \A t \in Traders : traders'[t] # traders[t] =>
       /\ traders[t] = 0 /\ traders'[t] \in DOMAIN insts' \ DOMAIN insts /\ insts'[traders'[t]].trader = t
       /\ db[t] = "running" => \E r \in DOMAIN runs' : runs'[r].inst = traders'[t] /\ runs'[r].pc = "start"
  /\ runs' \in Seq(Run) /\ Len(runs) <= Len(runs') /\ Len(runs') <= MaxRuns
  /\ \A r \in DOMAIN runs : runs'[r] = runs[r]
  /\ \A r \in DOMAIN runs' \ DOMAIN runs :
       /\ runs'[r].pc = "start" /\ \A m \in Monitors : runs'[r].monitor[m] = "off"
       /\ runs'[r].inst \in DOMAIN insts' /\ ~HasRun(runs'[r].inst)
       /\ \A q \in DOMAIN runs' \ DOMAIN runs : runs'[q].inst = runs'[r].inst => q = r
       /\ traders'[insts'[runs'[r].inst].trader] = runs'[r].inst
       /\ \/ insts'[runs'[r].inst].trader = w
          \/ traders[insts'[runs'[r].inst].trader] = 0 /\ db[insts'[runs'[r].inst].trader] = "running"
  /\ UNCHANGED <<db, mu, closed, owners, asked>>

\* The old objects, goroutines and entries of the map stay.
LEMMA GrowsFrame ==
  ASSUME Inv, NEW c \in Clients, NEW st, NEW w, Grows(c, st, w)
  PROVE  /\ DOMAIN insts \subseteq DOMAIN insts' /\ DOMAIN runs \subseteq DOMAIN runs'
         /\ DOMAIN insts = 1..Len(insts) /\ DOMAIN insts' = 1..Len(insts')
         /\ clients' \in [Clients -> Client] /\ clients'[c] = st
         /\ \A d \in Clients : /\ d # c => /\ clients'[d] = clients[d]
                                           /\ Busy(d)' <=> Busy(d)
                                           /\ Ending(d)' <=> Ending(d)
                               /\ clients'[d].trader = clients[d].trader
                               /\ Busy(d)' => Busy(d)
                               /\ Ending(d) => Ending(d)' /\ clients'[d].inst = clients[d].inst
         /\ \A j \in DOMAIN insts : Owner(j)' = Owner(j) /\ Account(j)' = Account(j)
         /\ \A j : HasRun(j) => HasRun(j)'
         /\ \A r \in DOMAIN runs : (Monitoring(r)' <=> Monitoring(r)) /\ (Over(r)' <=> Over(r))
         /\ \A r \in DOMAIN runs' \ DOMAIN runs : ~Monitoring(r)'
         /\ \A u \in Traders : traders[u] # 0 => /\ traders'[u] = traders[u] /\ traders[u] \in DOMAIN insts
                                                 /\ Owner(traders[u]) = u
<1>1. /\ DOMAIN insts \subseteq DOMAIN insts' /\ DOMAIN runs \subseteq DOMAIN runs'
      /\ DOMAIN insts = 1..Len(insts) /\ DOMAIN insts' = 1..Len(insts')
  <2>1. insts \in Seq(Instance) /\ runs \in Seq(Run)
    BY DEF Inv, TypeOK
  <2>2. /\ insts' \in Seq(Instance) /\ Len(insts) <= Len(insts')
        /\ runs' \in Seq(Run) /\ Len(runs) <= Len(runs')
    BY DEF Grows
  <2> QED BY <2>1, <2>2
<1>2. clients' \in [Clients -> Client] /\ clients'[c] = st /\ \A d \in Clients : d # c => clients'[d] = clients[d]
  BY DEF Inv, TypeOK, Grows
<1>3. \A d \in Clients : /\ d # c => (Busy(d)' <=> Busy(d)) /\ (Ending(d)' <=> Ending(d))
                         /\ clients'[d].trader = clients[d].trader
                         /\ Busy(d)' => Busy(d)
                         /\ Ending(d) => Ending(d)' /\ clients'[d].inst = clients[d].inst
  BY <1>2 DEF Busy, Ending, Grows
<1>4. \A j \in DOMAIN insts : Owner(j)' = Owner(j) /\ Account(j)' = Account(j)
  BY DEF Grows, Owner, Account
<1>5. /\ \A j : HasRun(j) => HasRun(j)'
      /\ \A r \in DOMAIN runs : (Monitoring(r)' <=> Monitoring(r)) /\ (Over(r)' <=> Over(r))
  BY <1>1 DEF Grows, HasRun, Monitoring, Over
<1>6. \A r \in DOMAIN runs' \ DOMAIN runs : ~Monitoring(r)'
  BY DEF Grows, Monitoring
<1>7. \A u \in Traders : traders[u] # 0 => /\ traders'[u] = traders[u] /\ traders[u] \in DOMAIN insts
                                           /\ Owner(traders[u]) = u
  BY DEF Grows, Inv, TypeOK, InstInv
<1> QED BY <1>1, <1>2, <1>3, <1>4, <1>5, <1>6, <1>7

\* Every trader but w is as it was, or has been loaded and runs if the table says so.
LEMMA GrowsTraders ==
  ASSUME Inv, NEW c \in Clients, NEW st, NEW w, Grows(c, st, w), NEW u \in Traders, u # w
  PROVE  /\ traders'[u] = traders[u] => (Alive(u)' <=> Alive(u)) /\ (Consistent(u)' <=> Consistent(u))
         /\ traders'[u] # traders[u] => traders[u] = 0 /\ traders'[u] # 0 /\ Consistent(u)'
         /\ Unstarted(u) => Unstarted(u)'
         /\ Quiet(u) /\ (db[u] = "running" => traders[u] # 0) => Quiet(u)'
<1>0. /\ DOMAIN insts \subseteq DOMAIN insts' /\ DOMAIN runs \subseteq DOMAIN runs'
      /\ DOMAIN insts = 1..Len(insts) /\ DOMAIN insts' = 1..Len(insts')
      /\ \A j \in DOMAIN insts : Owner(j)' = Owner(j)
      /\ \A v \in Traders : traders[v] # 0 => /\ traders'[v] = traders[v] /\ traders[v] \in DOMAIN insts
                                              /\ Owner(traders[v]) = v
      /\ \A j \in DOMAIN insts : insts'[j] = insts[j]
      /\ \A r \in DOMAIN runs : runs'[r] = runs[r] /\ runs[r].inst \in DOMAIN insts
      /\ UNCHANGED db
  <2>1. \A r \in DOMAIN runs : runs[r].inst \in DOMAIN insts
    BY OfRun
  <2>2. /\ \A j \in DOMAIN insts : insts'[j] = insts[j]
        /\ \A r \in DOMAIN runs : runs'[r] = runs[r]
        /\ UNCHANGED db
    BY DEF Grows
  <2> QED BY <2>1, <2>2, GrowsFrame
\* A new goroutine of u is that of its new object.
<1>1. ASSUME NEW r \in DOMAIN runs' \ DOMAIN runs, insts'[runs'[r].inst].trader = u
      PROVE  traders[u] = 0 /\ db[u] = "running" /\ traders'[u] = runs'[r].inst
  BY <1>1 DEF Grows
<1>2. ASSUME traders'[u] # 0 PROVE insts'[traders'[u]].trader = u
  <2>1. CASE traders[u] # 0
    BY <1>0, <2>1 DEF Owner
  <2>2. CASE traders[u] = 0
    BY <1>2, <2>2 DEF Grows
  <2> QED BY <2>1, <2>2
<1>3. ASSUME traders'[u] = traders[u]
      PROVE  (Alive(u)' <=> Alive(u)) /\ (Consistent(u)' <=> Consistent(u))
  <2>1. CASE traders[u] = 0
    BY <1>0, <1>3, <2>1 DEF Alive, Consistent
  <2>2. CASE traders[u] # 0
    <3>1. insts'[traders[u]] = insts[traders[u]]
      BY <1>0, <2>2
    <3>2. ASSUME NEW r \in DOMAIN runs', runs'[r].inst = traders[u] PROVE r \in DOMAIN runs
      BY <1>1, <1>2, <1>3, <2>2, <3>2
    <3>3. Starting(u)' <=> Starting(u)
      BY <1>0, <1>3, <3>2 DEF Starting
    <3> QED BY <1>0, <1>3, <3>1, <3>3 DEF Alive, Consistent
  <2> QED BY <2>1, <2>2
<1>4. ASSUME traders'[u] # traders[u]
      PROVE  traders[u] = 0 /\ traders'[u] # 0 /\ Consistent(u)'
  <2>1. /\ traders[u] = 0 /\ traders'[u] \in DOMAIN insts' \ DOMAIN insts
        /\ db[u] = "running" => \E r \in DOMAIN runs' : runs'[r].inst = traders'[u] /\ runs'[r].pc = "start"
        /\ ~insts'[traders'[u]].running
    BY <1>4 DEF Grows
  <2>2. ASSUME NEW r \in DOMAIN runs', runs'[r].inst = traders'[u] PROVE db[u] = "running"
    <3>1. r \notin DOMAIN runs
      BY <1>0, <2>1, <2>2
    <3> QED BY <1>1, <1>2, <2>1, <2>2, <1>4, <3>1
  <2>3. Alive(u)' <=> db[u] = "running"
    BY <1>0, <1>4, <2>1, <2>2 DEF Alive, Starting
  <2> QED BY <1>0, <1>4, <2>1, <2>3 DEF Consistent
<1>5. Unstarted(u) => Unstarted(u)'
  <2> SUFFICES ASSUME Unstarted(u), traders'[u] # 0, NEW r \in DOMAIN runs', runs'[r].inst = traders'[u]
               PROVE  FALSE
    BY <1>0 DEF Unstarted, HasRun
  <2>1. r \in DOMAIN runs
    BY <1>1, <1>2 DEF Unstarted
  <2>2. CASE traders[u] = 0
    <3>1. traders'[u] \notin DOMAIN insts
      BY <2>2 DEF Grows
    <3> QED BY <1>0, <2>1, <3>1
  <2>3. CASE traders[u] # 0
    BY <1>0, <2>1, <2>3 DEF Unstarted, HasRun
  <2> QED BY <2>2, <2>3
<1>6. Quiet(u) /\ (db[u] = "running" => traders[u] # 0) => Quiet(u)'
  <2> SUFFICES ASSUME Quiet(u), db[u] = "running" => traders[u] # 0,
                      NEW r \in DOMAIN runs', insts'[runs'[r].inst].trader = u
               PROVE  runs'[r].pc \notin StartUp
    BY DEF Quiet, Owner
  <2>1. r \in DOMAIN runs
    BY <1>1
  <2> QED BY <1>0, <2>1 DEF Quiet, Owner
<1> QED BY <1>3, <1>4, <1>5, <1>6

\* Such a step keeps the invariant.
LEMMA GrowsInv ==
  ASSUME Inv, NEW c \in Clients, NEW st, NEW w, Grows(c, st, w),
         Busy(c)' => ClientOK(c)',
         Busy(c) /\ ~Busy(c)' => \A u \in Traders : u = clients[c].trader => Consistent(u)'
  PROVE  Inv'
<1>1. /\ DOMAIN insts \subseteq DOMAIN insts' /\ DOMAIN runs \subseteq DOMAIN runs'
      /\ DOMAIN insts = 1..Len(insts) /\ DOMAIN insts' = 1..Len(insts')
      /\ clients' \in [Clients -> Client] /\ clients'[c] = st
      /\ \A j : HasRun(j) => HasRun(j)'
      /\ \A j \in DOMAIN insts : insts'[j] = insts[j] /\ Owner(j)' = Owner(j) /\ Account(j)' = Account(j)
      /\ \A r \in DOMAIN runs : /\ runs'[r] = runs[r]
                                /\ (Monitoring(r)' <=> Monitoring(r)) /\ (Over(r)' <=> Over(r))
      /\ UNCHANGED <<db, mu, closed, owners, asked>>
  <2>1. /\ \A j \in DOMAIN insts : insts'[j] = insts[j]
        /\ \A r \in DOMAIN runs : runs'[r] = runs[r]
        /\ UNCHANGED <<db, mu, closed, owners, asked>>
    BY DEF Grows
  <2> QED BY <2>1, GrowsFrame
<1>2. \A d \in Clients : /\ d # c => /\ clients'[d] = clients[d]
                                     /\ Busy(d)' <=> Busy(d)
                         /\ clients'[d].trader = clients[d].trader
                         /\ Busy(d)' => Busy(d)
                         /\ Ending(d) => Ending(d)' /\ clients'[d].inst = clients[d].inst
  BY GrowsFrame
<1>3. \A u \in Traders : traders[u] # 0 => /\ traders'[u] = traders[u] /\ traders[u] \in DOMAIN insts
                                           /\ Owner(traders[u]) = u
  BY GrowsFrame
<1>4. \A r \in DOMAIN runs : runs[r].inst \in DOMAIN insts
  BY OfRun
<1>5. \A j \in DOMAIN insts' : insts'[j].running \/ insts'[j].owns =>
        j \in DOMAIN insts /\ traders[Owner(j)] = j /\ HasRun(j) /\ Owner(j) \in Traders
  <2> SUFFICES ASSUME NEW j \in DOMAIN insts', insts'[j].running \/ insts'[j].owns
               PROVE  j \in DOMAIN insts /\ traders[Owner(j)] = j /\ HasRun(j) /\ Owner(j) \in Traders
    OBVIOUS
  <2>1. j \in DOMAIN insts
    BY DEF Grows
  <2> QED BY <1>1, <2>1, OfObject DEF Inv, InstInv
<1>6. mu # c
  BY HoldsLock DEF Grows, Stopping
<1>7. LockInv'
  <2> SUFFICES ASSUME mu' # None
               PROVE  Busy(mu)' /\ clients'[mu].pc \in Stopping \cup {"unmap"} /\ clients'[mu].op # "stop"
    BY <1>1 DEF LockInv
  <2>1. PICK d \in Clients : d = mu /\ d # c /\ d # None
    BY <1>1, <1>6 DEF Inv, TypeOK
  <2>2. Busy(d) /\ clients[d].pc \in Stopping \cup {"unmap"} /\ clients[d].op # "stop"
    BY <2>1 DEF Inv, LockInv
  <2>3. Busy(d)' /\ clients'[d].pc \in Stopping \cup {"unmap"} /\ clients'[d].op # "stop"
    BY <1>2, <2>1, <2>2
  <2> QED BY <1>1, <2>1, <2>3
<1>8. TypeOK'
  <2>1. /\ insts' \in Seq(Instance) /\ Len(insts') <= MaxInstances
        /\ traders' \in [Traders -> 0..Len(insts')]
        /\ runs' \in Seq(Run) /\ Len(runs') <= MaxRuns
    BY DEF Grows
  <2>2. mu' # None => clients'[mu'].pc \in Stopping \cup {"unmap"}
    BY <1>1, <1>7 DEF LockInv
  <2> QED BY <1>1, <2>1, <2>2 DEF Inv, TypeOK
<1>9. RunInv'
  <2> SUFFICES ASSUME NEW r \in DOMAIN runs' PROVE RunOK(r)'
    BY DEF RunInv
  <2>1. CASE r \in DOMAIN runs
    <3>1. RunOK(r)
      BY <2>1, OfRun
    <3>2. \A q \in DOMAIN runs' : runs'[q].inst = runs[r].inst => q = r
      <4> SUFFICES ASSUME NEW q \in DOMAIN runs', runs'[q].inst = runs[r].inst, q \notin DOMAIN runs
                   PROVE  FALSE
        BY <1>1, <3>1 DEF RunOK
      <4>1. ~HasRun(runs[r].inst)
        BY DEF Grows
      <4> QED BY <2>1, <4>1 DEF HasRun
    <3>3. runs[r].pc = "start" => traders'[Owner(runs[r].inst)] = runs[r].inst
      <4>1. SUFFICES ASSUME runs[r].pc = "start" PROVE traders'[Owner(runs[r].inst)] = runs[r].inst
        OBVIOUS
      <4>2. traders[Owner(runs[r].inst)] = runs[r].inst /\ Owner(runs[r].inst) \in Traders
        BY <2>1, <3>1, <4>1, OfRun DEF RunOK, Owner, Inst
      <4>3. runs[r].inst # 0
        BY <1>1, <1>4, <2>1
      <4> QED BY <1>3, <4>2, <4>3
    <3>4. \A e \in Clients : Ending(e) /\ clients[e].inst = runs[r].inst
            => Ending(e)' /\ clients'[e].inst = runs[r].inst
      BY <1>2
    <3> QED BY <1>1, <1>4, <2>1, <3>1, <3>2, <3>3, <3>4 DEF RunOK
  <2>2. CASE r \notin DOMAIN runs
    <3> DEFINE i == runs'[r].inst
    <3>1. /\ runs'[r].pc = "start" /\ i \in DOMAIN insts' /\ ~HasRun(i)
          /\ \A q \in DOMAIN runs' \ DOMAIN runs : runs'[q].inst = i => q = r
          /\ traders'[insts'[i].trader] = i
      BY <2>2 DEF Grows
    <3>2. \A q \in DOMAIN runs' : runs'[q].inst = i => q = r
      BY <1>1, <3>1 DEF HasRun
    <3>3. ~insts'[i].running /\ ~insts'[i].owns
      BY <1>5, <3>1
    <3>4. ~Monitoring(r)'
      BY <2>2, GrowsFrame
    <3> QED BY <3>1, <3>2, <3>3, <3>4 DEF RunOK, Owner, StartUp, Unclaimed
  <2> QED BY <2>1, <2>2
<1>10. InstInv'
  <2>1. ASSUME NEW u \in Traders, traders'[u] # 0 PROVE insts'[traders'[u]].trader = u
    <3>1. CASE traders[u] # 0
      BY <1>1, <1>3, <3>1 DEF Owner
    <3>2. CASE traders[u] = 0
      BY <2>1, <3>2 DEF Grows
    <3> QED BY <3>1, <3>2
  <2>2. ASSUME NEW j \in DOMAIN insts', insts'[j].running \/ insts'[j].owns
        PROVE  traders'[Owner(j)'] = j /\ HasRun(j)'
    <3>1. j \in DOMAIN insts /\ traders[Owner(j)] = j /\ HasRun(j) /\ Owner(j) \in Traders /\ j # 0
      BY <1>1, <1>5, <2>2
    <3> QED BY <1>1, <1>3, <3>1
  <2>3. ASSUME NEW p \in closed
        PROVE  /\ p[1] \in DOMAIN insts' /\ ~insts'[p[1]].running /\ HasRun(p[1])'
               /\ \A r \in DOMAIN runs' : runs'[r].inst = p[1] => runs'[r].pc # "start"
    <3>1. /\ p[1] \in DOMAIN insts /\ ~insts[p[1]].running /\ HasRun(p[1])
          /\ \A r \in DOMAIN runs : runs[r].inst = p[1] => runs[r].pc # "start"
      BY <2>3 DEF Inv, InstInv
    <3>2. \A r \in DOMAIN runs' : runs'[r].inst = p[1] => r \in DOMAIN runs
      BY <3>1 DEF Grows
    <3> QED BY <1>1, <3>1, <3>2
  <2> QED BY <1>1, <2>1, <2>2, <2>3 DEF InstInv, Owner
<1>11. OwnerInv'
  <2>1. \A j \in DOMAIN insts : insts[j].owns => owners[Account(j)] = Owner(j)
    BY DEF Inv, OwnerInv
  <2>2. \A a \in Accounts : owners[a] # None =>
          \E j \in DOMAIN insts : insts[j].owns /\ Owner(j) = owners[a] /\ Account(j) = a
    BY DEF Inv, OwnerInv
  <2>3. ASSUME NEW j \in DOMAIN insts', insts'[j].owns PROVE owners'[Account(j)'] = Owner(j)'
    BY <1>1, <1>5, <2>1, <2>3
  <2>4. ASSUME NEW a \in Accounts, owners'[a] # None
        PROVE  \E j \in DOMAIN insts' : insts'[j].owns /\ Owner(j)' = owners'[a] /\ Account(j)' = a
    BY <1>1, <2>2, <2>4
  <2> QED BY <2>3, <2>4 DEF OwnerInv
<1>12. TraderInv'
  <2> SUFFICES ASSUME NEW u \in Traders, \A d \in Clients : Busy(d)' => clients'[d].trader # u
               PROVE  Consistent(u)'
    BY DEF TraderInv
  <2>1. CASE Busy(c) /\ u = clients[c].trader
    BY <1>2, <2>1
  <2>2. CASE ~(Busy(c) /\ u = clients[c].trader)
    <3>1. \A d \in Clients : Busy(d) => clients[d].trader # u
      BY <1>2, <2>2
    <3>2. u # w
      BY <2>2, LifecycleAssumption DEF Grows
    <3> QED BY <3>1, <3>2, GrowsTraders DEF Inv, TraderInv
  <2> QED BY <2>1, <2>2
<1>13. ClientInv'
  <2>1. ASSUME NEW d \in Clients, Busy(d)'
        PROVE  ClientOK(d)'
    <3>1. CASE d = c
      BY <2>1, <3>1
    <3>2. CASE d # c
      <4>1. Busy(d) /\ ClientOK(d) /\ clients'[d] = clients[d] /\ clients[d].trader \in Traders
        BY <1>2, <2>1, <3>2 DEF Inv, ClientInv, TypeOK, Client
      <4>2. PICK u \in Traders : u = clients[d].trader
        BY <4>1
      <4>3. u # w
        BY <3>2, <4>1, <4>2, LifecycleAssumption DEF Inv, ClientInv, Grows
      <4>4. /\ traders'[u] = traders[u] => (Alive(u)' <=> Alive(u)) /\ (Consistent(u)' <=> Consistent(u))
            /\ traders'[u] # traders[u] => traders[u] = 0 /\ traders'[u] # 0 /\ Consistent(u)'
            /\ Unstarted(u) => Unstarted(u)'
            /\ Quiet(u) /\ (db[u] = "running" => traders[u] # 0) => Quiet(u)'
        BY <4>3, GrowsTraders
      <4>5. traders[u] # 0 => /\ traders'[u] = traders[u] /\ traders[u] \in DOMAIN insts
                              /\ insts'[traders[u]] = insts[traders[u]]
        BY <1>1, <1>3
      <4>6. clients[d].pc \notin {"load", "fetch", "save"} => Quiet(u)'
        <5>1. CASE clients[d].pc \in {"status", "unmap"} \cup Stopping
          BY <4>1, <4>2, <4>4, <5>1 DEF ClientOK, Stopping
        <5>2. CASE clients[d].pc = "lookup"
          BY <4>1, <4>2, <4>4, <5>2 DEF ClientOK, Consistent, Alive
        <5>3. CASE clients[d].pc = "remove"
          BY <4>1, <4>2, <4>4, <5>3 DEF ClientOK
        <5>4. clients[d].pc \in {"lookup", "status", "remove", "unmap", "load", "fetch", "save"} \cup Stopping
          BY <4>1 DEF Inv, TypeOK, Client, Busy
        <5> QED BY <5>1, <5>2, <5>3, <5>4
      <4>7. clients[d].pc \in {"close", "wait", "release"} =>
              (\A r \in DOMAIN runs' : runs'[r].inst = clients[d].inst => r \in DOMAIN runs)
        <5>1. clients[d].pc \in {"close", "wait", "release"} => HasRun(clients[d].inst)
          BY <4>1 DEF ClientOK
        <5> QED BY <5>1 DEF Grows
      <4>8. (clients[d].pc = "release" /\ \A r \in DOMAIN runs : runs[r].inst = clients[d].inst => Over(r))
              => (\A r \in DOMAIN runs' : runs'[r].inst = clients[d].inst => Over(r)')
        BY <1>1, <4>7
      <4>9. HasRun(clients[d].inst) => HasRun(clients[d].inst)'
        <5>1. PICK j : j = clients[d].inst
          OBVIOUS
        <5> QED BY <1>1, <4>1, <5>1
      <4> QED BY <1>1, <4>1, <4>2, <4>4, <4>5, <4>6, <4>8, <4>9 DEF ClientOK, Stopping
    <3> QED BY <3>1, <3>2
  <2>2. \A d, e \in Clients : Busy(d)' /\ Busy(e)' /\ clients'[d].trader = clients'[e].trader => d = e
    BY <1>2 DEF Inv, ClientInv
  <2>3. \A d \in Clients : clients'[d].op = "query" => clients'[d].pc \in {"idle", "lookup", "load"}
    BY <1>1, <1>2 DEF Inv, ClientInv, Grows
  <2> QED BY <2>1, <2>2, <2>3 DEF ClientInv
<1> QED BY <1>7, <1>8, <1>9, <1>10, <1>11, <1>12, <1>13 DEF Inv

\* `go trader.Run()' on the new object of a trader that is not running.
LEMMA FetchAndRunInv ==
  ASSUME Inv, NEW c \in Clients, FetchAndRun(c)
  PROVE  Inv'
<1>0. PICK t, i, op : t = clients[c].trader /\ i = traders[t] /\ op = clients[c].op
  OBVIOUS
<1>1. /\ clients[c] \in Client /\ clients[c].pc = "fetch" /\ t \in Traders /\ Busy(c) /\ ~Ending(c)
      /\ op = "start" /\ Unstarted(t) /\ i \in 0..Len(insts)
  BY <1>0, OfClient DEF FetchAndRun, Busy, Ending, ClientOK
<1>2. mu # c
  BY <1>1, HoldsLock DEF Stopping
<1>3. CASE i = 0
  <2> DEFINE st == [clients[c] EXCEPT !.pc = "idle"]
  <2>1. st \in Client /\ st.trader = t /\ st.op = op /\ st.pc = "idle"
    BY <1>0, <1>1 DEF Client
  <2>2. Goes(c, st) /\ mu' = mu
    BY <1>0, <1>1, <1>3, <2>1 DEF Goes, FetchAndRun, Go
  <2>3. Consistent(t)
    BY <1>0, <1>1, <1>3 DEF Consistent, Unstarted, Alive
  <2> HIDE DEF st
  <2> QED BY <1>2, <2>1, <2>2, <2>3, GoesInv
<1>4. CASE i # 0
  <2> DEFINE st == [clients[c] EXCEPT !.pc = "save"]
  <2>1. st \in Client /\ st.trader = t /\ st.op = op /\ st.pc = "save"
    BY <1>0, <1>1 DEF Client
  <2>2. /\ clients' = [clients EXCEPT ![c] = st] /\ runs' = Append(runs, NewRun(i)) /\ Len(runs) < MaxRuns
        /\ UNCHANGED <<db, traders, mu, insts, closed, owners, asked>>
    BY <1>0, <1>1, <1>4 DEF FetchAndRun, Go
  <2>3. /\ i \in DOMAIN insts /\ i \in 1..MaxInstances /\ Owner(i) = t /\ ~HasRun(i)
        /\ insts \in Seq(Instance) /\ Len(insts) \in Nat /\ Len(insts) <= MaxInstances
        /\ runs \in Seq(Run) /\ Len(runs) \in Nat /\ MaxRuns \in Nat
        /\ traders \in [Traders -> 0..Len(insts)]
    BY <1>0, <1>1, <1>4, LifecycleAssumption DEF Inv, TypeOK, InstInv, Unstarted
  <2>4. /\ NewRun(i) \in Run /\ NewRun(i).inst = i /\ NewRun(i).pc = "start"
        /\ \A m \in Monitors : NewRun(i).monitor[m] = "off"
    BY <2>3 DEF NewRun, Run, RunPc, StartUp
  <2> HIDE DEF st
  <2>5. /\ runs' \in Seq(Run) /\ Len(runs') = Len(runs) + 1 /\ runs'[Len(runs) + 1] = NewRun(i)
        /\ DOMAIN runs' = DOMAIN runs \cup {Len(runs) + 1} /\ Len(runs) + 1 \notin DOMAIN runs
        /\ \A r \in DOMAIN runs : runs'[r] = runs[r]
    BY <2>2, <2>3, <2>4
  <2>6. \A r \in DOMAIN runs' \ DOMAIN runs :
          /\ runs'[r].pc = "start" /\ \A m \in Monitors : runs'[r].monitor[m] = "off"
          /\ runs'[r].inst = i /\ r = Len(runs) + 1
    BY <2>4, <2>5
  <2>7. insts'[i].trader = t /\ traders'[t] = i /\ insts' = insts /\ traders' = traders
    BY <1>0, <2>2, <2>3 DEF Owner
  <2>8. Grows(c, st, t)
    <3>1. \A r \in DOMAIN runs' \ DOMAIN runs :
            /\ runs'[r].pc = "start" /\ \A m \in Monitors : runs'[r].monitor[m] = "off"
            /\ runs'[r].inst \in DOMAIN insts' /\ ~HasRun(runs'[r].inst)
            /\ \A q \in DOMAIN runs' \ DOMAIN runs : runs'[q].inst = runs'[r].inst => q = r
            /\ traders'[insts'[runs'[r].inst].trader] = runs'[r].inst
            /\ insts'[runs'[r].inst].trader = t
      BY <2>3, <2>6, <2>7
    <3>2. Len(runs) <= Len(runs') /\ Len(runs') <= MaxRuns
      BY <2>2, <2>3, <2>5
    <3>3. /\ insts' \in Seq(Instance) /\ Len(insts) <= Len(insts') /\ Len(insts') <= MaxInstances
          /\ \A j \in DOMAIN insts : insts'[j] = insts[j]
          /\ \A j \in DOMAIN insts' \ DOMAIN insts : FALSE
          /\ traders' \in [Traders -> 0..Len(insts')]
          /\ \A u \in Traders : traders'[u] = traders[u]
      BY <2>3, <2>7
    <3>4. runs' \in Seq(Run) /\ \A r \in DOMAIN runs : runs'[r] = runs[r]
      BY <2>5
    <3>5. /\ clients[c].pc = "fetch" /\ clients' = [clients EXCEPT ![c] = st]
          /\ st \in Client /\ st.trader = clients[c].trader /\ st.op = clients[c].op /\ st.op = "start"
          /\ Busy(c) /\ t = clients[c].trader
          /\ UNCHANGED <<db, mu, closed, owners, asked>>
      BY <1>0, <1>1, <2>1, <2>2
    <3> QED BY <3>1, <3>2, <3>3, <3>4, <3>5 DEF Grows
  <2>9. clients'[c] = st
    BY <2>2 DEF Inv, TypeOK
  <2>10. \A u \in Traders : u = t => Alive(u)'
    BY <1>0, <1>4, <2>4, <2>5, <2>7 DEF Alive, Starting
  <2>11. ClientOK(c)'
    BY <1>0, <1>1, <1>4, <2>1, <2>7, <2>9, <2>10 DEF ClientOK, Stopping
  <2>12. Busy(c)'
    BY <1>1, <2>1, <2>9 DEF Busy
  <2> QED BY <2>8, <2>11, <2>12, GrowsInv
<1> QED BY <1>3, <1>4

\* Loading makes one object for each trader that has none, and one goroutine for
\* each of those that the table says run.
LEMMA Loaded ==
  ASSUME Inv, Load
  PROVE  /\ insts' \in Seq(Instance) /\ Len(insts) <= Len(insts') /\ Len(insts') <= MaxInstances
         /\ \A j \in DOMAIN insts : insts'[j] = insts[j]
         /\ \A j \in DOMAIN insts' \ DOMAIN insts : ~insts'[j].running /\ ~insts'[j].owns
         /\ \A t \in Unloaded : /\ InstanceOf(t) \in DOMAIN insts' \ DOMAIN insts
                                /\ insts'[InstanceOf(t)].trader = t
         /\ runs' \in Seq(Run) /\ Len(runs) <= Len(runs') /\ Len(runs') <= MaxRuns
         /\ \A r \in DOMAIN runs : runs'[r] = runs[r]
         /\ \A r \in DOMAIN runs' \ DOMAIN runs : \E t \in Unloaded :
              AutoStarts(t) /\ runs'[r] = NewRun(InstanceOf(t))
         /\ \A t \in Unloaded : AutoStarts(t) => \E r \in DOMAIN runs' : runs'[r] = NewRun(InstanceOf(t))
         /\ \A q, r \in DOMAIN runs' \ DOMAIN runs : runs'[q].inst = runs'[r].inst => q = r
<1> DEFINE up      == {t \in Unloaded : AutoStarts(t)}
           started == SetToSeq(up)
           N       == Len(insts)
           R       == Len(runs)
           fresh   == [n \in DOMAIN Missing |-> NewInstance(Missing[n])]
<1>1. /\ insts \in Seq(Instance) /\ N \in Nat /\ N <= MaxInstances /\ DOMAIN insts = 1..N
      /\ runs \in Seq(Run) /\ R \in Nat /\ R <= MaxRuns /\ DOMAIN runs = 1..R
      /\ MaxInstances \in Nat /\ MaxRuns \in Nat
  BY LifecycleAssumption DEF Inv, TypeOK
<1>2. IsFiniteSet(Unloaded) /\ IsFiniteSet(up) /\ Unloaded \subseteq Traders
  BY LifecycleAssumption, FS_Subset DEF Unloaded
<1>3. /\ Missing \in Seq(Unloaded) /\ Len(Missing) \in Nat /\ DOMAIN Missing = 1..Len(Missing)
      /\ \A t \in Unloaded : \E n \in DOMAIN Missing : Missing[n] = t
      /\ \A m, n \in DOMAIN Missing : Missing[m] = Missing[n] => m = n
  BY <1>2, Listed DEF Missing
<1>4. /\ started \in Seq(up) /\ Len(started) \in Nat /\ DOMAIN started = 1..Len(started)
      /\ \A t \in up : \E n \in DOMAIN started : started[n] = t
      /\ \A m, n \in DOMAIN started : started[m] = started[n] => m = n
  BY <1>2, Listed
<1> HIDE DEF started, up
<1>5. AutoRuns = [n \in DOMAIN started |-> NewRun(InstanceOf(started[n]))]
  BY DEF AutoRuns, started, up
<1>6. /\ N + Len(Missing) <= MaxInstances /\ insts' = insts \o fresh
      /\ R + Len(AutoRuns) <= MaxRuns /\ runs' = runs \o AutoRuns
  BY DEF Load
<1>7. \A n \in DOMAIN Missing : /\ Missing[n] \in Traders /\ NewInstance(Missing[n]) \in Instance
                                /\ NewInstance(Missing[n]).trader = Missing[n]
                                /\ ~NewInstance(Missing[n]).running /\ ~NewInstance(Missing[n]).owns
  <2>1. ASSUME NEW n \in DOMAIN Missing PROVE Missing[n] \in Traders
    BY <1>2, <1>3, <2>1
  <2> QED BY <1>1, <2>1 DEF NewInstance, Instance
<1>8. /\ fresh \in Seq(Instance) /\ Len(fresh) = Len(Missing) /\ DOMAIN fresh = 1..Len(Missing)
      /\ \A n \in 1..Len(Missing) : fresh[n] = NewInstance(Missing[n])
  BY <1>3, <1>7
<1> HIDE DEF fresh
<1>9. /\ insts' \in Seq(Instance) /\ Len(insts') = N + Len(Missing) /\ DOMAIN insts' = 1..(N + Len(Missing))
      /\ \A j \in 1..N : insts'[j] = insts[j]
      /\ \A n \in 1..Len(Missing) : insts'[N + n] = NewInstance(Missing[n])
  <2>1. /\ insts' \in Seq(Instance) /\ Len(insts') = N + Len(fresh) /\ DOMAIN insts' = 1..(N + Len(fresh))
        /\ \A j \in 1..N : insts'[j] = insts[j]
        /\ \A n \in 1..Len(fresh) : insts'[N + n] = fresh[n]
    <3>1. Len(fresh) \in Nat
      BY <1>8
    <3>2. insts' \in Seq(Instance) /\ Len(insts') = N + Len(fresh)
      <4>1. insts \in Seq(Instance) /\ fresh \in Seq(Instance) /\ insts' = insts \o fresh
        BY <1>1, <1>6, <1>8
      <4> QED BY <4>1, ConcatProperties
    <3>3. \A j \in 1..N : insts'[j] = insts[j]
      BY <1>1, <1>6, <1>8
    <3>4. ASSUME NEW n \in 1..Len(fresh) PROVE insts'[N + n] = fresh[n]
      BY <1>1, <1>6, <1>8
    <3> QED BY <3>1, <3>2, <3>3, <3>4
  <2> QED BY <1>8, <2>1
<1>10. \A t \in Unloaded : \E n \in 1..Len(Missing) : InstanceOf(t) = N + n /\ Missing[n] = t
  <2> SUFFICES ASSUME NEW t \in Unloaded
               PROVE  \E n \in 1..Len(Missing) : InstanceOf(t) = N + n /\ Missing[n] = t
    OBVIOUS
  <2> DEFINE n == CHOOSE n \in DOMAIN Missing : Missing[n] = t
  <2>1. n \in DOMAIN Missing /\ Missing[n] = t
    BY <1>3
  <2> QED BY <1>3, <2>1 DEF InstanceOf
<1>11. \A t \in Unloaded : /\ InstanceOf(t) \in DOMAIN insts' \ DOMAIN insts
                           /\ insts'[InstanceOf(t)].trader = t
                           /\ InstanceOf(t) \in 1..MaxInstances
  <2> SUFFICES ASSUME NEW t \in Unloaded
               PROVE  /\ InstanceOf(t) \in DOMAIN insts' \ DOMAIN insts
                      /\ insts'[InstanceOf(t)].trader = t
                      /\ InstanceOf(t) \in 1..MaxInstances
    OBVIOUS
  <2>1. PICK n \in 1..Len(Missing) : InstanceOf(t) = N + n /\ Missing[n] = t
    BY <1>10
  <2>2. insts'[N + n].trader = t
    BY <1>3, <1>7, <1>9, <2>1
  <2> QED BY <1>1, <1>3, <1>6, <1>9, <2>1, <2>2
<1>12. \A j \in DOMAIN insts' \ DOMAIN insts : ~insts'[j].running /\ ~insts'[j].owns
  <2> SUFFICES ASSUME NEW j \in DOMAIN insts' \ DOMAIN insts
               PROVE  ~insts'[j].running /\ ~insts'[j].owns
    OBVIOUS
  <2>1. PICK n \in 1..Len(Missing) : j = N + n
    <3>1. j - N \in 1..Len(Missing) /\ j = N + (j - N)
      BY <1>1, <1>3, <1>9
    <3> QED BY <3>1
  <2> QED BY <1>3, <1>7, <1>9, <2>1
<1>13. \A n \in DOMAIN started : /\ started[n] \in Unloaded /\ AutoStarts(started[n])
                                 /\ NewRun(InstanceOf(started[n])) \in Run
                                 /\ NewRun(InstanceOf(started[n])).inst = InstanceOf(started[n])
  <2>1. \A n \in DOMAIN started : started[n] \in Unloaded /\ AutoStarts(started[n])
    BY <1>4 DEF up
  <2>2. ASSUME NEW i \in 1..MaxInstances PROVE NewRun(i) \in Run /\ NewRun(i).inst = i
    BY <1>1 DEF NewRun, Run, RunPc, StartUp
  <2> QED BY <1>11, <2>1, <2>2
<1>14. /\ AutoRuns \in Seq(Run) /\ Len(AutoRuns) = Len(started)
       /\ \A n \in 1..Len(started) : AutoRuns[n] = NewRun(InstanceOf(started[n]))
  BY <1>4, <1>5, <1>13
<1>15. /\ runs' \in Seq(Run) /\ Len(runs') = R + Len(started) /\ DOMAIN runs' = 1..(R + Len(started))
       /\ \A r \in 1..R : runs'[r] = runs[r]
       /\ \A n \in 1..Len(started) : runs'[R + n] = NewRun(InstanceOf(started[n]))
  <2>1. /\ runs' \in Seq(Run) /\ Len(runs') = R + Len(AutoRuns) /\ DOMAIN runs' = 1..(R + Len(AutoRuns))
        /\ \A r \in 1..R : runs'[r] = runs[r]
        /\ \A n \in 1..Len(AutoRuns) : runs'[R + n] = AutoRuns[n]
    <3>1. Len(AutoRuns) \in Nat
      BY <1>14
    <3>2. runs' \in Seq(Run) /\ Len(runs') = R + Len(AutoRuns)
      <4>1. runs \in Seq(Run) /\ AutoRuns \in Seq(Run) /\ runs' = runs \o AutoRuns
        BY <1>1, <1>6, <1>14
      <4> QED BY <4>1, ConcatProperties
    <3>3. \A r \in 1..R : runs'[r] = runs[r]
      BY <1>1, <1>6, <1>14
    <3>4. ASSUME NEW n \in 1..Len(AutoRuns) PROVE runs'[R + n] = AutoRuns[n]
      BY <1>1, <1>6, <1>14
    <3> QED BY <3>1, <3>2, <3>3, <3>4
  <2> QED BY <1>14, <2>1
<1>16. \A r \in DOMAIN runs' \ DOMAIN runs :
         \E n \in 1..Len(started) : r = R + n /\ runs'[r] = NewRun(InstanceOf(started[n]))
  <2> SUFFICES ASSUME NEW r \in DOMAIN runs' \ DOMAIN runs
               PROVE  \E n \in 1..Len(started) : r = R + n /\ runs'[r] = NewRun(InstanceOf(started[n]))
    OBVIOUS
  <2>1. r - R \in 1..Len(started) /\ r = R + (r - R)
    BY <1>1, <1>4, <1>15
  <2> QED BY <1>15, <2>1
<1>17. ASSUME NEW q \in DOMAIN runs' \ DOMAIN runs, NEW r \in DOMAIN runs' \ DOMAIN runs,
              runs'[q].inst = runs'[r].inst
       PROVE  q = r
  <2>1. PICK m \in 1..Len(started) : q = R + m /\ runs'[q] = NewRun(InstanceOf(started[m]))
    BY <1>16
  <2>2. PICK n \in 1..Len(started) : r = R + n /\ runs'[r] = NewRun(InstanceOf(started[n]))
    BY <1>16
  <2>3. InstanceOf(started[m]) = InstanceOf(started[n]) /\ started[m] \in Unloaded /\ started[n] \in Unloaded
    BY <1>4, <1>13, <1>17, <2>1, <2>2
  <2>4. started[m] = started[n]
    BY <1>11, <2>3
  <2> QED BY <1>4, <2>1, <2>2, <2>4
<1>18. \A t \in Unloaded : AutoStarts(t) => \E r \in DOMAIN runs' : runs'[r] = NewRun(InstanceOf(t))
  <2> SUFFICES ASSUME NEW t \in Unloaded, AutoStarts(t)
               PROVE  \E r \in DOMAIN runs' : runs'[r] = NewRun(InstanceOf(t))
    OBVIOUS
  <2>1. PICK n \in 1..Len(started) : started[n] = t
    BY <1>4 DEF up
  <2>2. R + n \in DOMAIN runs' /\ runs'[R + n] = NewRun(InstanceOf(t))
    BY <1>1, <1>4, <1>15, <2>1
  <2> QED BY <2>2
<1>19. \A r \in DOMAIN runs' \ DOMAIN runs : \E t \in Unloaded :
         AutoStarts(t) /\ runs'[r] = NewRun(InstanceOf(t))
  BY <1>4, <1>13, <1>16
<1>20. Len(insts) <= Len(insts') /\ Len(insts') <= MaxInstances /\ Len(runs) <= Len(runs') /\ Len(runs') <= MaxRuns
  BY <1>1, <1>3, <1>4, <1>6, <1>9, <1>14, <1>15
<1> QED BY <1>1, <1>9, <1>11, <1>12, <1>15, <1>17, <1>18, <1>19, <1>20

\* LoadUserTradersFromStore, at the end of a request.
LEMMA LoadTradersInv ==
  ASSUME Inv, NEW c \in Clients, LoadTraders(c)
  PROVE  Inv'
<1>0. PICK t, op : t = clients[c].trader /\ op = clients[c].op
  OBVIOUS
<1> DEFINE pc == IF op = "start" \/ (op = "update" /\ clients[c].was) THEN "fetch" ELSE "idle"
           st == [clients[c] EXCEPT !.pc = pc]
<1>1. /\ clients[c] \in Client /\ clients[c].pc = "load" /\ t \in Traders
      /\ Busy(c) <=> op # "query"
      /\ Busy(c) => /\ op \in {"start", "reload"}
                    /\ op = "start" => Unstarted(t)
                    /\ op = "reload" /\ traders[t] # 0 => Consistent(t)
  BY <1>0, OfClient DEF LoadTraders, Busy, ClientOK
<1>2. st \in Client /\ st.trader = t /\ st.op = op /\ st.pc = pc
  BY <1>0, <1>1 DEF Client
<1>3. Load /\ clients' = [clients EXCEPT ![c] = st] /\ UNCHANGED <<db, mu, closed, owners, asked>>
  BY <1>0 DEF LoadTraders, Go
<1> HIDE DEF st
<1>4. clients'[c] = st
  BY <1>3 DEF Inv, TypeOK
<1>5. /\ insts' \in Seq(Instance) /\ Len(insts) <= Len(insts') /\ Len(insts') <= MaxInstances
      /\ \A j \in DOMAIN insts : insts'[j] = insts[j]
      /\ \A j \in DOMAIN insts' \ DOMAIN insts : ~insts'[j].running /\ ~insts'[j].owns
      /\ \A u \in Unloaded : /\ InstanceOf(u) \in DOMAIN insts' \ DOMAIN insts
                             /\ insts'[InstanceOf(u)].trader = u
      /\ runs' \in Seq(Run) /\ Len(runs) <= Len(runs') /\ Len(runs') <= MaxRuns
      /\ \A r \in DOMAIN runs : runs'[r] = runs[r]
      /\ \A r \in DOMAIN runs' \ DOMAIN runs : \E u \in Unloaded :
           AutoStarts(u) /\ runs'[r] = NewRun(InstanceOf(u))
      /\ \A u \in Unloaded : AutoStarts(u) => \E r \in DOMAIN runs' : runs'[r] = NewRun(InstanceOf(u))
      /\ \A q, r \in DOMAIN runs' \ DOMAIN runs : runs'[q].inst = runs'[r].inst => q = r
  BY <1>3, Loaded
<1>6. /\ traders \in [Traders -> 0..Len(insts)] /\ Len(insts) \in Nat /\ Len(insts') \in Nat
      /\ DOMAIN insts = 1..Len(insts) /\ DOMAIN insts' = 1..Len(insts')
      /\ Unloaded \subseteq Traders
  BY <1>5 DEF Inv, TypeOK, Unloaded
<1>7. traders' = [u \in Traders |-> IF u \in Unloaded THEN InstanceOf(u) ELSE traders[u]]
  BY <1>3 DEF Load
<1>8. /\ traders' \in [Traders -> 0..Len(insts')]
      /\ \A u \in Unloaded : traders'[u] = InstanceOf(u) /\ traders[u] = 0 /\ db[u] # "deleted"
      /\ \A u \in Traders \ Unloaded : traders'[u] = traders[u] /\ (traders[u] # 0 \/ db[u] = "deleted")
  <2>1. \A u \in Unloaded : InstanceOf(u) \in 0..Len(insts')
    BY <1>5, <1>6
  <2>2. \A u \in Traders : traders[u] \in 0..Len(insts')
    BY <1>5, <1>6
  <2> QED BY <1>6, <1>7, <2>1, <2>2 DEF Unloaded
<1>9. ASSUME NEW i PROVE /\ NewRun(i).inst = i /\ NewRun(i).pc = "start"
                         /\ \A m \in Monitors : NewRun(i).monitor[m] = "off"
  BY DEF NewRun
<1>10. \A u \in Traders : traders'[u] # traders[u] =>
         /\ traders[u] = 0 /\ traders'[u] \in DOMAIN insts' \ DOMAIN insts /\ insts'[traders'[u]].trader = u
         /\ db[u] = "running" => \E r \in DOMAIN runs' : runs'[r].inst = traders'[u] /\ runs'[r].pc = "start"
  <2> SUFFICES ASSUME NEW u \in Traders, traders'[u] # traders[u]
               PROVE  /\ traders[u] = 0 /\ traders'[u] \in DOMAIN insts' \ DOMAIN insts
                      /\ insts'[traders'[u]].trader = u
                      /\ db[u] = "running" =>
                           \E r \in DOMAIN runs' : runs'[r].inst = traders'[u] /\ runs'[r].pc = "start"
    OBVIOUS
  <2>1. u \in Unloaded /\ traders'[u] = InstanceOf(u) /\ traders[u] = 0
    BY <1>8
  <2>2. db[u] = "running" => \E r \in DOMAIN runs' : runs'[r] = NewRun(InstanceOf(u))
    BY <1>5, <2>1 DEF AutoStarts
  <2> QED BY <1>5, <1>9, <2>1, <2>2
<1>11. ASSUME NEW r \in DOMAIN runs' \ DOMAIN runs
       PROVE  /\ runs'[r].pc = "start" /\ \A m \in Monitors : runs'[r].monitor[m] = "off"
              /\ runs'[r].inst \in DOMAIN insts' /\ ~HasRun(runs'[r].inst)
              /\ \A q \in DOMAIN runs' \ DOMAIN runs : runs'[q].inst = runs'[r].inst => q = r
              /\ traders'[insts'[runs'[r].inst].trader] = runs'[r].inst
              /\ traders[insts'[runs'[r].inst].trader] = 0 /\ db[insts'[runs'[r].inst].trader] = "running"
  <2>1. PICK u \in Unloaded : AutoStarts(u) /\ runs'[r] = NewRun(InstanceOf(u))
    BY <1>5
  <2>2. runs'[r].inst = InstanceOf(u) /\ runs'[r].pc = "start" /\ \A m \in Monitors : runs'[r].monitor[m] = "off"
    BY <1>9, <2>1
  <2>3. InstanceOf(u) \in DOMAIN insts' \ DOMAIN insts /\ insts'[InstanceOf(u)].trader = u
    BY <1>5
  <2>4. ~HasRun(InstanceOf(u))
    BY <2>3, OfRun DEF HasRun
  <2>5. \A q \in DOMAIN runs' \ DOMAIN runs : runs'[q].inst = runs'[r].inst => q = r
    BY <1>5
  <2> QED BY <1>8, <2>1, <2>2, <2>3, <2>4, <2>5 DEF AutoStarts
<1>12. Grows(c, st, None)
  <2>1. op = "query" => pc = "idle"
    BY <1>1
  <2>2. /\ clients[c].pc \in {"load", "fetch"} /\ st \in Client /\ clients' = [clients EXCEPT ![c] = st]
        /\ st.trader = clients[c].trader /\ st.op = clients[c].op /\ (st.op = "query" => st.pc = "idle")
    BY <1>0, <1>1, <1>2, <1>3, <2>1
  <2>3. /\ insts' \in Seq(Instance) /\ Len(insts) <= Len(insts') /\ Len(insts') <= MaxInstances
        /\ \A j \in DOMAIN insts : insts'[j] = insts[j]
        /\ \A j \in DOMAIN insts' \ DOMAIN insts : ~insts'[j].running /\ ~insts'[j].owns
        /\ runs' \in Seq(Run) /\ Len(runs) <= Len(runs') /\ Len(runs') <= MaxRuns
        /\ \A r \in DOMAIN runs : runs'[r] = runs[r]
    BY <1>5
  <2>4. traders' \in [Traders -> 0..Len(insts')]
    BY <1>8
  <2> QED BY <1>3, <1>10, <1>11, <2>2, <2>3, <2>4 DEF Grows
<1>13. \A u \in Traders : /\ traders'[u] = traders[u] => (Alive(u)' <=> Alive(u)) /\ (Consistent(u)' <=> Consistent(u))
                          /\ traders'[u] # traders[u] => Consistent(u)'
                          /\ Unstarted(u) => Unstarted(u)'
  BY <1>12, GrowsTraders, LifecycleAssumption
<1>14. ASSUME Busy(c)' PROVE ClientOK(c)'
  <2>1. op = "start" /\ pc = "fetch" /\ Busy(c)
    BY <1>1, <1>2, <1>4, <1>14 DEF Busy
  <2>2. PICK u \in Traders : u = t
    BY <1>1
  <2>3. Unstarted(u)'
    BY <1>1, <1>13, <2>1, <2>2
  <2> QED BY <1>2, <1>4, <2>1, <2>2, <2>3 DEF ClientOK, Stopping
<1>15. ASSUME Busy(c), ~Busy(c)', NEW u \in Traders, u = t PROVE Consistent(u)'
  <2>1. op = "reload"
    BY <1>1, <1>2, <1>4, <1>15 DEF Busy
  <2>2. CASE traders[u] # 0
    <3>1. Consistent(u) /\ traders'[u] = traders[u]
      BY <1>1, <1>8, <1>15, <2>1, <2>2
    <3> QED BY <1>13, <3>1
  <2>3. CASE traders[u] = 0 /\ traders'[u] # traders[u]
    BY <1>13, <2>3
  <2>4. CASE traders[u] = 0 /\ traders'[u] = traders[u]
    <3>1. db[u] = "deleted"
      <4>1. u \in Unloaded => InstanceOf(u) \in DOMAIN insts'
        BY <1>5
      <4> QED BY <1>6, <1>8, <2>4, <4>1
    <3> QED BY <1>3, <3>1 DEF Consistent
  <2> QED BY <2>2, <2>3, <2>4
<1> QED BY <1>0, <1>12, <1>14, <1>15, GrowsInv

-----------------------------------------------------------------------------
(* The theorems *)

\* What LoadTradersFromStore leaves at the start of the process.
LEMMA InitInv ==
  ASSUME Init
  PROVE  Inv
<1> DEFINE all    == SetToSeq(Traders)
           number == [t \in Traders |-> CHOOSE n \in DOMAIN all : all[n] = t]
           runs0  == {t \in Traders : AutoStarts(t)}
           up     == SetToSeq(runs0)
<1>1. IsFiniteSet(runs0) /\ Cardinality(runs0) <= Cardinality(Traders)
  BY LifecycleAssumption, FS_Subset
<1>2. /\ all \in Seq(Traders) /\ Len(all) = Cardinality(Traders) /\ DOMAIN all = 1..Len(all)
      /\ Cardinality(Traders) \in Nat
      /\ \A t \in Traders : \E n \in DOMAIN all : all[n] = t
  BY LifecycleAssumption, Listed
<1>3. /\ up \in Seq(runs0) /\ Len(up) = Cardinality(runs0) /\ DOMAIN up = 1..Len(up)
      /\ Cardinality(runs0) \in Nat
      /\ \A t \in runs0 : \E n \in DOMAIN up : up[n] = t
      /\ \A m, n \in DOMAIN up : up[m] = up[n] => m = n
  BY <1>1, Listed
<1>4. /\ db \in [Traders -> {"running", "stopped"}]
      /\ insts = [n \in DOMAIN all |-> NewInstance(all[n])]
      /\ traders = number
      /\ runs = [n \in DOMAIN up |-> NewRun(number[up[n]])]
      /\ mu = None /\ closed = {} /\ asked = 0
      /\ owners = [a \in Accounts |-> None]
  BY DEF Init
<1>5. PICK t0 \in Traders, op0 \in Ops :
        clients = [c \in Clients |-> [pc |-> "idle", op |-> op0, trader |-> t0, inst |-> 0, was |-> FALSE]]
  BY DEF Init
<1> HIDE DEF up
<1>6. \A t \in Traders : number[t] \in DOMAIN all /\ all[number[t]] = t
  BY <1>2
<1> HIDE DEF number
<1>7. MaxInstances \in Nat /\ MaxRuns \in Nat /\ MaxRequests \in Nat
      /\ Len(all) <= MaxInstances /\ Len(up) <= MaxRuns
  BY <1>1, <1>2, <1>3, LifecycleAssumption
<1> HIDE DEF all
<1>8. /\ insts \in Seq(Instance) /\ Len(insts) = Len(all) /\ DOMAIN insts = 1..Len(all)
      /\ \A j \in DOMAIN insts : ~insts[j].running /\ ~insts[j].owns /\ insts[j].trader = all[j]
                                 /\ all[j] \in Traders
  <2>1. ASSUME NEW n \in DOMAIN all
        PROVE  /\ NewInstance(all[n]) \in Instance /\ NewInstance(all[n]).trader = all[n]
               /\ ~NewInstance(all[n]).running /\ ~NewInstance(all[n]).owns /\ all[n] \in Traders
    BY <1>2, <1>7, <2>1 DEF NewInstance, Instance
  <2>2. Len(all) \in Nat /\ DOMAIN all = 1..Len(all)
    BY <1>2
  <2>3. insts \in [1..Len(all) -> Instance]
    BY <1>4, <2>1, <2>2
  <2>4. insts \in Seq(Instance) /\ Len(insts) = Len(all) /\ DOMAIN insts = 1..Len(all)
    BY <2>2, <2>3
  <2> QED BY <1>4, <2>1, <2>2, <2>4
<1>9. \A t \in Traders : traders[t] = number[t] /\ number[t] \in DOMAIN insts /\ Owner(number[t]) = t
                         /\ number[t] \in 1..MaxInstances
  BY <1>2, <1>4, <1>6, <1>7, <1>8 DEF Owner
<1>10. \A i \in 1..MaxInstances : /\ NewRun(i) \in Run /\ NewRun(i).inst = i /\ NewRun(i).pc = "start"
                                  /\ \A m \in Monitors : NewRun(i).monitor[m] = "off"
  BY <1>7 DEF NewRun, Run, RunPc, StartUp
<1>11. \A n \in DOMAIN up : up[n] \in Traders /\ db[up[n]] = "running"
  BY <1>3 DEF AutoStarts
<1>12. /\ runs \in Seq(Run) /\ Len(runs) = Len(up) /\ DOMAIN runs = DOMAIN up
       /\ \A r \in DOMAIN runs : /\ runs[r].inst = number[up[r]] /\ runs[r].pc = "start"
                                 /\ ~Monitoring(r)
  <2>1. ASSUME NEW n \in DOMAIN up
        PROVE  /\ NewRun(number[up[n]]) \in Run /\ NewRun(number[up[n]]).inst = number[up[n]]
               /\ NewRun(number[up[n]]).pc = "start"
               /\ \A m \in Monitors : NewRun(number[up[n]]).monitor[m] = "off"
    BY <1>9, <1>10, <1>11
  <2>2. runs \in Seq(Run) /\ Len(runs) = Len(up) /\ DOMAIN runs = DOMAIN up
    <3>1. Len(up) \in Nat /\ DOMAIN up = 1..Len(up)
      BY <1>3
    <3>2. runs \in [1..Len(up) -> Run]
      BY <1>4, <2>1, <3>1
    <3> QED BY <3>1, <3>2
  <2> QED BY <1>4, <2>1, <2>2 DEF Monitoring
<1>13. \A c \in Clients : clients[c].pc = "idle" /\ ~Busy(c)
  BY <1>5 DEF Busy
<1>14. TypeOK
  <2>1. clients \in [Clients -> Client]
    BY <1>5, <1>7, LifecycleAssumption DEF Client, Instances
  <2>2. traders \in [Traders -> 0..Len(insts)]
    <3>1. traders \in [Traders -> DOMAIN insts]
      BY <1>4, <1>9 DEF number
    <3> QED BY <1>8, <3>1
  <2> QED BY <1>3, <1>4, <1>7, <1>8, <1>12, <2>1, <2>2 DEF TypeOK
<1>15. RunInv
  <2> SUFFICES ASSUME NEW r \in DOMAIN runs PROVE RunOK(r)
    BY DEF RunInv
  <2>1. up[r] \in Traders /\ runs[r].inst = number[up[r]]
    BY <1>11, <1>12
  <2>2. ASSUME NEW q \in DOMAIN runs, runs[q].inst = runs[r].inst PROVE q = r
    <3>1. up[q] \in Traders /\ number[up[q]] = number[up[r]]
      BY <1>11, <1>12, <2>2
    <3> QED BY <1>3, <1>6, <1>12, <2>1, <3>1
  <2> QED BY <1>8, <1>9, <1>12, <2>1, <2>2 DEF RunOK, StartUp, Unclaimed
<1>16. InstInv /\ OwnerInv /\ LockInv
  BY <1>4, <1>8, <1>9 DEF InstInv, OwnerInv, LockInv
<1>17. TraderInv
  <2> SUFFICES ASSUME NEW t \in Traders PROVE Consistent(t)
    BY DEF TraderInv
  <2>1. traders[t] = number[t] /\ traders[t] # 0 /\ ~insts[traders[t]].running
    BY <1>8, <1>9
  <2>2. ASSUME db[t] = "running" PROVE Starting(t)
    <3>1. PICK n \in DOMAIN up : up[n] = t
      BY <1>3, <2>2 DEF AutoStarts
    <3> QED BY <1>12, <2>1, <3>1 DEF Starting
  <2>3. ASSUME Starting(t) PROVE db[t] = "running"
    <3>1. PICK r \in DOMAIN runs : runs[r].inst = traders[t]
      BY <2>3 DEF Starting
    <3>2. up[r] = t
      BY <1>6, <1>11, <1>12, <2>1, <3>1
    <3> QED BY <1>11, <1>12, <3>2
  <2> QED BY <2>1, <2>2, <2>3 DEF Consistent, Alive
<1>18. ClientInv
  BY <1>13 DEF ClientInv
<1> QED BY <1>14, <1>15, <1>16, <1>17, <1>18 DEF Inv

\* Every step of careful use keeps the invariant.
LEMMA StepInv ==
  ASSUME CarefulUse, Inv, [Next]_vars
  PROVE  Inv'
<1>1. CASE UNCHANGED vars
  BY <1>1 DEF vars, Inv, TypeOK, RunInv, RunOK, InstInv, OwnerInv, TraderInv, ClientInv, ClientOK, LockInv,
              Over, Monitoring, Owner, HasRun, Account, Starting, Alive, Consistent, Quiet, Unstarted, Busy, Ending
<1>2. ASSUME NEW c \in Clients, ClientStep(c) PROVE Inv'
  BY <1>2, LookupInv, StatusInv, RemoveTraderInv, UnmapInv, LoadTradersInv, FetchAndRunInv, SaveInv,
     StopBeginInv, StopCloseInv, StopWaitInv, StopReleaseInv DEF ClientStep
<1>3. ASSUME NEW r \in DOMAIN runs, RunStep(r) \/ RunStopped(r) PROVE Inv'
  BY <1>3, BeginInv, RunStepInv DEF RunStep
<1> QED BY <1>1, <1>2, <1>3, AskInv, MonitorInv DEF Next

\* The invariant holds of every behaviour with careful requests.
LEMMA InvAlways ==
  ASSUME CarefulUse
  PROVE  Spec => []Inv
<1>1. Init => Inv
  BY InitInv
<1>2. Inv /\ [Next]_vars => Inv'
  BY StepInv
<1> QED BY <1>1, <1>2, PTL DEF Spec

\* The declared types hold in careful use.
THEOREM TypeCorrect == CarefulUse => (Spec => []TypeOK)
<1> SUFFICES ASSUME CarefulUse PROVE Spec => []TypeOK
  OBVIOUS
<1>1. Inv => TypeOK
  BY DEF Inv
<1> QED BY <1>1, InvAlways, PTL

\* trader/account_exclusivity.go:18 holds of every number of traders, accounts and
\* requests: the monitors of two objects never work on one exchange account at
\* once, however starts, stops, reloads and deletions of its traders interleave.
THEOREM OneProtectorPerAccount == CarefulUse => (Spec => []OneProtector)
<1> SUFFICES ASSUME CarefulUse PROVE Spec => []OneProtector
  OBVIOUS
<1> QED BY InvOneProtector, InvAlways, PTL

\* No object executes Run twice at once: the loader and the handlers that call Run
\* never both start it.
THEOREM OneRun == CarefulUse => (Spec => []OneRunPerInstance)
<1> SUFFICES ASSUME CarefulUse PROVE Spec => []OneRunPerInstance
  OBVIOUS
<1> QED BY InvOneRun, InvAlways, PTL

\* A trader that neither runs nor is being stopped owns no account, so another
\* trader of that account can take over.
THEOREM StoppedOwnsNothing == CarefulUse => (Spec => []InactiveOwnsNothing)
<1> SUFFICES ASSUME CarefulUse PROVE Spec => []InactiveOwnsNothing
  OBVIOUS
<1> QED BY InvInactive, InvAlways, PTL

\* The monitors of a stopped object wait on, or will next look at, a channel that
\* Stop has closed, so that none outlives the stop.
THEOREM StopReaches == CarefulUse => (Spec => []StopReachesMonitors)
<1> SUFFICES ASSUME CarefulUse PROVE Spec => []StopReachesMonitors
  OBVIOUS
<1> QED BY InvStopReaches, InvAlways, PTL
=============================================================================
