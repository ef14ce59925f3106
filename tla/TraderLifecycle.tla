--------------------------- MODULE TraderLifecycle ---------------------------
(***************************************************************************)
(* Starting, stopping, reloading and deleting traders: the HTTP handlers   *)
(* of api/handler_trader.go (and the model, exchange and strategy updates  *)
(* that reload traders), the TraderManager they call, AutoTrader.Run and   *)
(* AutoTrader.Stop with the goroutines between them, and the registry of   *)
(* trader/account_exclusivity.go that lets one trader per exchange account *)
(* run the protection monitors.                                            *)
(*                                                                         *)
(* Every mutex-protected section is one step; what a handler or a          *)
(* goroutine read in one section and uses in the next is in its record.    *)
(* An AutoTrader object is an instance: reloading a trader makes a new     *)
(* one.  A stop channel is named by the instance and the Run call that     *)
(* made it (0: the one made by NewAutoTrader).                             *)
(***************************************************************************)
EXTENDS Integers, Sequences, FiniteSets, SequencesExt

CONSTANTS
  Traders, Accounts,
  AccountOf,     \* the exchange account (exchangeID) of each trader
  Clients,       \* concurrent HTTP requests
  Ops,           \* the requests they make, a subset of AllOps
  Monitors,      \* drawdown monitor and protection reconciler
  Grid,          \* whether the strategies are grids
  Careful,       \* TRUE: see MayAsk
  None,          \* no client, no trader
  MaxInstances, MaxRuns, MaxRequests   \* bounds

AllOps == {"start", "stop", "update", "delete", "reload", "query"}

ASSUME LifecycleAssumption ==
  /\ IsFiniteSet(Traders) /\ AccountOf \in [Traders -> Accounts]
  /\ Ops \subseteq AllOps /\ {Grid, Careful} \subseteq BOOLEAN
  /\ None \notin Traders \cup Clients
  /\ {MaxInstances, MaxRuns, MaxRequests} \subseteq Nat
  /\ Cardinality(Traders) <= MaxInstances /\ Cardinality(Traders) <= MaxRuns

VARIABLES
  db,       \* the traders table: deleted, or its is_running column
  traders,  \* TraderManager.traders: the instance in memory, 0 when none
  mu,       \* the client that holds TraderManager.mu for longer than a step
  insts,    \* the AutoTrader objects made so far
  closed,   \* the stop channels that are closed
  runs,     \* the goroutines executing Run, and the monitors they started
  owners,   \* accountProtectionOwners
  clients,  \* what each HTTP handler is doing
  asked     \* requests made so far

vars == <<db, traders, mu, insts, closed, runs, owners, clients, asked>>

Instances == 0..MaxInstances
RunIds    == 1..MaxRuns

Instance == [trader  : Traders,
             running : BOOLEAN,                 \* isRunning
             channel : 0..MaxRuns,              \* stopMonitorCh
             owns    : BOOLEAN]                 \* ownsAccountProtection

StartUp == {"start", "channel", "join", "claim", "monitors", "sync"}
RunPc   == StartUp \cup {"grid", "first", "align", "recheck", "loop", "select", "done"}

Run == [inst    : 1..MaxInstances,
        pc      : RunPc,
        channel : 0..MaxRuns,                   \* the one its select waits on
        monitor : [Monitors -> {"off", "top", "select", "done"}],
        waits   : [Monitors -> 0..MaxRuns]]     \* the one its monitor waits on

Stopping == {"stop", "close", "wait", "release"}

Client == [pc     : {"idle", "lookup", "status", "remove", "unmap", "load", "fetch", "save"}
                    \cup Stopping,
           op     : AllOps,
           trader : Traders,
           inst   : Instances,                  \* the object it holds
           was    : BOOLEAN]                    \* wasRunning

-----------------------------------------------------------------------------
(* The manager *)

NewInstance(t) == [trader |-> t, running |-> FALSE, channel |-> 0, owns |-> FALSE]

NewRun(i) == [inst |-> i, pc |-> "start", channel |-> 0,
              monitor |-> [m \in Monitors |-> "off"], waits |-> [m \in Monitors |-> 0]]

\* Mutant: a loaded trader is started whatever the database says.
AlwaysStarts(t) == db[t] # "deleted"

\* `if traderCfg.IsRunning' at the end of addTraderFromStore.
AutoStarts(t) == db[t] = "running"

\* LoadUserTradersFromStore: every trader of the table that is not in memory.
Unloaded == {t \in Traders : db[t] # "deleted" /\ traders[t] = 0}
Missing  == SetToSeq(Unloaded)

InstanceOf(t) == Len(insts) + CHOOSE n \in DOMAIN Missing : Missing[n] = t

AutoRuns == LET started == SetToSeq({t \in Unloaded : AutoStarts(t)})
            IN [n \in DOMAIN started |-> NewRun(InstanceOf(started[n]))]

Load ==
  /\ Len(insts) + Len(Missing) <= MaxInstances
  /\ Len(runs) + Len(AutoRuns) <= MaxRuns
  /\ insts' = insts \o [n \in DOMAIN Missing |-> NewInstance(Missing[n])]
  /\ traders' = [t \in Traders |-> IF t \in Unloaded THEN InstanceOf(t) ELSE traders[t]]
  /\ runs' = runs \o AutoRuns

\* main.go: LoadTradersFromStore before the API server answers.
Init ==
  /\ db \in [Traders -> {"running", "stopped"}]
  /\ LET all    == SetToSeq(Traders)
         number == [t \in Traders |-> CHOOSE n \in DOMAIN all : all[n] = t]
         up     == SetToSeq({t \in Traders : AutoStarts(t)})
     IN /\ insts = [n \in DOMAIN all |-> NewInstance(all[n])]
        /\ traders = number
        /\ runs = [n \in DOMAIN up |-> NewRun(number[up[n]])]
  /\ mu = None /\ closed = {} /\ asked = 0
  /\ owners = [a \in Accounts |-> None]
  /\ \E t \in Traders, op \in Ops :
       clients = [c \in Clients |-> [pc |-> "idle", op |-> op, trader |-> t, inst |-> 0, was |-> FALSE]]

-----------------------------------------------------------------------------
(* AutoTrader.Run *)

Account(i) == AccountOf[insts[i].trader]

Move(r, pc) == runs' = [runs EXCEPT ![r].pc = pc]

\* isRunning = true
RunBegin(r) ==
  /\ runs[r].pc = "start"
  /\ insts' = [insts EXCEPT ![runs[r].inst].running = TRUE]
  /\ Move(r, "channel")
  /\ UNCHANGED <<db, traders, mu, closed, owners, clients, asked>>

\* stopMonitorCh = make(chan struct{})
RunChannel(r) ==
  /\ runs[r].pc = "channel"
  /\ insts' = [insts EXCEPT ![runs[r].inst].channel = r]
  /\ Move(r, "join")
  /\ UNCHANGED <<db, traders, mu, closed, owners, clients, asked>>

\* The state is loaded from the store, then monitorWg.Add(1).
RunJoin(r) ==
  /\ runs[r].pc = "join"
  /\ Move(r, "claim")
  /\ UNCHANGED <<db, traders, mu, insts, closed, owners, clients, asked>>

\* Mutant: the registry grants the account to whoever asks.
GrantedToAll(i) == TRUE

\* claimAccountProtectionOwnership
Granted(i) == owners[Account(i)] \in {None, insts[i].trader}

RunClaim(r) ==
  /\ runs[r].pc = "claim"
  /\ LET i == runs[r].inst
     IN /\ insts' = [insts EXCEPT ![i].owns = Granted(i)]
        /\ owners' = IF Granted(i) THEN [owners EXCEPT ![Account(i)] = insts[i].trader]
                                   ELSE owners
        /\ Move(r, IF Granted(i) THEN "monitors" ELSE "sync")
  /\ UNCHANGED <<db, traders, mu, closed, clients, asked>>

\* startDrawdownMonitor, startProtectionReconciler
RunMonitors(r) ==
  /\ runs[r].pc = "monitors"
  /\ runs' = [runs EXCEPT ![r].pc = "sync", ![r].monitor = [m \in Monitors |-> "top"]]
  /\ UNCHANGED <<db, traders, mu, insts, closed, owners, clients, asked>>

\* StartOrderSync (its goroutine is FillSync's), then the kind of strategy.
RunSync(r) ==
  /\ runs[r].pc = "sync"
  /\ Move(r, IF Grid THEN "grid" ELSE "first")
  /\ UNCHANGED <<db, traders, mu, insts, closed, owners, clients, asked>>

\* InitializeGrid fails: Run returns its error and leaves everything else on.
RunGrid(r) ==
  /\ runs[r].pc = "grid"
  /\ Move(r, "loop") \/ Move(r, "done")
  /\ UNCHANGED <<db, traders, mu, insts, closed, owners, clients, asked>>

\* The select of the first-run alignment evaluates its channel.
RunFirst(r) ==
  /\ runs[r].pc = "first"
  /\ runs' = [runs EXCEPT ![r].pc = "align", ![r].channel = insts[runs[r].inst].channel]
  /\ UNCHANGED <<db, traders, mu, insts, closed, owners, clients, asked>>

\* The timer fires, or a cycle of the ticker is run.
RunTimer(r) ==
  /\ \/ runs[r].pc = "align" /\ Move(r, "recheck")
     \/ runs[r].pc = "select" /\ Move(r, "loop")
  /\ UNCHANGED <<db, traders, mu, insts, closed, owners, clients, asked>>

RunStopped(r) ==
  /\ runs[r].pc \in {"align", "select"}
  /\ <<runs[r].inst, runs[r].channel>> \in closed
  /\ Move(r, "done")
  /\ UNCHANGED <<db, traders, mu, insts, closed, owners, clients, asked>>

\* isRunning is checked before the first cycle and before every select.
RunCheck(r) ==
  /\ runs[r].pc \in {"recheck", "loop"}
  /\ LET i == runs[r].inst
     IN runs' = [runs EXCEPT
          ![r].pc = IF ~insts[i].running THEN "done"
                    ELSE IF runs[r].pc = "recheck" THEN "loop" ELSE "select",
          ![r].channel = IF runs[r].pc = "loop" THEN insts[i].channel ELSE @]
  /\ UNCHANGED <<db, traders, mu, insts, closed, owners, clients, asked>>

RunStep(r) ==
  \/ RunBegin(r) \/ RunChannel(r) \/ RunJoin(r) \/ RunClaim(r) \/ RunMonitors(r)
  \/ RunSync(r) \/ RunGrid(r) \/ RunFirst(r) \/ RunTimer(r) \/ RunCheck(r)

-----------------------------------------------------------------------------
(* The monitors: `for { select { case <-ticker.C: ... case <-at.stopMonitorCh: } }' *)

MonitorSelect(r, m) ==
  /\ runs[r].monitor[m] = "top"
  /\ runs' = [runs EXCEPT ![r].monitor[m] = "select",
                          ![r].waits[m] = insts[runs[r].inst].channel]
  /\ UNCHANGED <<db, traders, mu, insts, closed, owners, clients, asked>>

MonitorTick(r, m) ==
  /\ runs[r].monitor[m] = "select"
  /\ runs' = [runs EXCEPT ![r].monitor[m] = "top"]
  /\ UNCHANGED <<db, traders, mu, insts, closed, owners, clients, asked>>

MonitorStopped(r, m) ==
  /\ runs[r].monitor[m] = "select"
  /\ <<runs[r].inst, runs[r].waits[m]>> \in closed
  /\ runs' = [runs EXCEPT ![r].monitor[m] = "done"]
  /\ UNCHANGED <<db, traders, mu, insts, closed, owners, clients, asked>>

-----------------------------------------------------------------------------
(* The requests *)

Free(c) == mu \in {None, c}

Go(c, pc) == clients' = [clients EXCEPT ![c].pc = pc]

\* A careful user: one change per trader at a time, and none while a Run of the
\* trader is still starting up; queries at any time.  Nothing in the code asks
\* for this.
MayAsk(op, t) ==
  Careful /\ op # "query" =>
    /\ \A c \in Clients :
         clients[c].pc # "idle" /\ clients[c].op # "query" => clients[c].trader # t
    /\ \A r \in DOMAIN runs :
         insts[runs[r].inst].trader = t => runs[r].pc \notin StartUp

\* A request arrives: the trader is looked up in the table (a query is not).
\* Delete deletes its row before anything else, reload knows its traders.
Ask(c, op, t) ==
  /\ clients[c].pc = "idle" /\ asked < MaxRequests /\ MayAsk(op, t)
  /\ op # "query" => db[t] # "deleted"
  /\ asked' = asked + 1
  /\ clients' = [clients EXCEPT ![c] =
                   [pc |-> IF op = "reload" THEN "remove" ELSE "lookup",
                    op |-> op, trader |-> t, inst |-> 0, was |-> FALSE]]
  /\ db' = IF op = "delete" THEN [db EXCEPT ![t] = "deleted"] ELSE db
  /\ UNCHANGED <<traders, mu, insts, closed, runs, owners>>

\* TraderManager.GetTrader
Lookup(c) ==
  /\ clients[c].pc = "lookup" /\ Free(c)
  /\ LET me == clients[c]
         i  == traders[me.trader]
     IN clients' = [clients EXCEPT ![c].inst = i, ![c].pc =
          IF i # 0 THEN IF me.op = "query" THEN "idle" ELSE "status"
          ELSE CASE me.op \in {"query", "start"} -> "load"
                 [] me.op = "stop"               -> "idle"
                 [] OTHER                        -> "remove"]
  /\ UNCHANGED <<db, traders, mu, insts, closed, runs, owners, asked>>

\* GetStatus()["is_running"] of the object found.
Status(c) ==
  /\ clients[c].pc = "status"
  /\ LET running == insts[clients[c].inst].running
         op      == clients[c].op
     IN clients' = [clients EXCEPT ![c].was = running, ![c].pc =
          CASE op = "start"  -> IF running THEN "idle" ELSE "remove"
            [] op = "stop"   -> IF running THEN "stop" ELSE "idle"
            [] op = "update" -> "remove"
            [] op = "delete" -> IF running THEN "stop" ELSE "remove"]
  /\ UNCHANGED <<db, traders, mu, insts, closed, runs, owners, asked>>

\* Where a handler goes when RemoveTrader has returned.
AfterRemove(c) == IF clients[c].op = "delete" THEN "idle" ELSE "load"

\* The lock when RemoveTrader has returned: released by its defer.
Unlocked(c) == None

\* RemoveTrader takes the lock and keeps it while it stops the trader.
RemoveTrader(c) ==
  /\ clients[c].pc = "remove" /\ Free(c)
  /\ LET i == traders[clients[c].trader]
     IN IF i = 0
        THEN mu' = Unlocked(c) /\ Go(c, AfterRemove(c))
        ELSE /\ mu' = c
             /\ clients' = [clients EXCEPT ![c].inst = i,
                              ![c].pc = IF insts[i].running THEN "stop" ELSE "unmap"]
  /\ UNCHANGED <<db, traders, insts, closed, runs, owners, asked>>

Unmap(c) ==
  /\ clients[c].pc = "unmap"
  /\ traders' = [traders EXCEPT ![clients[c].trader] = 0]
  /\ mu' = Unlocked(c)
  /\ Go(c, AfterRemove(c))
  /\ UNCHANGED <<db, insts, closed, runs, owners, asked>>

LoadTraders(c) ==
  /\ clients[c].pc = "load" /\ Free(c)
  /\ Load
  /\ Go(c, IF clients[c].op = "start" \/ (clients[c].op = "update" /\ clients[c].was)
           THEN "fetch" ELSE "idle")
  /\ UNCHANGED <<db, mu, closed, owners, asked>>

\* GetTrader again, and `go trader.Run()' (its goroutine and the reply).
FetchAndRun(c) ==
  /\ clients[c].pc = "fetch" /\ Free(c)
  /\ LET i == traders[clients[c].trader]
     IN IF i = 0
        THEN Go(c, "idle") /\ UNCHANGED runs
        ELSE /\ Len(runs) < MaxRuns
             /\ runs' = Append(runs, NewRun(i))
             /\ Go(c, IF clients[c].op = "start" THEN "save" ELSE "idle")
  /\ UNCHANGED <<db, traders, mu, insts, closed, owners, asked>>

\* UpdateStatus
Save(c) ==
  /\ clients[c].pc = "save"
  /\ db' = [db EXCEPT ![clients[c].trader] =
              IF @ = "deleted" THEN @
              ELSE IF clients[c].op = "start" THEN "running" ELSE "stopped"]
  /\ Go(c, "idle")
  /\ UNCHANGED <<traders, mu, insts, closed, runs, owners, asked>>

-----------------------------------------------------------------------------
(* AutoTrader.Stop, within the handler's goroutine *)

\* Where the caller of Stop goes when it has returned.
AfterStop(c) == IF mu = c THEN "unmap" ELSE IF clients[c].op = "stop" THEN "save" ELSE "remove"

StopBegin(c) ==
  /\ clients[c].pc = "stop"
  /\ LET i == clients[c].inst
     IN IF insts[i].running
        THEN insts' = [insts EXCEPT ![i].running = FALSE] /\ Go(c, "close")
        ELSE UNCHANGED insts /\ Go(c, AfterStop(c))
  /\ UNCHANGED <<db, traders, mu, closed, runs, owners, asked>>

\* Mutant: the channel of NewAutoTrader is closed, not the current one.
FirstChannel(i) == 0

StopChannel(i) == insts[i].channel

\* close(stopMonitorCh).  Closing it twice panics: the request is given up and
\* RemoveTrader's deferred unlock runs.
StopClose(c) ==
  /\ clients[c].pc = "close"
  /\ LET ch == <<clients[c].inst, StopChannel(clients[c].inst)>>
     IN IF ch \in closed
        THEN UNCHANGED closed /\ Go(c, "idle") /\ mu' = IF mu = c THEN None ELSE mu
        ELSE closed' = closed \cup {ch} /\ Go(c, "wait") /\ UNCHANGED mu
  /\ UNCHANGED <<db, traders, insts, runs, owners, asked>>

\* Mutant: a Run that returns without Done is waited for.
CountedForever(r) == runs[r].pc \notin {"start", "channel", "join"}

\* Between monitorWg.Add(1) and the deferred Done.
CountsInWg(r) == runs[r].pc \notin {"start", "channel", "join", "done"}

Monitoring(r) == \E m \in Monitors : runs[r].monitor[m] \in {"top", "select"}

\* monitorWg.Wait()
StopWait(c) ==
  /\ clients[c].pc = "wait"
  /\ \A r \in DOMAIN runs : runs[r].inst = clients[c].inst => ~CountsInWg(r) /\ ~Monitoring(r)
  /\ Go(c, "release")
  /\ UNCHANGED <<db, traders, mu, insts, closed, runs, owners, asked>>

\* Mutant: the registry keeps the entry.
KeepOwner(i) == owners[Account(i)]

\* releaseAccountProtectionOwnership
Released(i) == IF owners[Account(i)] = insts[i].trader THEN None ELSE owners[Account(i)]

StopRelease(c) ==
  /\ clients[c].pc = "release"
  /\ LET i == clients[c].inst
     IN IF insts[i].owns
        THEN /\ owners' = [owners EXCEPT ![Account(i)] = Released(i)]
             /\ insts' = [insts EXCEPT ![i].owns = FALSE]
        ELSE UNCHANGED <<owners, insts>>
  /\ Go(c, AfterStop(c))
  /\ UNCHANGED <<db, traders, mu, closed, runs, asked>>

ClientStep(c) ==
  \/ Lookup(c) \/ Status(c) \/ RemoveTrader(c) \/ Unmap(c) \/ LoadTraders(c) \/ FetchAndRun(c)
  \/ Save(c) \/ StopBegin(c) \/ StopClose(c) \/ StopWait(c) \/ StopRelease(c)

Next ==
  \/ \E c \in Clients : ClientStep(c) \/ \E op \in Ops, t \in Traders : Ask(c, op, t)
  \/ \E r \in DOMAIN runs : \/ RunStep(r) \/ RunStopped(r)
                            \/ \E m \in Monitors : \/ MonitorSelect(r, m) \/ MonitorTick(r, m)
                                                   \/ MonitorStopped(r, m)

Spec == Init /\ [][Next]_vars

\* Goroutines are scheduled, tickers fire, and a select whose stop channel stays
\* closed takes it in the end (Go chooses at random among the ready cases).
FairSpec ==
  /\ Spec
  /\ \A c \in Clients : WF_vars(ClientStep(c))
  /\ \A r \in RunIds : /\ WF_vars(r \in DOMAIN runs /\ RunStep(r))
                       /\ \A m \in Monitors :
                            /\ WF_vars(r \in DOMAIN runs /\ MonitorSelect(r, m))
                            /\ WF_vars(r \in DOMAIN runs /\ MonitorTick(r, m))
                            /\ SF_vars(r \in DOMAIN runs /\ MonitorStopped(r, m))

-----------------------------------------------------------------------------
(* Properties *)

\* The declared types; the lock is only held by a handler inside RemoveTrader.
TypeOK ==
  /\ db \in [Traders -> {"deleted", "running", "stopped"}]
  /\ traders \in [Traders -> 0..Len(insts)]
  /\ mu \in Clients \cup {None}
  /\ mu # None => clients[mu].pc \in Stopping \cup {"unmap"}
  /\ insts \in Seq(Instance) /\ Len(insts) <= MaxInstances
  /\ closed \subseteq (1..MaxInstances) \X (0..MaxRuns)
  /\ runs \in Seq(Run) /\ Len(runs) <= MaxRuns
  /\ owners \in [Accounts -> Traders \cup {None}]
  /\ clients \in [Clients -> Client]
  /\ asked \in 0..MaxRequests

\* "at most ONE active instance owns an exchangeID's protection lifecycle"
\* (trader/account_exclusivity.go:18): two instances of one account never run
\* their monitors at the same time.
OneProtector ==
  \A q, r \in DOMAIN runs :
    Monitoring(q) /\ Monitoring(r) /\ Account(runs[q].inst) = Account(runs[r].inst)
      => runs[q].inst = runs[r].inst

\* A trader object executes Run at most once at a time: loading "fresh config
\* without accidentally spawning an extra Run goroutine"
\* (manager/trader_manager.go, end of addTraderFromStore).
OneRunPerInstance ==
  \A q, r \in DOMAIN runs :
    q # r /\ runs[q].inst = runs[r].inst => "done" \in {runs[q].pc, runs[r].pc}

Active(t) ==
  \/ \E r \in DOMAIN runs : insts[runs[r].inst].trader = t
                            /\ (runs[r].pc # "done" \/ Monitoring(r))
  \/ \E i \in DOMAIN insts : insts[i].trader = t /\ insts[i].running
  \/ \E c \in Clients : clients[c].pc \in Stopping /\ insts[clients[c].inst].trader = t

\* Stop gives the account back "so a future instance on the same exchange
\* account can take over" (Stop's comment): a trader that neither runs nor is
\* being stopped owns no account.
InactiveOwnsNothing ==
  \A a \in Accounts : owners[a] # None => Active(owners[a])

\* Stopping reaches the monitors: those of a stopped object wait on, or will
\* next look at, a closed channel, so that they end.
StopReachesMonitors ==
  \A r \in DOMAIN runs :
    LET i == runs[r].inst
    IN Monitoring(r) /\ ~insts[i].running
         /\ (\A c \in Clients : clients[c].pc = "close" => clients[c].inst # i)
       => <<i, insts[i].channel>> \in closed

\* Every request is answered: waiting for the monitors with the manager's lock
\* held does not block the others for ever.
RequestsEnd == \A c \in Clients : clients[c].pc # "idle" ~> clients[c].pc = "idle"
=============================================================================
