------------------------- MODULE TelegramBot_proofs -------------------------
(***************************************************************************)
(* Theorems about TelegramBot, for any chats, messages and tokens, and any *)
(* number of commands and restarts.                                        *)
(***************************************************************************)
EXTENDS TelegramBot, TLAPS

\* Appending an entry to a list adds it to the list's entries.
LEMMA AppendEntry ==
  ASSUME NEW S, NEW s \in Seq(S), NEW e \in S
  PROVE  Append(s, e) \in Seq(S) /\ ToSet(Append(s, e)) = ToSet(s) \cup {e}
<1>1. DOMAIN Append(s, e) = 1 .. Len(s) + 1 /\ DOMAIN s = 1 .. Len(s) /\ Len(s) \in Nat
  OBVIOUS
<1>2. \A i \in 1 .. Len(s) : Append(s, e)[i] = s[i]
  OBVIOUS
<1>3. Append(s, e)[Len(s) + 1] = e
  OBVIOUS
<1> QED BY <1>1, <1>2, <1>3 DEF ToSet

\* An empty memory has no entry.
LEMMA NoEntry == ToSet(<<>>) = {}
  BY DEF ToSet

Roles == {"user", "assistant"}
Compacting == {"compact_user", "compact_assistant"}

\* The entries of a typed memory are pairs of a message and a role.
LEMMA EntriesOfMemory ==
  ASSUME TypeOK
  PROVE  /\ memory.short \in Seq(Messages \X Roles)
         /\ ToSet(memory.short) \subseteq Messages \X Roles
         /\ memory.long \subseteq Messages
<1>1. memory.short \in Seq(Messages \X Roles) /\ memory.long \subseteq Messages
  BY DEF TypeOK, Memory, Roles
<1> QED BY <1>1 DEF ToSet

-----------------------------------------------------------------------------
(* Types and the lane *)

TurnInv == TypeOK /\ OneAtATime

\* What a bot starts from has its types.
LEMMA EmptyTypes == Empty \in Memory /\ Fresh \in Bot /\ Unsent \in Record
<1>1. <<>> \in Seq(Messages \X {"user", "assistant"})
  OBVIOUS
<1>2. Empty \in Memory
  BY <1>1 DEF Empty, Memory
<1>3. Fresh \in Bot
  BY DEF Fresh, Bot
<1>4. Unsent \in Record
  BY DEF Unsent, Record
<1> QED BY <1>2, <1>3, <1>4

\* The invariant of the turns holds at first.
LEMMA TurnInit == Init => TurnInv
<1> SUFFICES ASSUME Init PROVE TurnInv
  OBVIOUS
<1>2. TypeOK
  <2>1. db \in Db /\ bot \in Bot /\ memory \in Memory
    BY EmptyTypes DEF Init, Db
  <2>2. message \in [Messages -> Record] /\ (\A m \in Messages : message[m] = Unsent)
    BY EmptyTypes DEF Init
  <2>3. \A m \in Messages : message[m].history = {} /\ message[m].at = "unsent"
    BY <2>2 DEF Unsent
  <2>4. lane = NoMessage /\ starts \in 0 .. MaxStarts /\ restarts \in 0 .. MaxRestarts
    BY BotAssumption DEF Init
  <2>5. signal \in BOOLEAN
    BY DEF Init
  <2> QED BY <2>1, <2>2, <2>3, <2>4, <2>5 DEF TypeOK
<1>3. OneAtATime
  BY BotAssumption DEF Init, OneAtATime, Unsent, Working
<1> QED BY <1>2, <1>3 DEF TurnInv

\* What a remembered message adds to the memory, and to the message's place.
LEMMA AddOK ==
  ASSUME TypeOK, NEW m \in Messages, NEW role \in Roles, NEW next, Add(m, role, next)
  PROVE  /\ memory' \in Memory
         /\ memory'.long = memory.long
         /\ ToSet(memory'.short) = ToSet(memory.short) \cup {<<m, role>>}
         /\ \/ message' = [message EXCEPT ![m].at = next]
            \/ \E h \in SUBSET Messages :
                 /\ m \in h
                 /\ {e[1] : e \in ToSet(memory'.short)} \subseteq h
                 /\ message' = [message EXCEPT ![m] = [@ EXCEPT
                      !.at = IF role = "user" THEN "compact_user" ELSE "compact_assistant",
                      !.history = h]]
<1> DEFINE e0 == <<m, role>>
           h  == {e[1] : e \in Entries \cup {e0}}
<1>1. e0 \in Messages \X Roles
  OBVIOUS
<1>2. memory' = [memory EXCEPT !.short = Append(@, e0)]
  BY DEF Add
<1>3. /\ Append(memory.short, e0) \in Seq(Messages \X Roles)
      /\ ToSet(Append(memory.short, e0)) = ToSet(memory.short) \cup {e0}
  BY <1>1, EntriesOfMemory, AppendEntry
<1>4. memory \in Memory
  BY DEF TypeOK
<1>5. /\ memory'.short = Append(memory.short, e0) /\ memory'.long = memory.long
      /\ memory' \in Memory
  BY <1>2, <1>3, <1>4 DEF Memory, Roles
<1>6. h \subseteq Messages /\ m \in h
  <2>1. \A e \in Entries \cup {e0} : e[1] \in Messages
    BY EntriesOfMemory DEF Entries
  <2>2. e0[1] = m /\ e0 \in Entries \cup {e0}
    OBVIOUS
  <2> QED BY <2>1, <2>2
<1>7. {e[1] : e \in ToSet(memory'.short)} \subseteq h
  BY <1>3, <1>5 DEF Entries
<1>8. \/ message' = [message EXCEPT ![m].at = next]
      \/ message' = [message EXCEPT ![m] = [@ EXCEPT
           !.at = IF role = "user" THEN "compact_user" ELSE "compact_assistant",
           !.history = h]]
  BY DEF Add
<1> QED BY <1>3, <1>5, <1>6, <1>7, <1>8

\* Every step keeps it.
LEMMA TurnStep == TurnInv /\ [Next]_vars => TurnInv'
<1> SUFFICES ASSUME TurnInv, [Next]_vars PROVE TurnInv'
  OBVIOUS
<1> USE DEF TurnInv
<1>a. message \in [Messages -> Record] /\ (\A m \in Messages : message[m] \in Record)
  BY DEF TypeOK
<1>b. \A m \in Messages : (message[m].history # {}) <=> message[m].at \in Compacting
  BY DEF TypeOK, Compacting
<1>1. CASE UNCHANGED vars
  BY <1>1 DEF vars, TypeOK, OneAtATime
<1>2. CASE Supervise
  <2>a. bot \in Bot /\ db \in Db /\ signal \in BOOLEAN
    BY DEF TypeOK
  <2>1. bot' \in Bot /\ signal' \in BOOLEAN
    <3>1. CASE ReadToken
      BY <2>a, <3>1 DEF ReadToken, Bot, Db
    <3>2. CASE WaitOrRun
      BY <2>a, <3>2 DEF WaitOrRun, Bot
    <3>3. CASE TakeSignal
      BY <2>a, <3>3 DEF TakeSignal, Bot
    <3>4. CASE Launch
      BY <2>a, <3>4 DEF Launch, BoundChat, Bot, Db
    <3> QED BY <1>2, <3>1, <3>2, <3>3, <3>4 DEF Supervise
  <2>2. UNCHANGED <<db, lane, memory, message, starts, restarts>>
    BY <1>2 DEF Supervise, ReadToken, WaitOrRun, TakeSignal, Launch
  <2> QED BY <2>1, <2>2 DEF TypeOK, OneAtATime
<1>3. ASSUME NEW t \in Tokens, SaveToken(t) PROVE TurnInv'
  <2>1. db' \in Db /\ signal' = TRUE /\ UNCHANGED <<bot, lane, memory, message, starts, restarts>>
    BY <1>3 DEF SaveToken, Signal, TypeOK, Db
  <2> QED BY <2>1 DEF TypeOK, OneAtATime
<1>4. CASE Unbind \/ Register \/ Choice
  <2>1. db' \in Db /\ bot' \in Bot /\ UNCHANGED <<signal, lane, memory, message, starts, restarts>>
    BY <1>4 DEF Unbind, Register, Choice, TypeOK, Db, Bot
  <2> QED BY <2>1 DEF TypeOK, OneAtATime
<1>5. CASE Reset
  <2>1. memory' \in Memory
    BY <1>5 DEF Reset, Empty, Memory
  <2>2. starts' \in 0 .. MaxStarts
    BY <1>5, BotAssumption DEF Reset, TypeOK
  <2>3. bot' \in Bot
    BY <1>5 DEF Reset, TypeOK, Bot
  <2> QED BY <1>5, <2>1, <2>2, <2>3 DEF Reset, TypeOK, OneAtATime
<1>6. CASE Restart
  <2>0. restarts < MaxRestarts /\ restarts' = restarts + 1
    BY <1>6 DEF Restart
  <2>a. restarts \in 0 .. MaxRestarts
    BY DEF TypeOK
  <2>1. /\ bot' = Fresh /\ memory' = Empty /\ lane' = NoMessage /\ signal' = FALSE
        /\ db' = db /\ starts' = starts
        /\ message' = [m \in Messages |-> IF At(m, "unsent") THEN Unsent
                                          ELSE [message[m] EXCEPT !.at = "lost", !.history = {}]]
    BY <1>6 DEF Restart
  <2>2. memory' \in Memory /\ bot' \in Bot
    <3>1. Empty \in Memory /\ Fresh \in Bot
      BY EmptyTypes
    <3> QED BY <2>1, <3>1
  <2>3. restarts' \in 0 .. MaxRestarts
    BY <2>0, <2>a, BotAssumption
  <2>4. \A m \in Messages : /\ message'[m].at \in {"unsent", "lost"} /\ message'[m].history = {}
                            /\ message'[m] \in Record
    <3> TAKE m \in Messages
    <3>1. message[m] \in Record /\ Unsent \in Record
      BY <1>a, EmptyTypes
    <3>2. /\ [message[m] EXCEPT !.at = "lost", !.history = {}] \in Record
          /\ [message[m] EXCEPT !.at = "lost", !.history = {}].at = "lost"
          /\ [message[m] EXCEPT !.at = "lost", !.history = {}].history = {}
      BY <3>1 DEF Record, Settled
    <3>3. message'[m] = Unsent \/ message'[m] = [message[m] EXCEPT !.at = "lost", !.history = {}]
      BY <2>1
    <3>4. Unsent.at = "unsent" /\ Unsent.history = {}
      BY DEF Unsent
    <3> QED BY <3>1, <3>2, <3>3, <3>4
  <2>5. message' \in [Messages -> Record]
    BY <2>1, <2>4
  <2>6. OneAtATime'
    BY <2>1, <2>4, BotAssumption DEF OneAtATime, Working
  <2>7. TypeOK'
    BY <2>1, <2>2, <2>3, <2>4, <2>5 DEF TypeOK
  <2> QED BY <2>6, <2>7
<1>7. ASSUME NEW c \in Chats, Lang(c) \/ Bind(c) PROVE TurnInv'
  <2>1. db' \in Db /\ bot' \in Bot /\ UNCHANGED <<signal, lane, memory, message, starts, restarts>>
    <3>a. bot \in Bot /\ db \in Db
      BY DEF TypeOK
    <3>1. CASE Lang(c)
      <4>1. bot' = [bot EXCEPT !.awaiting = TRUE]
            /\ UNCHANGED <<db, signal, lane, memory, message, starts, restarts>>
        BY <3>1 DEF Lang
      <4>2. [bot EXCEPT !.awaiting = TRUE] \in Bot
        BY <3>a DEF Bot
      <4> QED BY <3>a, <4>1, <4>2
    <3>2. CASE Bind(c)
      <4>1. /\ db' = [db EXCEPT !.chat = c] /\ bot' = [bot EXCEPT !.allowed = c, !.user = TRUE]
            /\ UNCHANGED <<signal, lane, memory, message, starts, restarts>>
        BY <3>2 DEF Bind
      <4>2. [db EXCEPT !.chat = c] \in Db
        BY <3>a DEF Db
      <4>3. [bot EXCEPT !.allowed = c, !.user = TRUE] \in Bot
        BY <3>a DEF Bot
      <4> QED BY <4>1, <4>2, <4>3
    <3> QED BY <1>7, <3>1, <3>2
  <2> QED BY <2>1 DEF TypeOK, OneAtATime
<1>8. ASSUME NEW c \in Chats, NEW m \in Messages, Send(c, m) PROVE TurnInv'
  <2>1. message' = [message EXCEPT ![m] = [@ EXCEPT !.chat = c, !.at = "waiting"]]
        /\ message[m].at = "unsent" /\ UNCHANGED <<db, signal, lane, memory, starts, restarts>>
    BY <1>8 DEF Send
  <2>2. message' \in [Messages -> Record]
    <3>1. [message[m] EXCEPT !.chat = c, !.at = "waiting"] \in Record
      BY <1>a DEF Record
    <3> QED BY <1>a, <2>1, <3>1
  <2>3. \A n \in Messages : (message'[n].history # {}) <=> message'[n].at \in Compacting
    BY <1>a, <1>b, <2>1 DEF Compacting, Record
  <2>4. OneAtATime'
    BY <1>a, <2>1 DEF OneAtATime, Working, Record
  <2>5. bot' \in Bot
    BY <1>8 DEF Send, TypeOK, Bot
  <2> QED BY <2>1, <2>2, <2>3, <2>4, <2>5 DEF TypeOK, Compacting
<1>9. ASSUME NEW m \in Messages, Work(m) PROVE TurnInv'
  <2> DEFINE Shape == /\ message' \in [Messages -> Record]
                      /\ \A n \in Messages : (message'[n].history # {}) <=> message'[n].at \in Compacting
  <2>0. UNCHANGED <<db, signal, bot, starts, restarts>>
    BY <1>9 DEF Work, EnterLane, LaneTimeout, NoAnswer, Answer, Finish, Compact, LeaveLane
  <2>1. CASE EnterLane(m)
    <3>1. message' = [message EXCEPT ![m].at = "thinking"] /\ lane = NoMessage /\ lane' = m
          /\ message[m].at = "waiting" /\ memory' = memory
      BY <2>1 DEF EnterLane, LaneFree, Goes, At
    <3>2. Shape
      BY <1>a, <1>b, <3>1 DEF Compacting, Working, Settled, Record
    <3>3. OneAtATime'
      BY <1>a, <3>1, BotAssumption DEF OneAtATime, Working, Record
    <3> QED BY <2>0, <3>1, <3>2, <3>3 DEF TypeOK, Compacting
  <2>2. CASE LaneTimeout(m)
    <3>1. message' = [message EXCEPT ![m].at = "declined"] /\ lane' = lane
          /\ message[m].at = "waiting" /\ memory' = memory
      BY <2>2 DEF LaneTimeout, Goes, At
    <3>2. Shape
      BY <1>a, <1>b, <3>1 DEF Compacting, Settled, Record
    <3>3. OneAtATime'
      BY <1>a, <3>1 DEF OneAtATime, Working, Record
    <3> QED BY <2>0, <3>1, <3>2, <3>3 DEF TypeOK, Compacting
  <2>3. CASE NoAnswer(m) \/ LeaveLane(m)
    <3>1. PICK p \in {"failed", "answered"} : message' = [message EXCEPT ![m].at = p]
      BY <2>3 DEF NoAnswer, LeaveLane, Goes
    <3>2. lane' = NoMessage /\ message[m].at \in {"thinking", "leaving"} /\ memory' = memory
      BY <2>3 DEF NoAnswer, LeaveLane, At
    <3>3. Shape
      BY <1>a, <1>b, <3>1, <3>2 DEF Compacting, Settled, Record
    <3>4. OneAtATime'
      BY <1>a, <3>1, <3>2, BotAssumption DEF OneAtATime, Working, Record
    <3> QED BY <2>0, <3>2, <3>3, <3>4 DEF TypeOK, Compacting
  <2>4. CASE Answer(m) \/ Finish(m)
    <3>1. PICK role \in Roles, next \in {"answering", "leaving"} : Add(m, role, next)
      BY <2>4 DEF Answer, Finish, Roles
    <3>2. lane' = lane /\ message[m].at \in {"thinking", "answering"}
      BY <2>4 DEF Answer, Finish, At
    <3>3. memory' \in Memory
      BY <3>1, AddOK DEF Roles
    <3>4. \/ message' = [message EXCEPT ![m].at = next]
          \/ \E h \in SUBSET Messages : m \in h /\ message' = [message EXCEPT ![m] = [@ EXCEPT
               !.at = IF role = "user" THEN "compact_user" ELSE "compact_assistant",
               !.history = h]]
      BY <3>1, AddOK
    <3>5. Shape /\ OneAtATime'
      <4>1. CASE message' = [message EXCEPT ![m].at = next]
        BY <1>a, <1>b, <3>2, <4>1 DEF Compacting, Working, Settled, OneAtATime, Record
      <4>2. ASSUME NEW h \in SUBSET Messages, m \in h, NEW p \in Compacting,
                   message' = [message EXCEPT ![m] = [@ EXCEPT !.at = p, !.history = h]]
            PROVE  Shape /\ OneAtATime'
        BY <1>a, <1>b, <3>2, <4>2 DEF Compacting, Working, Settled, OneAtATime, Record
      <4> QED BY <3>4, <4>1, <4>2 DEF Compacting
    <3> QED BY <2>0, <3>2, <3>3, <3>5 DEF TypeOK, Compacting
  <2>5. CASE Compact(m)
    <3>1. PICK p \in {"answering", "leaving"} :
            message' = [message EXCEPT ![m] = [@ EXCEPT !.at = p, !.history = {}]]
      BY <2>5 DEF Compact
    <3>2. lane' = lane /\ message[m].at \in Compacting
      BY <2>5 DEF Compact, At, Compacting
    <3>3. memory' \in Memory
      <4>1. message[m].history \subseteq Messages
        BY <1>a DEF Record
      <4>2. memory' = memory \/ memory' = [long |-> memory.long \cup message[m].history, short |-> <<>>]
        BY <2>5 DEF Compact, Summarised
      <4>3. memory \in Memory /\ memory.long \subseteq Messages
        BY DEF TypeOK, Memory
      <4>4. <<>> \in Seq(Messages \X {"user", "assistant"})
        OBVIOUS
      <4>5. [long |-> memory.long \cup message[m].history, short |-> <<>>] \in Memory
        BY <4>1, <4>3, <4>4 DEF Memory
      <4> QED BY <4>2, <4>3, <4>5
    <3>4. Shape /\ OneAtATime'
      BY <1>a, <1>b, <3>1, <3>2 DEF Compacting, Working, Settled, OneAtATime, Record
    <3> QED BY <2>0, <3>2, <3>3, <3>4 DEF TypeOK, Compacting
  <2> QED BY <1>9, <2>1, <2>2, <2>3, <2>4, <2>5 DEF Work
<1> QED BY <1>1, <1>2, <1>3, <1>4, <1>5, <1>6, <1>7, <1>8, <1>9 DEF Next, Users

\* The types hold, and at most one message of the chat is being answered,
\* whoever waits, times out, sends /start or restarts the process.
THEOREM MessagesTakeTurns == Spec => [](TypeOK /\ OneAtATime)
<1>1. TurnInv <=> TypeOK /\ OneAtATime
  BY DEF TurnInv
<1>2. Spec => []TurnInv
  BY TurnInit, TurnStep, PTL DEF Spec
<1> QED BY <1>1, <1>2, PTL

-----------------------------------------------------------------------------
(* The owner *)

Taken(m) == message[m].at \notin {"unsent", "lost"}

\* Messages are taken by a running bot only, and from a chat.
OwnerInv ==
  /\ bot.at # "up" => \A m \in Messages : ~Taken(m)
  /\ \A m \in Messages : Taken(m) => message[m].chat \in Chats
  /\ OneOwner

\* There is one owner at most at first.
LEMMA OwnerInit == Init => OwnerInv
  BY DEF Init, OwnerInv, OneOwner, Taken, Fresh, Unsent

\* The work on a message takes no message and changes no chat.
LEMMA WorkKeepsChats ==
  ASSUME TypeOK, NEW m \in Messages, Work(m)
  PROVE  /\ UNCHANGED <<db, signal, bot, starts, restarts>>
         /\ \A n \in Messages : message'[n].chat = message[n].chat /\ (Taken(n)' => Taken(n))
<1>1. UNCHANGED <<db, signal, bot, starts, restarts>>
  BY DEF Work, EnterLane, LaneTimeout, NoAnswer, Answer, Finish, Compact, LeaveLane
<1>2. message \in [Messages -> Record]
  BY DEF TypeOK
<1>3. Taken(m)
  BY DEF Work, EnterLane, LaneTimeout, NoAnswer, Answer, Finish, Compact, LeaveLane, At, Taken
<1>4. message'[m].chat = message[m].chat /\ \A n \in Messages : n # m => message'[n] = message[n]
  <2>1. CASE EnterLane(m) \/ LaneTimeout(m) \/ NoAnswer(m) \/ LeaveLane(m)
    BY <1>2, <2>1 DEF EnterLane, LaneTimeout, NoAnswer, LeaveLane, Goes, Record
  <2>2. CASE Answer(m) \/ Finish(m)
    <3>1. PICK role \in Roles, next \in {"answering", "leaving"} : Add(m, role, next)
      BY <2>2 DEF Answer, Finish, Roles
    <3>2. CASE message' = [message EXCEPT ![m].at = next]
      BY <1>2, <3>2 DEF Record
    <3>3. ASSUME NEW h, message' = [message EXCEPT ![m] = [@ EXCEPT
                    !.at = IF role = "user" THEN "compact_user" ELSE "compact_assistant",
                    !.history = h]]
          PROVE  message'[m].chat = message[m].chat /\ \A n \in Messages : n # m => message'[n] = message[n]
      <4> DEFINE place == IF role = "user" THEN "compact_user" ELSE "compact_assistant"
                 r == message[m]
      <4>1. message' = [message EXCEPT ![m] = [r EXCEPT !.at = place, !.history = h]]
        BY <1>2, <3>3
      <4>2. r \in Record
        BY <1>2
      <4>3. [r EXCEPT !.at = place, !.history = h].chat = r.chat
        <5> HIDE DEF place, r
        <5> QED BY <4>2 DEF Record
      <4>4. message'[m] = [r EXCEPT !.at = place, !.history = h] /\ \A n \in Messages : n # m => message'[n] = message[n]
        <5> HIDE DEF place, r
        <5> QED BY <1>2, <4>1
      <4> QED BY <4>3, <4>4
    <3>4. \/ message' = [message EXCEPT ![m].at = next]
          \/ \E h : message' = [message EXCEPT ![m] = [@ EXCEPT
                    !.at = IF role = "user" THEN "compact_user" ELSE "compact_assistant",
                    !.history = h]]
      BY <3>1 DEF Add
    <3> QED BY <3>2, <3>3, <3>4
  <2>3. CASE Compact(m)
    BY <1>2, <2>3 DEF Compact, Record
  <2> QED BY <2>1, <2>2, <2>3 DEF Work
<1> QED BY <1>1, <1>3, <1>4 DEF Taken

\* Every step keeps one owner at most.
LEMMA OwnerStep == TypeOK /\ OwnerInv /\ [Next]_vars => OwnerInv'
<1> SUFFICES ASSUME TypeOK, OwnerInv, [Next]_vars PROVE OwnerInv'
  OBVIOUS
<1>a. message \in [Messages -> Record] /\ bot \in Bot /\ db \in Db
  BY DEF TypeOK
<1>1. CASE UNCHANGED vars
  BY <1>1 DEF vars, OwnerInv, OneOwner, Taken, At
<1>2. CASE Supervise
  <2>1. message' = message /\ db' = db /\ bot.at # "up"
    BY <1>2 DEF Supervise, ReadToken, WaitOrRun, TakeSignal, Launch
  <2>2. bot'.at = "up" => bot'.allowed = db.chat
    BY <1>2, <1>a DEF Supervise, ReadToken, WaitOrRun, TakeSignal, Launch, BoundChat, Bot
  <2> QED BY <2>1, <2>2 DEF OwnerInv, OneOwner, Taken, At
<1>3. ASSUME NEW t \in Tokens, SaveToken(t) PROVE OwnerInv'
  <2>1. message' = message /\ bot' = bot /\ db'.chat = db.chat
    BY <1>3, <1>a DEF SaveToken, Db
  <2> QED BY <2>1 DEF OwnerInv, OneOwner, Taken, At
<1>4. CASE Unbind \/ Register
  <2>1. message' = message /\ bot' = bot /\ db'.chat \in {db.chat, NoChat}
    BY <1>4, <1>a DEF Unbind, Register, Db
  <2> QED BY <2>1 DEF OwnerInv, OneOwner, Taken, At
<1>5. ASSUME NEW c, Choice \/ Reset \/ Lang(c) PROVE OwnerInv'
  <2>1. message' = message /\ bot'.at = bot.at /\ bot'.allowed = bot.allowed /\ db' = db
    BY <1>5, <1>a DEF Choice, Reset, Lang, Bot
  <2> QED BY <2>1 DEF OwnerInv, OneOwner, Taken, At
<1>6. CASE Restart
  <2>1. bot' = Fresh /\ \A m \in Messages : message'[m].at \in {"unsent", "lost"}
    BY <1>6, <1>a DEF Restart, At, Unsent, Record
  <2> QED BY <2>1 DEF OwnerInv, OneOwner, Taken, Fresh
<1>7. ASSUME NEW c \in Chats, Bind(c) PROVE OwnerInv'
  <2>1. message' = message /\ bot'.at = bot.at /\ bot'.allowed = c /\ db'.chat = c
        /\ bot.allowed = NoChat /\ bot.at = "up"
    BY <1>7, <1>a DEF Bind, Due, Bot, Db
  <2>2. \A m \in Messages : ~Taken(m)
    BY <2>1, BotAssumption DEF OwnerInv, OneOwner, Taken, At
  <2> QED BY <2>1, <2>2 DEF OwnerInv, OneOwner, Taken, At
<1>8. ASSUME NEW c \in Chats, NEW m \in Messages, Send(c, m) PROVE OwnerInv'
  <2>1. /\ message' = [message EXCEPT ![m] = [@ EXCEPT !.chat = c, !.at = "waiting"]]
        /\ c = bot.allowed /\ bot'.allowed = bot.allowed /\ bot'.at = bot.at /\ bot.at = "up"
        /\ db' = db
    BY <1>8, <1>a DEF Send, Due, Bot
  <2>2. /\ \A n \in Messages : n # m => message'[n] = message[n]
        /\ message'[m].chat = c
    BY <1>a, <2>1 DEF Record
  <2> QED BY <2>1, <2>2 DEF OwnerInv, OneOwner, Taken, At
<1>9. ASSUME NEW m \in Messages, Work(m) PROVE OwnerInv'
  <2>1. /\ UNCHANGED <<db, bot>>
        /\ \A n \in Messages : message'[n].chat = message[n].chat /\ (Taken(n)' => Taken(n))
    BY <1>9, WorkKeepsChats
  <2> QED BY <2>1 DEF OwnerInv, OneOwner, Taken, At
<1> QED BY <1>1, <1>2, <1>3, <1>4, <1>5, <1>6, <1>7, <1>8, <1>9 DEF Next, Users

\* A running bot obeys one chat, the one its database names if it names one,
\* and every message it took came from it, however binding, unbinding, tokens
\* and restarts interleave.
THEOREM BotHasOneOwner == Spec => []OneOwner
<1>1. OwnerInv => OneOwner
  BY DEF OwnerInv
<1>2. Spec => [](TypeOK /\ OneAtATime)
  BY MessagesTakeTurns
<1> QED BY <1>1, <1>2, OwnerInit, OwnerStep, PTL DEF Spec

-----------------------------------------------------------------------------
(* The memory *)

Holds(m, role) == <<m, role>> \in ToSet(memory.short)

\* What is remembered of a message at each place of its way.
Kept(m) ==
  /\ message[m].at = "compact_user" => Holds(m, "user")
  /\ message[m].at = "answering" => m \in memory.long \/ Holds(m, "user")
  /\ message[m].at \in {"compact_assistant", "leaving", "answered"} =>
       m \in memory.long \/ (Holds(m, "user") /\ Holds(m, "assistant"))

\* A summary under way covers every entry it will replace.
Covers(m) ==
  message[m].at \in Compacting =>
    \A e \in ToSet(memory.short) : e[1] \in message[m].history

MemoryInv == starts = 0 => \A m \in Messages : Kept(m) /\ Covers(m)

\* Nothing is to be remembered at first.
LEMMA MemoryInit == Init => MemoryInv
  BY DEF Init, MemoryInv, Kept, Covers, Unsent, Compacting

\* Every step keeps what was said in the memory or in its summary.
LEMMA MemoryStep == TurnInv /\ MemoryInv /\ [Next]_vars => MemoryInv'
<1> SUFFICES ASSUME TurnInv, MemoryInv, [Next]_vars, starts' = 0, NEW m \in Messages
             PROVE  Kept(m)' /\ Covers(m)'
  BY DEF MemoryInv
<1>a. message \in [Messages -> Record] /\ starts \in 0 .. MaxStarts /\ TypeOK
  BY DEF TurnInv, TypeOK
<1>b. \A n \in Messages : message[n].at \in Working <=> lane = n
  BY DEF TurnInv, OneAtATime
<1>1. CASE UNCHANGED <<message, memory, starts>>
  BY <1>1 DEF MemoryInv, Kept, Covers, Holds
<1>2. CASE Reset
  BY <1>2, <1>a, BotAssumption DEF Reset
<1>3. CASE Restart
  <2>1. message'[m].at \in {"unsent", "lost"}
    BY <1>3, <1>a DEF Restart, At, Unsent, Record
  <2> QED BY <2>1 DEF Kept, Covers, Compacting
<1>4. ASSUME NEW c \in Chats, NEW n \in Messages, Send(c, n) PROVE Kept(m)' /\ Covers(m)'
  <2>1. memory' = memory /\ starts' = starts /\ (n # m => message'[m] = message[m])
        /\ (n = m => message'[m].at = "waiting")
    BY <1>4, <1>a DEF Send, Record
  <2> QED BY <2>1 DEF MemoryInv, Kept, Covers, Holds, Compacting
<1>5. ASSUME NEW n \in Messages, Work(n) PROVE Kept(m)' /\ Covers(m)'
  <2>0. starts = 0
    BY <1>5, <1>a, WorkKeepsChats
  <2>k. \A x \in Messages : Kept(x) /\ Covers(x)
    BY <2>0 DEF MemoryInv
  <2>1. CASE EnterLane(n) \/ LaneTimeout(n) \/ NoAnswer(n)
    <3>1. memory' = memory /\ (n # m => message'[m] = message[m])
          /\ (n = m => message'[m].at \in {"thinking", "declined", "failed"})
      BY <2>1, <1>a DEF EnterLane, LaneTimeout, NoAnswer, Goes, Record
    <3> QED BY <2>k, <3>1 DEF Kept, Covers, Holds, Compacting
  <2>2. CASE LeaveLane(n)
    <3>1. memory' = memory /\ (n # m => message'[m] = message[m]) /\ message[n].at = "leaving"
          /\ (n = m => message'[m].at = "answered")
      BY <2>2, <1>a DEF LeaveLane, Goes, At, Record
    <3> QED BY <2>k, <3>1 DEF Kept, Covers, Holds, Compacting
  <2>3. CASE Answer(n) \/ Finish(n)
    <3>1. PICK role \in Roles, next \in {"answering", "leaving"} :
            /\ Add(n, role, next)
            /\ \/ role = "user" /\ next = "answering" /\ message[n].at = "thinking"
               \/ role = "assistant" /\ next = "leaving" /\ message[n].at = "answering"
      BY <2>3 DEF Answer, Finish, At, Roles
    <3>2. /\ memory'.long = memory.long
          /\ ToSet(memory'.short) = ToSet(memory.short) \cup {<<n, role>>}
      BY <3>1, <1>a, AddOK
    <3>3. lane = n
      BY <3>1, <1>b DEF Working
    <3>4. m # n => message[m].at \notin Compacting
      BY <1>b, <3>3 DEF Compacting, Working
    <3>5. \/ message' = [message EXCEPT ![n].at = next]
          \/ \E h \in SUBSET Messages :
               /\ {e[1] : e \in ToSet(memory'.short)} \subseteq h
               /\ message' = [message EXCEPT ![n] = [@ EXCEPT
                    !.at = IF role = "user" THEN "compact_user" ELSE "compact_assistant",
                    !.history = h]]
      BY <3>1, <1>a, AddOK
    <3>6. CASE m # n
      <4>1. message'[m] = message[m]
        BY <1>a, <3>5, <3>6
      <4> QED BY <2>k, <3>2, <3>4, <3>6, <4>1 DEF Kept, Covers, Holds
    <3>7. CASE m = n /\ message' = [message EXCEPT ![n].at = next]
      <4>1. message'[m].at = next
        BY <1>a, <3>7 DEF Record
      <4> QED BY <2>k, <3>1, <3>2, <3>7, <4>1 DEF Kept, Covers, Holds, Compacting
    <3>8. ASSUME m = n, NEW h \in SUBSET Messages,
                 {e[1] : e \in ToSet(memory'.short)} \subseteq h,
                 message' = [message EXCEPT ![n] = [@ EXCEPT
                    !.at = IF role = "user" THEN "compact_user" ELSE "compact_assistant",
                    !.history = h]]
          PROVE  Kept(m)' /\ Covers(m)'
      <4>1. /\ message'[m].at = IF role = "user" THEN "compact_user" ELSE "compact_assistant"
            /\ message'[m].history = h
        BY <1>a, <3>8 DEF Record
      <4>2. Covers(m)'
        BY <3>8, <4>1 DEF Covers
      <4>3. Kept(m)'
        BY <2>k, <3>1, <3>2, <3>8, <4>1 DEF Kept, Holds
      <4> QED BY <4>2, <4>3
    <3> QED BY <3>5, <3>6, <3>7, <3>8
  <2>4. CASE Compact(n)
    <3>1. lane = n /\ message[n].at \in Compacting
      BY <2>4, <1>b DEF Compact, At, Compacting, Working
    <3>2. m # n => message[m].at \notin Working /\ message'[m] = message[m]
      BY <1>a, <1>b, <2>4, <3>1 DEF Compact
    <3>3. \A e \in ToSet(memory.short) : e[1] \in message[n].history
      BY <2>k, <3>1 DEF Covers
    <3>4. /\ message[n].at = "compact_user" => message'[n].at = "answering"
          /\ message[n].at = "compact_assistant" => message'[n].at = "leaving"
      <4>1. CASE message[n].at = "compact_user"
        <5>1. message' = [message EXCEPT ![n] = [@ EXCEPT !.at = "answering", !.history = {}]]
          BY <2>4, <4>1 DEF Compact, At
        <5> QED BY <1>a, <4>1, <5>1 DEF Record
      <4>2. CASE message[n].at = "compact_assistant"
        <5>1. message' = [message EXCEPT ![n] = [@ EXCEPT !.at = "leaving", !.history = {}]]
          BY <2>4, <4>2 DEF Compact, At
        <5> QED BY <1>a, <4>2, <5>1 DEF Record
      <4> QED BY <4>1, <4>2
    <3>5. CASE memory' = memory
      BY <2>k, <3>1, <3>2, <3>4, <3>5 DEF Kept, Covers, Holds, Compacting, Working
    <3>6. CASE memory' = [long |-> memory.long \cup message[n].history, short |-> <<>>]
      <4>1. /\ \A x \in Messages : \A r : Holds(x, r) => x \in memory'.long
            /\ memory.long \subseteq memory'.long
        BY <3>3, <3>6 DEF Holds
      <4>2. Kept(m)'
        BY <2>k, <3>1, <3>2, <3>4, <4>1 DEF Kept, Compacting, Working
      <4>3. Covers(m)'
        BY <3>1, <3>2, <3>4 DEF Covers, Compacting, Working
      <4> QED BY <4>2, <4>3
    <3> QED BY <2>4, <3>5, <3>6 DEF Compact, Summarised
  <2> QED BY <1>5, <2>1, <2>2, <2>3, <2>4 DEF Work
<1>6. CASE Supervise \/ Unbind \/ Register \/ Choice
  BY <1>1, <1>6 DEF Supervise, ReadToken, WaitOrRun, TakeSignal, Launch, Unbind, Register, Choice
<1>7. ASSUME NEW t \in Tokens, SaveToken(t) PROVE Kept(m)' /\ Covers(m)'
  BY <1>1, <1>7 DEF SaveToken
<1>8. ASSUME NEW c \in Chats, Lang(c) \/ Bind(c) PROVE Kept(m)' /\ Covers(m)'
  BY <1>1, <1>8 DEF Lang, Bind
<1>9. CASE UNCHANGED vars
  BY <1>1, <1>9 DEF vars
<1> QED BY <1>2, <1>3, <1>4, <1>5, <1>6, <1>7, <1>8, <1>9 DEF Next, Users

\* Without a /start, whatever the process answered is remembered, as an
\* exchange or in the summary, whichever summaries fail and however the
\* messages, the commands and the restarts interleave.
THEOREM AnswersAreRemembered == Spec => []NothingForgotten
<1>1. MemoryInv => NothingForgotten
  BY DEF MemoryInv, Kept, Holds, NothingForgotten, At
<1>2. Spec => []TurnInv
  BY TurnInit, TurnStep, PTL DEF Spec
<1> QED BY <1>1, <1>2, MemoryInit, MemoryStep, PTL DEF Spec
=============================================================================
