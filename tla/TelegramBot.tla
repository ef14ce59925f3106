----------------------------- MODULE TelegramBot -----------------------------
(***************************************************************************)
(* The Telegram bot (src/telegram): the supervisor that waits for a token, *)
(* the loop that reads the updates one by one, a goroutine for every       *)
(* message to the assistant, and the assistant's memory.  The messages of  *)
(* a chat share a lane (agent/manager.go): one is answered at a time, the  *)
(* others wait for at most a minute.  /start clears the memory without     *)
(* asking for the lane.  A full memory is summarised by the model          *)
(* (session/memory.go) while the lane is held.                             *)
(*                                                                         *)
(* The web server saves tokens, removes the binding and registers the      *)
(* user.  Users are never deleted, so the bot's user is found once and its *)
(* manager is never replaced; only the chat the bot is bound to has an     *)
(* agent, so there is one lane and one memory.  The tools the assistant    *)
(* calls, the wording and the placeholder messages are left out.           *)
(***************************************************************************)
EXTENDS Integers, Sequences, FiniteSets, SequencesExt

CONSTANTS Chats, NoChat,
          Messages, NoMessage,   \* messages to the assistant, each sent once
          Tokens, NoToken,
          Bad,                   \* tokens Telegram refuses
          MaxStarts,             \* /start commands to a bound bot
          MaxRestarts            \* restarts of the process

ASSUME BotAssumption ==
  /\ NoChat \notin Chats /\ NoMessage \notin Messages /\ NoToken \notin Tokens
  /\ Bad \subseteq Tokens
  /\ MaxStarts \in Nat /\ MaxRestarts \in Nat

VARIABLES db,        \* the stored token and bound chat, and whether a user is registered
          signal,    \* the buffered reload channel holds a signal
          bot,       \* the supervisor's place, its token; the loop's local variables
          lane,      \* the message that holds the chat's lane
          memory,    \* the summary: a set of messages; recent entries: <<message, role>>
          message,   \* per message its chat, its goroutine's place, what it summarises
          starts, restarts

vars == <<db, signal, bot, lane, memory, message, starts, restarts>>

Fresh == [at |-> "resolve", token |-> NoToken, allowed |-> NoChat, awaiting |-> FALSE, user |-> FALSE]
Empty == [long |-> {}, short |-> <<>>]
Unsent == [chat |-> NoChat, at |-> "unsent", history |-> {}]

Init ==
  /\ db = [token |-> NoToken, chat |-> NoChat, user |-> FALSE]
  /\ signal = FALSE
  /\ bot = Fresh
  /\ lane = NoMessage
  /\ memory = Empty
  /\ message = [m \in Messages |-> Unsent]
  /\ starts = 0
  /\ restarts = 0

-----------------------------------------------------------------------------
\* Mutant: the reload channel has no buffer.
Unbuffered == signal' = (bot.at = "waiting")

\* A send that never blocks, to a channel with room for one signal.
Signal == signal' = TRUE

\* handleUpdateTelegramConfig: save the token, then signal the reload.
SaveToken(t) ==
  /\ db' = [db EXCEPT !.token = t]
  /\ Signal
  /\ UNCHANGED <<bot, lane, memory, message, starts, restarts>>

Unbind ==
  /\ db.chat # NoChat
  /\ db' = [db EXCEPT !.chat = NoChat]
  /\ UNCHANGED <<signal, bot, lane, memory, message, starts, restarts>>

Register ==
  /\ ~db.user
  /\ db' = [db EXCEPT !.user = TRUE]
  /\ UNCHANGED <<signal, bot, lane, memory, message, starts, restarts>>

-----------------------------------------------------------------------------
\* Start: read the token; without one wait for a signal, with one run the bot.
ReadToken ==
  /\ bot.at = "resolve"
  /\ bot' = [bot EXCEPT !.at = "read", !.token = db.token]
  /\ UNCHANGED <<db, signal, lane, memory, message, starts, restarts>>

WaitOrRun ==
  /\ bot.at = "read"
  /\ bot' = [bot EXCEPT !.at = IF bot.token = NoToken THEN "waiting" ELSE "starting"]
  /\ UNCHANGED <<db, signal, lane, memory, message, starts, restarts>>

TakeSignal ==
  /\ bot.at = "waiting"
  /\ signal
  /\ signal' = FALSE
  /\ bot' = [bot EXCEPT !.at = "resolve"]
  /\ UNCHANGED <<db, lane, memory, message, starts, restarts>>

\* Mutant: the binding is not read from the database.
NotBound == NoChat

BoundChat == db.chat

\* runBot: a token Telegram refuses ends the supervisor for good.
Launch ==
  /\ bot.at = "starting"
  /\ bot' = IF bot.token \in Bad THEN [bot EXCEPT !.at = "gone"]
            ELSE [bot EXCEPT !.at = "up", !.allowed = BoundChat, !.user = db.user]
  /\ UNCHANGED <<db, signal, lane, memory, message, starts, restarts>>

-----------------------------------------------------------------------------
\* An update of chat c is due; it is not taken for the choice of a language.
Due(c) == bot.at = "up" /\ ~(bot.awaiting /\ c = bot.allowed)

\* Any text of the owner after a /lang: a language, or the menu is shown again.
Choice ==
  /\ bot.at = "up" /\ bot.awaiting /\ bot.allowed # NoChat
  /\ bot' = [bot EXCEPT !.awaiting = FALSE]
  /\ UNCHANGED <<db, signal, lane, memory, message, starts, restarts>>

Lang(c) ==
  /\ Due(c)
  /\ bot' = [bot EXCEPT !.awaiting = TRUE]
  /\ UNCHANGED <<db, signal, lane, memory, message, starts, restarts>>

\* /start of a chat that is not bound yet: bind it, unless that fails.
Bind(c) ==
  /\ Due(c)
  /\ db.user
  /\ bot.allowed = NoChat
  /\ db' = [db EXCEPT !.chat = c]
  /\ bot' = [bot EXCEPT !.allowed = c, !.user = TRUE]
  /\ UNCHANGED <<signal, lane, memory, message, starts, restarts>>

\* /start of the bound chat: Reset clears the memory, whoever holds the lane.
Reset ==
  /\ Due(bot.allowed)
  /\ bot.allowed # NoChat /\ db.user
  /\ starts < MaxStarts
  /\ starts' = starts + 1
  /\ bot' = [bot EXCEPT !.user = TRUE]
  /\ memory' = Empty
  /\ UNCHANGED <<db, signal, lane, message, restarts>>

\* A message to the assistant: its goroutine starts.
Send(c, m) ==
  /\ Due(c)
  /\ c = bot.allowed /\ db.user
  /\ message[m].at = "unsent"
  /\ message' = [message EXCEPT ![m] = [@ EXCEPT !.chat = c, !.at = "waiting"]]
  /\ bot' = [bot EXCEPT !.user = TRUE]
  /\ UNCHANGED <<db, signal, lane, memory, starts, restarts>>

-----------------------------------------------------------------------------
At(m, place) == message[m].at = place
Goes(m, place) == message' = [message EXCEPT ![m].at = place]

\* Mutant: the lane has room for two.
Crowded == Cardinality({m \in Messages : message[m].at \in {"thinking", "asked", "answering"}}) <= 1

LaneFree == lane = NoMessage

EnterLane(m) ==
  /\ At(m, "waiting")
  /\ LaneFree
  /\ lane' = m
  /\ Goes(m, "thinking")
  /\ UNCHANGED <<db, signal, bot, memory, starts, restarts>>

\* After a minute the message is answered with "please try again".
LaneTimeout(m) ==
  /\ At(m, "waiting")
  /\ ~LaneFree
  /\ Goes(m, "declined")
  /\ UNCHANGED <<db, signal, bot, lane, memory, starts, restarts>>

\* The model, or a call of it, fails: nothing is remembered.
NoAnswer(m) ==
  /\ At(m, "thinking")
  /\ Goes(m, "failed")
  /\ lane' = NoMessage
  /\ UNCHANGED <<db, signal, bot, memory, starts, restarts>>

Entries == memory.long \X {"summary"} \cup ToSet(memory.short)

\* memory.Add appends; beyond the threshold the memory is summarised first.
Add(m, role, next) ==
  LET grown == [memory EXCEPT !.short = Append(@, <<m, role>>)]
  IN /\ memory' = grown
     /\ \/ message' = [message EXCEPT ![m].at = next]
        \/ message' = [message EXCEPT ![m] = [@ EXCEPT
             !.at = IF role = "user" THEN "compact_user" ELSE "compact_assistant",
             !.history = {e[1] : e \in Entries \cup {<<m, role>>}}]]

Answer(m) ==
  /\ At(m, "thinking")
  /\ Add(m, "user", "answering")
  /\ UNCHANGED <<db, signal, bot, lane, starts, restarts>>

\* Mutant: remembering the answer asks for the lane the message holds.
Reentrant(m) ==
  /\ At(m, "answering") /\ LaneFree
  /\ Add(m, "assistant", "leaving")
  /\ UNCHANGED <<db, signal, bot, lane, starts, restarts>>

Finish(m) ==
  /\ At(m, "answering")
  /\ Add(m, "assistant", "leaving")
  /\ UNCHANGED <<db, signal, bot, lane, starts, restarts>>

\* Mutant: the recent messages are cleared when the summary fails, too.
ClearedAnyway(m) == memory' \in {[memory EXCEPT !.short = <<>>],
                                 [long |-> memory.long \cup message[m].history, short |-> <<>>]}

\* The summary joins the long-term memory and the recent messages go; when the
\* call fails they stay.
Summarised(m) == memory' \in {memory, [long |-> memory.long \cup message[m].history, short |-> <<>>]}

Compact(m) ==
  /\ \/ At(m, "compact_user") /\ message' = [message EXCEPT ![m] = [@ EXCEPT !.at = "answering", !.history = {}]]
     \/ At(m, "compact_assistant") /\ message' = [message EXCEPT ![m] = [@ EXCEPT !.at = "leaving", !.history = {}]]
  /\ Summarised(m)
  /\ UNCHANGED <<db, signal, bot, lane, starts, restarts>>

LeaveLane(m) ==
  /\ At(m, "leaving")
  /\ Goes(m, "answered")
  /\ lane' = NoMessage
  /\ UNCHANGED <<db, signal, bot, memory, starts, restarts>>

\* The process starts again: its memory and the messages in flight are gone.
Restart ==
  /\ restarts < MaxRestarts
  /\ restarts' = restarts + 1
  /\ bot' = Fresh
  /\ signal' = FALSE
  /\ lane' = NoMessage
  /\ memory' = Empty
  /\ message' = [m \in Messages |-> IF At(m, "unsent") THEN Unsent
                                    ELSE [message[m] EXCEPT !.at = "lost", !.history = {}]]
  /\ UNCHANGED <<db, starts>>

Supervise == ReadToken \/ WaitOrRun \/ TakeSignal \/ Launch

Work(m) ==
  \/ EnterLane(m) \/ LaneTimeout(m) \/ NoAnswer(m)
  \/ Answer(m) \/ Finish(m) \/ Compact(m) \/ LeaveLane(m)

Users ==
  \/ \E t \in Tokens : SaveToken(t)
  \/ Unbind \/ Register \/ Choice \/ Reset \/ Restart
  \/ \E c \in Chats : Lang(c) \/ Bind(c) \/ \E m \in Messages : Send(c, m)

Next == Supervise \/ (\E m \in Messages : Work(m)) \/ Users

Spec == Init /\ [][Next]_vars

\* The supervisor and every goroutine keep running; nobody has to write.
FairSpec == Spec /\ WF_vars(Supervise) /\ \A m \in Messages : WF_vars(Work(m))

-----------------------------------------------------------------------------
Working == {"thinking", "compact_user", "answering", "compact_assistant", "leaving"}
Settled == {"answered", "declined", "failed", "lost"}

Db == [token : Tokens \cup {NoToken}, chat : Chats \cup {NoChat}, user : BOOLEAN]
Bot == [at : {"resolve", "read", "waiting", "starting", "up", "gone"},
        token : Tokens \cup {NoToken}, allowed : Chats \cup {NoChat},
        awaiting : BOOLEAN, user : BOOLEAN]
Memory == [long : SUBSET Messages, short : Seq(Messages \X {"user", "assistant"})]
Record == [chat : Chats \cup {NoChat}, history : SUBSET Messages,
           at : {"unsent", "waiting"} \cup Working \cup Settled]

\* Every part of the state has its type; a summary under way, and only that,
\* has a history.
TypeOK ==
  /\ db \in Db /\ signal \in BOOLEAN
  /\ bot \in Bot
  /\ lane \in Messages \cup {NoMessage}
  /\ memory \in Memory
  /\ message \in [Messages -> Record]
  /\ \A m \in Messages :
       (message[m].history # {}) <=> message[m].at \in {"compact_user", "compact_assistant"}
  /\ starts \in 0 .. MaxStarts /\ restarts \in 0 .. MaxRestarts

\* Run serialises the messages of a chat: at most one is being answered or is
\* summarising the memory, and it holds the lane.
OneAtATime == \A m \in Messages : message[m].at \in Working <=> lane = m

\* "no data loss" (memory.go): without a /start, whatever this process answered
\* is still remembered, as a whole exchange or in the summary, however the
\* summaries fail.
NothingForgotten ==
  starts = 0 =>
    \A m \in Messages : At(m, "answered") =>
      m \in memory.long \/ {<<m, "user">>, <<m, "assistant">>} \subseteq ToSet(memory.short)

\* One chat owns the bot: a running bot and its database never name two chats,
\* and every message this process took came from the owner.
OneOwner ==
  bot.at = "up" =>
    /\ db.chat \in {NoChat, bot.allowed}
    /\ \A m \in Messages : ~At(m, "unsent") /\ ~At(m, "lost") => message[m].chat = bot.allowed

\* Every message to the assistant is settled: answered, failed, or declined
\* after a minute's wait for the lane.
EveryMessageSettles ==
  \A m \in Messages : At(m, "waiting") ~> message[m].at \in Settled

\* A bot that waits for a token starts with the first one saved, however the
\* saving races the wait: the signal is never lost.
FirstTokenStarts == (bot.at = "waiting" /\ db.token # NoToken) ~> bot.at # "waiting"

\* "the bot restarts with the latest token" (bot.go): a saved token that
\* Telegram accepts is used in the end, or replaced by another.
LatestTokenIsUsed ==
  \A t \in Tokens \ Bad : db.token = t ~> db.token # t \/ (bot.at = "up" /\ bot.token = t)
=============================================================================
