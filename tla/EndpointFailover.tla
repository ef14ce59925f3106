-------------------------- MODULE EndpointFailover --------------------------
(***************************************************************************)
(* The LLM client of a trader (src/mcp/client.go): one call tries the      *)
(* primary endpoint and then every fallback, in priority order; without    *)
(* fallbacks it retries the primary.  The connection parameters live in    *)
(* the client and are overwritten by every switch, so what one attempt     *)
(* sends depends on the attempts before it.                                *)
(*                                                                         *)
(* The model name is overwritten exactly as the key is and is left out;    *)
(* so are bodies, token limits and the time a retry waits.  A trader makes *)
(* its calls from one goroutine, so a call is never concurrent with itself. *)
(***************************************************************************)
EXTENDS Integers, Sequences, FiniteSets, SequencesExt

CONSTANTS Primary,     \* the endpoint SetAPIKey configured: [url, key]
          Setups,      \* sequences of fallbacks [url, key, priority] an operator may configure
          NoKey,       \* an empty key in a fallback's configuration
          MaxRetries   \* attempts at the primary when there are no fallbacks

Endpoints == UNION {ToSet(s) : s \in Setups}
Urls == {Primary.url} \cup {e.url : e \in Endpoints}

ASSUME EndpointsAssumption ==
  /\ Primary \in [url : STRING, key : STRING] /\ Primary.key # NoKey
  /\ Setups \subseteq Seq([url : STRING, key : STRING, priority : Int])
  /\ MaxRetries \in Nat \ {0}
  /\ \A s \in Setups : \A i, j \in DOMAIN s : s[i].url = s[j].url => i = j
  /\ \A e \in Endpoints : e.url # Primary.url

VARIABLES client,   \* fallbacks in the order they are tried, index, url and key in use
          call,     \* the call in progress: its stage and the attempts it made
          weather   \* "foul", or from some time on the endpoint that answers every
                    \* request, while no answer is garbled and no read fails

failoverVars == <<client, call, weather>>

NoCall == [stage |-> "none", tried |-> <<>>]
Attempt(c) == [url |-> c.url, key |-> c.key]

\* What a provider accepts: the key configured for it, the primary's key for
\* an endpoint configured without one.
KeyFor(c, url) ==
  LET own == {e \in ToSet(c.fallbacks) : e.url = url /\ e.key # NoKey}
  IN IF own = {} THEN Primary.key ELSE (CHOOSE e \in own : TRUE).key

-----------------------------------------------------------------------------
\* Mutant: the fallbacks stay in the order they were configured in.
Unsorted(s) == s

\* SetFallbackEndpoints: a stable sort by priority.
Sorted(s) ==
  LET Before(i, j) == s[i].priority < s[j].priority \/ (s[i].priority = s[j].priority /\ i < j)
      Place(i)     == Cardinality({j \in DOMAIN s : Before(j, i)}) + 1
  IN [p \in DOMAIN s |-> s[CHOOSE i \in DOMAIN s : Place(i) = p]]

Configured(s) == [fallbacks |-> Sorted(s), index |-> 0, url |-> Primary.url, key |-> Primary.key]

\* Mutant: the primary is asked with the key of the last fallback.
KeyForgotten(c) == [c EXCEPT !.index = 0, !.url = Primary.url]

RestoreToPrimary(c) == [c EXCEPT !.index = 0, !.url = Primary.url, !.key = Primary.key]

HasNext(c) == c.index < Len(c.fallbacks)

\* switchToNextEndpoint: an endpoint configured without a key keeps the one in use.
SwitchToNextEndpoint(c) ==
  LET e == c.fallbacks[c.index + 1]
  IN [c EXCEPT !.index = @ + 1, !.url = e.url, !.key = IF e.key = NoKey THEN @ ELSE e.key]

FailoverInit ==
  /\ \E s \in Setups : client = Configured(s)
  /\ call = NoCall
  /\ weather = "foul"

-----------------------------------------------------------------------------
\* CallWithMessages starts every call at the primary.
BeginCall ==
  /\ call.stage = "none"
  /\ client' = IF client.fallbacks = <<>> THEN client ELSE RestoreToPrimary(client)
  /\ call' = [NoCall EXCEPT !.stage = "trying"]
  /\ UNCHANGED weather

\* What a request to the endpoint in use may come back with.
Outcomes ==
  IF client.key # KeyFor(client, client.url) THEN {"error"}
  ELSE IF weather = "foul" THEN {"answer", "garbled", "error"}
  ELSE IF client.url = weather THEN {"answer"}
  ELSE {"answer", "error"}

Answered(tried) ==
  /\ \E o \in Outcomes \ {"error"} : call' = [stage |-> o, tried |-> tried]
  /\ client' = IF client.fallbacks = <<>> THEN client ELSE RestoreToPrimary(client)

GiveUp(tried) ==
  /\ call' = [stage |-> "failed", tried |-> tried]
  /\ client' = IF client.fallbacks = <<>> THEN client ELSE RestoreToPrimary(client)

FailOver(tried) ==
  IF HasNext(client)
  THEN /\ client' = SwitchToNextEndpoint(client)
       /\ call' = [call EXCEPT !.tried = tried]
  ELSE GiveUp(tried)

\* Without fallbacks an error that may pass is retried, any other ends the call.
Retry(tried) ==
  \/ /\ Len(tried) < MaxRetries
     /\ call' = [call EXCEPT !.tried = tried]
     /\ UNCHANGED client
  \/ GiveUp(tried)

\* One request to the endpoint in use.
Try ==
  /\ call.stage = "trying"
  /\ LET tried == Append(call.tried, Attempt(client))
     IN \/ Answered(tried)
        \/ /\ "error" \in Outcomes
           /\ IF client.fallbacks = <<>> THEN Retry(tried) ELSE FailOver(tried)
  /\ UNCHANGED weather

Asked == {Primary.url} \cup {e.url : e \in ToSet(client.fallbacks)}

Weather ==
  /\ weather = "foul"
  /\ weather' \in Asked
  /\ UNCHANGED <<client, call>>

-----------------------------------------------------------------------------
\* The parameters of the client are those of an endpoint the operator
\* configured, and every attempt of a call went to one of them.
FailoverTypeOK ==
  /\ client.index \in 0 .. Len(client.fallbacks)
  /\ call.stage \in {"none", "trying", "answer", "garbled", "failed"}
  /\ \A a \in ToSet(call.tried) \cup {Attempt(client)} :
       a.url \in Urls /\ a.key \in {Primary.key} \cup {e.key : e \in Endpoints}

\* With fallbacks, one call asks the primary first and then each fallback at
\* most once, in the order of their priorities, and fails only when all of them
\* were asked.
AsksByPriority ==
  client.fallbacks # <<>> =>
    /\ \A i \in DOMAIN call.tried :
         LET Priority(n) == (CHOOSE e \in ToSet(client.fallbacks) : e.url = call.tried[n].url).priority
         IN /\ (i = 1) <=> (call.tried[i].url = Primary.url)
            /\ \A j \in 2 .. i - 1 :
                 call.tried[j].url # call.tried[i].url /\ Priority(j) <= Priority(i)
    /\ call.stage = "failed" => {a.url : a \in ToSet(call.tried)} = Asked

\* Every attempt carries the key of its endpoint, the primary's if it has none.
OwnKeyOrPrimarys == \A a \in ToSet(call.tried) : a.key = KeyFor(client, a.url)
=============================================================================
