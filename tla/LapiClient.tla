----------------------------- MODULE LapiClient -----------------------------
(***************************************************************************)
(* internal/lapi/client.go: the session that carries every request to the  *)
(* LAPI.  A call makes sure of a token, sends the request with it and, on  *)
(* a 401, logs in again and sends the request a second time.  The client   *)
(* is built for several callers: "mu" guards the cached token and is held  *)
(* while logging in.  The server is external: it may refuse, revoke,       *)
(* answer late or not at all, and it may carry out a request whose answer  *)
(* nobody sees.                                                            *)
(***************************************************************************)
EXTENDS Integers

CONSTANTS
    Caller, Nobody,
    AuthRefreshBefore,    \* how long before its expiry a token is replaced
    Lifetimes,            \* how long the server lets a token live
    Token, NoToken,       \* the tokens in circulation; NoToken is ""
    MaxClock              \* bound on time

ASSUME ClientAssumption ==
    /\ Nobody \notin Caller /\ NoToken \notin Token
    /\ AuthRefreshBefore \in Nat /\ Lifetimes \subseteq Nat
    /\ MaxClock \in Nat

VARIABLES
    now,
    token, tokenExpiry,   \* the cached token
    mu,                   \* who is inside loginLocked with the mutex
    call,                 \* of each caller: where it is and what its call met
    valid,                \* the server: the tokens it honours
    refused               \*   those it has answered with a 401
clientVars == <<now, token, tokenExpiry, mu, call, valid, refused>>

\* What perform may return; "unauthorized" and "forbidden" are both ErrAuth.
Error == {"none", "unauthorized", "forbidden", "status", "request", "contract"}

Idle == [at |-> "idle", authenticates |-> FALSE, bearer |-> NoToken, retry |-> FALSE,
         carried |-> 0]

ClientInit ==
    /\ now = 0 /\ token = NoToken /\ tokenExpiry = 0 /\ mu = Nobody
    /\ call = [c \in Caller |-> Idle]
    /\ valid = {} /\ refused = {}

-----------------------------------------------------------------------------

\* The result is the caller's business; how often the server acted stays on record.
Return(c) == call' = [call EXCEPT ![c] = [Idle EXCEPT !.carried = call[c].carried]]

\* Authenticate returns once there is a token; a request goes on to read it.
HasToken(c) ==
    IF call[c].authenticates
    THEN Return(c)
    ELSE call' = [call EXCEPT ![c].at = "read"]

Usable == token # NoToken /\ now + AuthRefreshBefore < tokenExpiry

Invoke(c) ==
    /\ call[c].at = "idle"
    /\ \E a \in BOOLEAN : call' = [call EXCEPT ![c] =
                              [Idle EXCEPT !.at = "ensure", !.authenticates = a]]
    /\ UNCHANGED <<now, token, tokenExpiry, mu, valid, refused>>

\* The mutex is taken; the login happens under it.
StartLogin(c) ==
    /\ token' = NoToken /\ tokenExpiry' = 0 /\ mu' = c
    /\ call' = [call EXCEPT ![c].at = "login"]

ensureToken(c) ==
    /\ call[c].at = "ensure" /\ mu = Nobody
    /\ IF Usable
       THEN HasToken(c) /\ UNCHANGED <<token, tokenExpiry, mu>>
       ELSE StartLogin(c)
    /\ UNCHANGED <<now, valid, refused>>

\* Faulty: whoever saw a 401 throws the cached token away.
refreshAlways(c) ==
    /\ call[c].at = "refresh" /\ mu = Nobody
    /\ StartLogin(c)
    /\ UNCHANGED <<now, valid, refused>>

\* Another caller may have replaced the rejected token already.
refreshRejectedToken(c) ==
    /\ call[c].at = "refresh" /\ mu = Nobody
    /\ IF Usable /\ token # call[c].bearer
       THEN HasToken(c) /\ UNCHANGED <<token, tokenExpiry, mu>>
       ELSE StartLogin(c)
    /\ UNCHANGED <<now, valid, refused>>

\* Whoever still holds an earlier token holds a different one.
NewToken == Token \ {call[c].bearer : c \in Caller}

\* An answer with too short an expiry is refused like a malformed one.
loginLocked(c) ==
    /\ call[c].at = "login"
    /\ mu' = Nobody
    /\ \/ \E t \in NewToken, life \in Lifetimes :
            /\ life > AuthRefreshBefore
            /\ token' = t /\ tokenExpiry' = now + life
            /\ valid' = valid \cup {t} /\ refused' = refused \ {t}
            /\ HasToken(c)
       \/ Return(c) /\ UNCHANGED <<token, tokenExpiry, valid, refused>>
    /\ UNCHANGED now

currentToken(c) ==
    /\ call[c].at = "read" /\ mu = Nobody
    /\ call' = [call EXCEPT ![c].at = "perform", ![c].bearer = token]
    /\ UNCHANGED <<now, token, tokenExpiry, mu, valid, refused>>

\* What the server does with a request: whether it carries it out, and what the
\* client gets to see.  Without a token that it honours it does nothing.
Outcome(b) ==
    {[carried |-> 0, err |-> e] : e \in Error \ {"none"}}
        \cup IF b \in valid
             THEN {[carried |-> 1, err |-> e] : e \in Error \ {"unauthorized", "forbidden"}}
             ELSE {}

\* Faulty: any failure is taken for a rejected token.
isUnauthorizedAny(err) == err # "none"

isUnauthorized(err) == err = "unauthorized"

\* Faulty: a second 401 starts over.
AgainForever(c, err) == isUnauthorized(err)

\* authenticated sends the request once more, and only after a 401.
Again(c, err) == isUnauthorized(err) /\ ~call[c].retry

perform(c) ==
    /\ call[c].at = "perform"
    /\ \E out \in Outcome(call[c].bearer) :
        /\ LET done == call[c].carried + out.carried
           IN  call' = [call EXCEPT ![c] =
                           IF Again(c, out.err)
                           THEN [@ EXCEPT !.at = "refresh", !.retry = TRUE, !.carried = done]
                           ELSE [Idle EXCEPT !.carried = done]]
        /\ refused' = IF out.err = "unauthorized"
                      THEN refused \cup {call[c].bearer} ELSE refused
    /\ UNCHANGED <<now, token, tokenExpiry, mu, valid>>

Step(c) ==
    \/ ensureToken(c) \/ refreshRejectedToken(c) \/ loginLocked(c)
    \/ currentToken(c) \/ perform(c)

-----------------------------------------------------------------------------

Revoke ==
    /\ \E t \in valid : valid' = valid \ {t}
    /\ UNCHANGED <<now, token, tokenExpiry, mu, call, refused>>

ClientTick ==
    /\ now < MaxClock
    /\ now' = now + 1
    /\ UNCHANGED <<token, tokenExpiry, mu, call, valid, refused>>

ClientNext == ClientTick \/ Revoke \/ \E c \in Caller : Invoke(c) \/ Step(c)

ClientSpec == ClientInit /\ [][ClientNext]_clientVars

\* requestTimeout ends every request; Go's mutex does not starve a waiter.
FairClientSpec ==
    /\ ClientSpec
    /\ \A c \in Caller : SF_clientVars(Step(c))

-----------------------------------------------------------------------------
(* Properties.                                                             *)

\* A request that the server has carried out is not sent again by the call,
\* whatever became of the answer: only the journal decides about a POST whose
\* answer was lost (authenticated repeats after a 401 alone).
AtMostOnce == \A c \in Caller : call[c].carried <= 1

\* The cached token is dropped only if it is about to expire or if it is the one
\* the server rejected: a late 401 for an earlier token costs no login.
GoodTokenKept ==
    [][token # NoToken /\ token' # token => ~Usable \/ token \in refused]_clientVars

\* Every call returns, whatever the server answers: the second 401 is final and
\* nobody waits for the mutex forever.
Returns == \A c \in Caller : call[c].at # "idle" ~> call[c].at = "idle"
=============================================================================
