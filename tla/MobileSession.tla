--------------------------- MODULE MobileSession ---------------------------
(***************************************************************************)
(* services/api/client.ts and store/authStore.ts: the calls of one device, *)
(* the one refresh they share, and the token pair in memory and on disk.   *)
(*                                                                         *)
(* A pair is a number, 0 for none; the access token and the refresh token  *)
(* of a pair are told apart by where they are kept.  The server side is    *)
(* the contract of TokenRotation: one good refresh token.                  *)
(***************************************************************************)
EXTENDS Integers, FiniteSets

CONSTANTS
    Calls,      \* API calls of the device
    SignOut,    \* the one of them that posts /auth/logout
    MaxPairs    \* bound: token pairs given to the device

ASSUME DeviceAssumption == SignOut \in Calls /\ MaxPairs \in Nat

VARIABLES
    good,       \* the server's refresh token for this user, 0 if revoked
    pairs,      \* pairs issued so far
    valid,      \* access tokens that have not expired
    call,       \* where each call is, with what access token, and its _retry
    flow,       \* the refresh in progress: isRefreshing and its stage
    store,      \* the tokens in memory; isAuthenticated when access # 0
    disk,       \* the tokens in SecureStore, or in sessionStorage
    leaving,    \* how far a sign-out got
    disturbed   \* history: an answer was lost, a sign-in overtook it, or the
                \* app ended before the new refresh token was on disk

deviceVars ==
    <<good, pairs, valid, call, flow, store, disk, leaving, disturbed>>

NoTokens == [access |-> 0, refresh |-> 0]
NoFlow == [at |-> "none"]
Rest == [at |-> "rest", access |-> 0, retry |-> FALSE]

DeviceInit ==
    /\ good = 0
    /\ pairs = 0
    /\ valid = {}
    /\ call = [c \in Calls |-> Rest]
    /\ flow = NoFlow
    /\ store = NoTokens
    /\ disk = NoTokens
    /\ leaving = "no"
    /\ disturbed = FALSE

server == <<good, pairs, valid>>
memory == <<flow, store, leaving>>

----------------------------------------------------------------------------
(* A call carries the access token the store has when it is made.          *)
SendCall(c) ==
    /\ call[c] = Rest
    /\ c = SignOut => leaving = "no"
    /\ call' = [call EXCEPT ![c] =
                  [at |-> "sent", access |-> store.access, retry |-> FALSE]]
    /\ leaving' = IF c = SignOut THEN "asked" ELSE leaving
    /\ UNCHANGED <<server, flow, store, disk, disturbed>>

Answered(c) ==
    /\ call[c].at = "sent"
    /\ call[c].access \in valid
    /\ good' = IF c = SignOut THEN 0 ELSE good
    /\ call' = [call EXCEPT ![c].at = "ended"]
    /\ UNCHANGED <<pairs, valid, memory, disk, disturbed>>

\* a timeout, or an error other than 401
Failed(c) ==
    /\ call[c].at = "sent"
    /\ call' = [call EXCEPT ![c].at = "ended"]
    /\ UNCHANGED <<server, memory, disk, disturbed>>

\* the response interceptor on 401: wait for the refresh in progress, start
\* one, or give up
Unauthorized(c) ==
    /\ call[c].at = "sent"
    /\ call[c].access \notin valid
    /\ IF call[c].retry
       THEN call' = [call EXCEPT ![c].at = "ended"] /\ UNCHANGED flow
       ELSE IF flow # NoFlow
       THEN call' = [call EXCEPT ![c].at = "queued"] /\ UNCHANGED flow
       ELSE /\ call' = [call EXCEPT ![c].at = "leading", ![c].retry = TRUE]
            /\ flow' = [at |-> IF store.refresh = 0 THEN "failed" ELSE "posted",
                        token |-> store.refresh]
    /\ UNCHANGED <<server, store, disk, leaving, disturbed>>

----------------------------------------------------------------------------
(* The refresh.  The server replaces its token before the device knows.    *)
RefreshGranted ==
    /\ flow.at = "posted"
    /\ flow.token = good
    /\ pairs < MaxPairs
    /\ pairs' = pairs + 1
    /\ good' = pairs'
    /\ valid' = valid \cup {pairs'}
    /\ flow' = [at |-> "granted", token |-> pairs', unsaved |-> {"access", "refresh"}]
    /\ UNCHANGED <<call, store, disk, leaving, disturbed>>

ExchangeRefused ==
    /\ flow.at = "posted"
    /\ flow.token # good
    /\ flow' = [flow EXCEPT !.at = "failed"]
    /\ UNCHANGED <<server, call, store, disk, leaving, disturbed>>

\* the request or the answer is lost: the server may have rotated
RefreshLost ==
    /\ flow.at \in {"posted", "granted"}
    /\ flow.at = "granted" => flow.unsaved = {"access", "refresh"}
    /\ flow' = [at |-> "failed", token |-> 0]
    /\ disturbed' = TRUE
    /\ UNCHANGED <<server, call, store, disk, leaving>>

\* setTokens: the two writes run in parallel
SaveToken ==
    /\ flow.at = "granted"
    /\ \E key \in flow.unsaved :
          /\ disk' = [disk EXCEPT ![key] = flow.token]
          /\ flow' = [flow EXCEPT !.unsaved = @ \ {key}]
    /\ UNCHANGED <<server, call, store, leaving, disturbed>>

\* a write fails: both are deleted, and the refresh fails
SaveFails ==
    /\ flow.at = "granted"
    /\ disk' = NoTokens
    /\ flow' = [at |-> "failed", token |-> 0]
    /\ UNCHANGED <<server, call, store, leaving, disturbed>>

Released(at) == at \in {"queued", "leading"}

\* wrong variant: the store keeps the refresh token it had
RefreshKeepsToken ==
    /\ flow.at = "granted"
    /\ flow.unsaved = {}
    /\ store' = [store EXCEPT !.access = flow.token]
    /\ call' = [c \in Calls |->
                  IF Released(call[c].at)
                  THEN [call[c] EXCEPT !.at = "sent", !.access = flow.token]
                  ELSE call[c]]
    /\ flow' = NoFlow
    /\ UNCHANGED <<server, disk, leaving, disturbed>>

\* setAuth, processQueue and the retry run without an await between them
RefreshSucceeds ==
    /\ flow.at = "granted"
    /\ flow.unsaved = {}
    /\ store' = [access |-> flow.token, refresh |-> flow.token]
    /\ call' = [c \in Calls |->
                  IF Released(call[c].at)
                  THEN [call[c] EXCEPT !.at = "sent", !.access = flow.token]
                  ELSE call[c]]
    /\ flow' = NoFlow
    /\ UNCHANGED <<server, disk, leaving, disturbed>>

\* the queue is rejected before the session is cleared
RefreshFails ==
    /\ flow.at = "failed"
    /\ call' = [c \in Calls |->
                  IF call[c].at = "queued" THEN [call[c] EXCEPT !.at = "ended"]
                  ELSE call[c]]
    /\ flow' = [at |-> "clearing"]
    /\ UNCHANGED <<server, store, disk, leaving, disturbed>>

RefreshCleared ==
    /\ flow.at = "clearing"
    /\ disk' = NoTokens
    /\ store' = NoTokens
    /\ call' = [c \in Calls |->
                  IF call[c].at = "leading" THEN [call[c] EXCEPT !.at = "ended"]
                  ELSE call[c]]
    /\ flow' = NoFlow
    /\ UNCHANGED <<server, leaving, disturbed>>

----------------------------------------------------------------------------
(* The user and the world.                                                 *)

\* login or register, then setAuth
SignIn ==
    /\ store.access = 0
    /\ leaving = "no"
    /\ pairs < MaxPairs
    /\ pairs' = pairs + 1
    /\ good' = pairs'
    /\ valid' = valid \cup {pairs'}
    /\ store' = [access |-> pairs', refresh |-> pairs']
    /\ disk' = store'
    /\ disturbed' = (flow # NoFlow)
    /\ UNCHANGED <<call, flow, leaving>>

\* handleLogout goes on whether its call succeeded or not
SignOutDisk ==
    /\ leaving = "asked"
    /\ call[SignOut].at = "ended"
    /\ disk' = NoTokens
    /\ leaving' = "clearing"
    /\ UNCHANGED <<server, call, flow, store, disturbed>>

SignOutStore ==
    /\ leaving = "clearing"
    /\ store' = NoTokens
    /\ leaving' = "no"
    /\ UNCHANGED <<server, call, flow, disk, disturbed>>

\* the app is closed and opened: checkSession reads the disk.  The request of
\* a refresh may be lost or carried out; of an answer that was received one
\* half may be on disk without the other, and the pair is then read mixed
AppRestarts ==
    LET whole == disk.access # 0 /\ disk.refresh # 0
    IN  /\ call' = [c \in Calls |-> [call[c] EXCEPT !.at = IF @ = "rest" THEN @ ELSE "ended"]]
        /\ flow' = NoFlow
        /\ leaving' = "no"
        /\ store' = IF whole THEN disk ELSE NoTokens
        /\ disk' = store'
        /\ disturbed' = \/ disturbed
                        \/ flow.at = "posted"
                        \/ flow.at = "granted" /\ "refresh" \in flow.unsaved
        /\ UNCHANGED server

AccessExpires ==
    /\ \E n \in valid : valid' = valid \ {n}
    /\ UNCHANGED <<good, pairs, call, memory, disk, disturbed>>

\* a reset, a ban or a login on another device
RevokedElsewhere ==
    /\ good # 0
    /\ good' = 0
    /\ UNCHANGED <<pairs, valid, call, memory, disk, disturbed>>

----------------------------------------------------------------------------
DeviceProgress ==
    \/ RefreshGranted
    \/ ExchangeRefused
    \/ RefreshLost
    \/ SaveToken
    \/ RefreshSucceeds
    \/ RefreshFails
    \/ RefreshCleared
    \/ SignOutDisk
    \/ SignOutStore
    \/ \E c \in Calls : Answered(c) \/ Unauthorized(c)

DeviceNext ==
    \/ DeviceProgress
    \/ SaveFails
    \/ SignIn
    \/ AppRestarts
    \/ AccessExpires
    \/ RevokedElsewhere
    \/ \E c \in Calls : SendCall(c) \/ Failed(c)

DeviceSpec == DeviceInit /\ [][DeviceNext]_deviceVars

\* A device that is signed in and at rest holds the token that is good: no
\* number of calls that fail together, and no restart, makes it present a
\* token that it has exchanged, with three exceptions: an answer of the server
\* was lost, a sign-in overtook a refresh, or the app ended while a refresh
\* was out or before the new refresh token was on disk.  In the last case the
\* token the server has exchanged is what checkSession finds (setTokens writes
\* the two halves in parallel); that the new refresh token is on disk and the
\* new access token is not, is no such case.
SessionKept ==
    store.access # 0 /\ flow = NoFlow /\ leaving = "no" /\ good # 0 /\ ~disturbed
        => store.refresh = good

============================================================================
