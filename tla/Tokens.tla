------------------------------- MODULE Tokens -------------------------------
(***************************************************************************)
(* rh/mcp_config.py: the access token every call to Robinhood carries, the *)
(* refresh token that buys a new one, and rh_call, which any coroutine     *)
(* may find itself refreshing them in.                                     *)
(*                                                                         *)
(* A refresh reads the refresh token from the token file, or from the      *)
(* environment if there is none; posts it; on the answer updates the       *)
(* environment and the file in one go; then builds new tools, which is     *)
(* another await, and puts them into the dictionary all loops share.       *)
(* Nothing keeps two coroutines from refreshing at the same time.          *)
(*                                                                         *)
(* The server is external.  It either rotates the refresh token on every   *)
(* use, and one that was rotated away buys nothing, or on none: the code   *)
(* is written for both, since it takes the token of the answer if there is *)
(* one.  Tokens are numbered in the order in which they are issued.        *)
(***************************************************************************)
EXTENDS Integers

CONSTANTS
  Coroutines,  \* loops and handlers that call Robinhood
  MaxIssued,   \* bound: access tokens issued in one behaviour
  MaxFaults    \* bound: crashes, lost answers, failed saves, loads and calls

ASSUME TokensAssumption == MaxIssued \in Nat \ {0} /\ MaxFaults \in Nat

VARIABLES
  rotates,   \* the policy of the server
  access,    \* the server: access tokens issued so far ...
  expired,   \* ... those up to this one have expired
  refresh,   \* ... and the refresh token that is valid
  file,      \* the refresh token in TOKEN_FILE, NoToken if there is none
  env,       \* os.environ["RH_REFRESH_TOKEN"]
  tools,     \* access token of the tools in the shared dictionary
  up,        \* run_live has got through its start
  pc,        \* the await a coroutine is at
  bearer,    \* the access token of the call or of the tools it waits for
  used,      \* the refresh token it has posted
  reply,     \* the refresh token it was answered, NoToken if refused
  harmed,    \* history: the valid refresh token is in nobody's hands
  faults

server == <<rotates, access, expired, refresh>>
process == <<file, env, tools, up>>
coroutines == <<pc, bearer, used, reply>>
tokenVars == <<server, process, coroutines, harmed, faults>>

NoToken == -1
Tokens == 0..MaxIssued

TokensTypeOK ==
  /\ rotates \in BOOLEAN
  /\ access \in Tokens /\ expired \in Tokens \union {NoToken} /\ refresh \in Tokens
  /\ file \in Tokens \union {NoToken} /\ env \in Tokens
  /\ tools \in Tokens \union {NoToken}
  /\ up \in BOOLEAN
  /\ pc \in [Coroutines -> {"idle", "calling", "posting", "answered", "loading", "retrying"}]
  /\ bearer \in [Coroutines -> Tokens]
  /\ used \in [Coroutines -> Tokens]
  /\ reply \in [Coroutines -> Tokens \union {NoToken}]
  /\ harmed \in BOOLEAN /\ faults \in 0..MaxFaults

(* The tokens of auth_robinhood.py are in .env and nowhere else.           *)
TokensInit ==
  /\ rotates \in BOOLEAN
  /\ access = 0 /\ expired = NoToken /\ refresh = 0
  /\ file = NoToken /\ env = 0 /\ tools = NoToken /\ up = FALSE
  /\ pc = [c \in Coroutines |-> "idle"]
  /\ bearer = [c \in Coroutines |-> 0] /\ used = [c \in Coroutines |-> 0]
  /\ reply = [c \in Coroutines |-> NoToken]
  /\ harmed = FALSE /\ faults = 0

Valid(a) == a > expired
At(c, here, there) == pc[c] = here /\ pc' = [pc EXCEPT ![c] = there]
Fault == faults < MaxFaults /\ faults' = faults + 1
NoFault == faults' = faults

(* The start of a process is the work of one coroutine, before any other.  *)
Nobody == \A c \in Coroutines : pc[c] = "idle"

-----------------------------------------------------------------------------
(* Mutation: no fallback to the environment.                                *)
TokenFromFile == file

(* refresh_rh_token up to the post.                                        *)
TokenToUse == IF file # NoToken THEN file ELSE env

BeginRefresh(c) ==
  /\ used' = [used EXCEPT ![c] = TokenToUse]
  /\ UNCHANGED <<server, process, bearer, reply, harmed, faults>>

(* run_live.main refreshes before it does anything else.                   *)
Start(c) ==
  /\ ~up /\ Nobody
  /\ At(c, "idle", "posting")
  /\ BeginRefresh(c)

(* rh_call: the tool is invoked with the token it was built with.          *)
Call(c) ==
  /\ up /\ At(c, "idle", "calling")
  /\ bearer' = [bearer EXCEPT ![c] = tools]
  /\ UNCHANGED <<server, process, used, reply, harmed, faults>>

(* It returns, or raises for another reason than a 401.                    *)
CallEnds(c) ==
  /\ At(c, "calling", "idle")
  /\ IF Valid(bearer[c]) THEN NoFault ELSE Fault
  /\ UNCHANGED <<server, process, bearer, used, reply, harmed>>

(* 401: reload_rh_tools.                                                   *)
CallUnauthorized(c) ==
  /\ At(c, "calling", "posting") /\ ~Valid(bearer[c])
  /\ BeginRefresh(c)

-----------------------------------------------------------------------------
(* The server takes a refresh token that is valid, and rotates it or not.  *)
Issue(c) ==
  /\ access' = IF access < MaxIssued THEN access + 1 ELSE access
  /\ refresh' = IF rotates THEN access' ELSE refresh
  /\ reply' = [reply EXCEPT ![c] = refresh']
  /\ bearer' = [bearer EXCEPT ![c] = access']

PostReaches(c) ==
  /\ At(c, "posting", "answered")
  /\ \/ used[c] = refresh /\ Issue(c)
     \/ /\ used[c] # refresh
        /\ reply' = [reply EXCEPT ![c] = NoToken]
        /\ UNCHANGED <<access, refresh, bearer>>
  /\ UNCHANGED <<rotates, expired, process, used, harmed, faults>>

(* The valid refresh token is where the next refresh will find it, or in   *)
(* an answer that a coroutine is about to save.                            *)
Usable ==
  TokenToUse = refresh \/ \E c \in Coroutines : pc[c] = "answered" /\ reply[c] = refresh

Harm == harmed' = (harmed \/ ~Usable')

(* The post times out, before the server has acted or after.               *)
PostLost(c) ==
  /\ pc[c] \in {"posting", "answered"} /\ Fault
  /\ pc' = [pc EXCEPT ![c] = "idle"]
  /\ UNCHANGED <<server, process, bearer, used, reply>>
  /\ Harm

(* raise_for_status: the token was rotated away, and the call has failed.  *)
PostRefused(c) ==
  /\ At(c, "answered", "idle") /\ reply[c] = NoToken
  /\ UNCHANGED <<server, process, bearer, used, reply, harmed, faults>>

(* Mutation: the file gets the token that was posted.                       *)
SaveUsed(c) == file' = used[c] /\ NoFault /\ UNCHANGED harmed

(* save_token_file: written whole, or not at all and nobody is told.       *)
Save(c) ==
  \/ file' = reply[c] /\ NoFault /\ UNCHANGED harmed
  \/ file' = file /\ Fault /\ Harm

PostReturns(c) ==
  /\ At(c, "answered", "loading") /\ reply[c] # NoToken
  /\ env' = reply[c]
  /\ UNCHANGED <<server, tools, up, bearer, used, reply>>
  /\ Save(c)

-----------------------------------------------------------------------------
(* Mutation: the new tools do not get into the dictionary the loops share.  *)
InstallNothing(c) == tools' = IF up THEN tools ELSE bearer[c]

(* rh_tools.clear(), rh_tools.update().                                    *)
Install(c) == tools' = bearer[c]

(* load_rh_tools with the access token of the answer; then the call is     *)
(* tried again, or at the start the loops begin.                           *)
LoadReturns(c) ==
  /\ At(c, "loading", IF up THEN "retrying" ELSE "idle") /\ Valid(bearer[c])
  /\ Install(c) /\ up' = TRUE
  /\ UNCHANGED <<server, file, env, bearer, used, reply, harmed, faults>>

(* The client cannot connect, or the new token has expired already.  At    *)
(* the start this ends the process, and the next one has the .env again.   *)
LoadRaises(c) ==
  /\ At(c, "loading", "idle")
  /\ IF Valid(bearer[c]) THEN Fault ELSE NoFault
  /\ env' = IF up THEN env ELSE 0
  /\ UNCHANGED <<server, file, tools, up, bearer, used, reply>>
  /\ Harm

(* The second invocation returns or raises: there is no third.             *)
RetryEnds(c) ==
  /\ At(c, "retrying", "idle")
  /\ UNCHANGED <<server, process, bearer, used, reply, harmed, faults>>

-----------------------------------------------------------------------------
(* Access tokens expire, the last one of the bound excepted.               *)
Expire ==
  /\ access < MaxIssued
  /\ expired' \in (expired + 1)..access
  /\ UNCHANGED <<rotates, access, refresh, process, coroutines, harmed, faults>>

(* The process ends, wherever its coroutines are, and with it the          *)
(* environment.                                                            *)
Crash ==
  /\ up \/ ~Nobody
  /\ Fault
  /\ up' = FALSE /\ env' = 0 /\ tools' = NoToken
  /\ pc' = [c \in Coroutines |-> "idle"]
  /\ UNCHANGED <<server, file, bearer, used, reply>>
  /\ Harm

-----------------------------------------------------------------------------
Step(c) ==
  \/ Call(c) \/ CallEnds(c) \/ CallUnauthorized(c)
  \/ PostReaches(c) \/ PostLost(c) \/ PostRefused(c) \/ PostReturns(c)
  \/ LoadReturns(c) \/ LoadRaises(c) \/ RetryEnds(c)

TokensNext ==
  \/ \E c \in Coroutines : Start(c) \/ Step(c)
  \/ Expire
  \/ Crash

TokensSpec == TokensInit /\ [][TokensNext]_tokenVars

(* The container restarts a process that has ended; every loop calls the   *)
(* broker again and again, and every call and post returns or raises.      *)
TokensFairSpec ==
  /\ TokensSpec /\ WF_tokenVars(\E c \in Coroutines : Start(c))
  /\ \A c \in Coroutines : WF_tokenVars(Step(c))

-----------------------------------------------------------------------------
(* The refresh token is lost only in a fault that cuts its answer off (a   *)
(* time-out or a crash after the server has acted, a save that fails):     *)
(* coroutines that refresh at the same time never save an older token over *)
(* a newer one, nor leave the valid one unsaved.                           *)
AuthSurvives == Usable \/ harmed

(* Once the access token has expired, the loops soon have tools with one   *)
(* that is valid, however many of them meet the 401 at once and however    *)
(* many of those are refused.                                              *)
AuthorizedAgain ==
  up /\ ~Valid(tools) ~> ~up \/ Valid(tools) \/ harmed
=============================================================================
