--------------------------- MODULE ProviderCalls ----------------------------
(***************************************************************************)
(* Calls of one provider adapter to its upstream: the retries of           *)
(* retry_async, the wrapping of what they end with, and the Codex          *)
(* adapter's reload of a bearer token the Codex CLI rotated on disk.       *)
(*                                                                         *)
(*   "sdk"    OpenAI and Anthropic adapters with an API key                *)
(*   "oauth"  Anthropic with a subscription's bearer, raw HTTP             *)
(*   "codex"  Codex with a subscription's bearer, SDK                      *)
(*                                                                         *)
(* Calls are coroutines of one event loop that share the adapter: they     *)
(* interleave where they await the upstream or sleep.  Tokens are numbered *)
(* in the order they are issued; the upstream accepts the newest.          *)
(***************************************************************************)
EXTENDS Integers

CONSTANTS Calls,         \* calls in flight
          Adapters,      \* the kinds of adapter to consider
          MaxAttempts,   \* RetryConfig.max_attempts
          MaxRotations   \* bound on the tokens issued

ASSUME ProviderCallsAssumption ==
    /\ Adapters \subseteq {"sdk", "oauth", "codex"}
    /\ MaxAttempts \in Nat \ {0} /\ MaxRotations \in Nat

VARIABLES adapter,       \* the adapter's kind
          call,          \* per call: where it stands
          issued,        \* the token the upstream accepts
          authFile,      \* the token in auth.json
          token,         \* _access_token
          clientToken    \* the token _client was built with

callVars == <<adapter, call, issued, authFile, token, clientToken>>

-----------------------------------------------------------------------------
\* throttled: a status such as 429 or 503; dropped: no connection, or a timeout;
\* refused: any other status; rejected: 401.
Errors == {"throttled", "dropped", "refused", "rejected"}

\* What a call hands to the router: AdapterErrors, except for "escaped".
Failures == {"transient", "permanent", "plain", "escaped"}

Tokens == 0..MaxRotations
CallStates ==
    [at : {"new", "send", "await", "reload", "resend", "awaitAgain", "streaming", "done"},
     mode : {"chat", "stream"}, attempt : 0..MaxAttempts, used : Tokens,
     rejected : Tokens \cup {-1}, error : Errors \cup {"none"},
     result : Failures \cup {"none", "answered"}, opened : BOOLEAN]

CallsInit ==
    /\ adapter \in Adapters
    /\ \E mode \in [Calls -> {"chat", "stream"}] :
         call = [c \in Calls |->
                   [at |-> "new", mode |-> mode[c], attempt |-> 0, used |-> 0,
                    rejected |-> -1, error |-> "none", result |-> "none",
                    opened |-> FALSE]]
    /\ issued = 0 /\ authFile = 0 /\ token = 0 /\ clientToken = 0

\* is_transient_error.  The OAuth paths raise an AdapterError without a status code for
\* whatever status they get.
IsTransient(error) ==
    \/ error = "throttled" /\ adapter # "oauth"
    \/ error = "dropped"

\* wrap_as_adapter_error
Wrapped(error) == IF IsTransient(error) THEN "transient" ELSE "permanent"

\* _stream_chat_via_oauth opens its stream without retry_async and re-raises an
\* AdapterError as it is.
OAuthStream(c) == adapter = "oauth" /\ call[c].mode = "stream"

\* Mutant: the last attempt is not counted as one.
RetriesPastEnd(c, error) ==
    IsTransient(error) /\ call[c].attempt <= MaxAttempts /\ ~OAuthStream(c)

Retries(c, error) ==
    IsTransient(error) /\ call[c].attempt < MaxAttempts /\ ~OAuthStream(c)

\* One attempt of retry_async failed: back off and try again, or give up.
AttemptFails(c, error) ==
    call' = [call EXCEPT ![c].error = error,
                         ![c].at = IF Retries(c, error) THEN "send" ELSE "done",
                         ![c].result =
                            IF Retries(c, error) THEN "none"
                            ELSE IF OAuthStream(c) /\ error # "dropped" THEN "plain"
                            ELSE Wrapped(error)]

-----------------------------------------------------------------------------
Begin(c) ==
    /\ call[c].at = "new"
    /\ call' = [call EXCEPT ![c].at = "send"]
    /\ UNCHANGED <<adapter, issued, authFile, token, clientToken>>

\* An attempt starts, after its backoff if it is not the first.
Send(c) ==
    /\ call[c].at = "send"
    /\ call' = [call EXCEPT ![c].at = "await", ![c].attempt = @ + 1,
                            ![c].used = clientToken, ![c].rejected = -1]
    /\ UNCHANGED <<adapter, issued, authFile, token, clientToken>>

Awaits(c) == call[c].at \in {"await", "awaitAgain"}
Authorized(c) == adapter = "codex" => call[c].used = issued

Succeeds(c) ==
    /\ Awaits(c) /\ Authorized(c)
    /\ call' = IF call[c].mode = "chat"
               THEN [call EXCEPT ![c].at = "done", ![c].result = "answered"]
               ELSE [call EXCEPT ![c].at = "streaming", ![c].opened = TRUE]
    /\ UNCHANGED <<adapter, issued, authFile, token, clientToken>>

Fails(c) ==
    /\ Awaits(c)
    /\ \E error \in {"throttled", "dropped", "refused"} : AttemptFails(c, error)
    /\ UNCHANGED <<adapter, issued, authFile, token, clientToken>>

\* A 401: the Codex adapter looks for a new token, once in an attempt.
Rejected(c) ==
    /\ Awaits(c) /\ ~Authorized(c)
    /\ IF call[c].at = "await"
       THEN call' = [call EXCEPT ![c].at = "reload", ![c].rejected = call[c].used]
       ELSE AttemptFails(c, "rejected")
    /\ UNCHANGED <<adapter, issued, authFile, token, clientToken>>

\* Mutant: the client keeps the token it was built with.
ReloadKeepsClient(c) ==
    /\ call[c].at = "reload"
    /\ authFile # token
    /\ token' = authFile
    /\ call' = [call EXCEPT ![c].at = "resend"]
    /\ UNCHANGED <<adapter, issued, authFile, clientToken>>

\* _try_reload_token: auth.json holds another token than the adapter.
Reload(c) ==
    /\ call[c].at = "reload"
    /\ authFile # token
    /\ token' = authFile /\ clientToken' = authFile
    /\ call' = [call EXCEPT ![c].at = "resend"]
    /\ UNCHANGED <<adapter, issued, authFile>>

\* It does not, or cannot be read: the 401 stands.  It may have been another call that
\* took the file's token in between.
ReloadInVain(c) ==
    /\ call[c].at = "reload"
    /\ AttemptFails(c, "rejected")
    /\ UNCHANGED <<adapter, issued, authFile, token, clientToken>>

Resend(c) ==
    /\ call[c].at = "resend"
    /\ call' = [call EXCEPT ![c].at = "awaitAgain", ![c].used = clientToken]
    /\ UNCHANGED <<adapter, issued, authFile, token, clientToken>>

StreamEndsWell(c) ==
    /\ call[c].at = "streaming"
    /\ call' = [call EXCEPT ![c].at = "done", ![c].result = "answered"]
    /\ UNCHANGED <<adapter, issued, authFile, token, clientToken>>

\* Mutant: the iteration of the stream is not wrapped.
BreaksUnwrapped(c) ==
    /\ call[c].at = "streaming"
    /\ \E error \in {"dropped", "refused"} :
         call' = [call EXCEPT ![c].at = "done", ![c].error = error,
                              ![c].result = "escaped"]
    /\ UNCHANGED <<adapter, issued, authFile, token, clientToken>>

\* An error of an open stream is wrapped, except by the Codex adapter.
StreamBreaksOff(c) ==
    /\ call[c].at = "streaming"
    /\ \E error \in {"dropped", "refused"} :
         call' = [call EXCEPT ![c].at = "done", ![c].error = error,
                              ![c].result = IF adapter = "codex" THEN "escaped"
                                            ELSE Wrapped(error)]
    /\ UNCHANGED <<adapter, issued, authFile, token, clientToken>>

\* The upstream issues a new token to the Codex CLI, which puts it into auth.json.
Issue ==
    /\ adapter = "codex" /\ issued < MaxRotations
    /\ issued' = issued + 1
    /\ UNCHANGED <<adapter, call, authFile, token, clientToken>>

Rotate ==
    /\ authFile # issued
    /\ authFile' = issued
    /\ UNCHANGED <<adapter, call, issued, token, clientToken>>

CallsNext ==
    \/ \E c \in Calls :
         \/ Begin(c) \/ Send(c) \/ Succeeds(c) \/ Fails(c) \/ Rejected(c)
         \/ Reload(c) \/ ReloadInVain(c) \/ Resend(c)
         \/ StreamEndsWell(c) \/ StreamBreaksOff(c)
    \/ Issue \/ Rotate

CallsSpec == CallsInit /\ [][CallsNext]_callVars

-----------------------------------------------------------------------------
(* What must hold *)

(* A request that was rejected is not sent again with the token it was rejected with,
   however many calls reload the token at the same time. *)
RejectedTokenNotResent ==
    \A c \in Calls : call[c].at = "awaitAgain" => call[c].used # call[c].rejected

(* What the router learns of a failure lets it decide on a failover: it is an AdapterError
   unless a Codex stream broke off after it was opened; it is called transient only after
   all attempts, or once a stream was open or where a stream is opened without retries;
   and it is called permanent although the upstream was throttling only in OAuth mode. *)
FailuresClassified ==
    \A c \in Calls :
        LET s == call[c]
        IN  /\ s.result = "escaped" => adapter = "codex" /\ s.opened
            /\ s.result = "transient" =>
                 s.attempt = MaxAttempts \/ s.opened \/ OAuthStream(c)
            /\ s.result = "permanent" =>
                 s.error \in {"refused", "rejected"} \/ adapter = "oauth"
            /\ s.result = "plain" => OAuthStream(c) /\ ~s.opened

CallsTypeOK ==
    /\ adapter \in Adapters
    /\ call \in [Calls -> CallStates]
    /\ issued \in Tokens /\ authFile \in Tokens
    /\ token \in Tokens /\ clientToken \in Tokens
=============================================================================
