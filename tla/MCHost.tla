------------------------------- MODULE MCHost -------------------------------
(* What surrounds the request path, on small instances: the operator's setup   *)
(* command and the registry feed on the gateway's host; the calls of provider  *)
(* adapters, the stall store and the exact cache in its process; and what is   *)
(* made of an answer for the client that gets it, streamed on /v1/messages or  *)
(* /v1/responses or as messages of a conversation.  They share no state: a     *)
(* behaviour is one of `part`, chosen at the start, while the variables of the *)
(* others stay as they are initially.                                          *)
EXTENDS Setup, RegistryFeed, ProviderCalls, SessionStall, CompletionCache,
        MessagesStream, ResponsesStream, MessageTranslation, TLC

CONSTANT Parts   \* the parts to check

VARIABLE part

MCBaseUrls ==
    {[scheme |-> "https", host |-> "modelmeld"], [scheme |-> "http", host |-> "local"],
     [scheme |-> "http", host |-> "other"]}

\* One initial state for a part that is not checked; and the operator's shell exports an
\* auth token, the harder case, that only sourcing a script removes.
Resting ==
    /\ shell.token
    /\ part # "setup" => disk["codexConfig"] = Absent
    /\ part # "feed" => \A v \in Versions : flaw[v] = "none"
    /\ part # "calls" => adapter = "sdk" /\ \A c \in Calls : call[c].mode = "chat"
    /\ part # "messages" => source = "openai"
    /\ part # "translation" => api = "messages"

HostInit ==
    /\ part \in Parts
    /\ SetupInit /\ FeedInit /\ CallsInit /\ StallInit /\ CacheInit
    /\ Init /\ ResponsesInit /\ TranslationInit
    /\ Resting

onHost == <<setupVars, feedVars>>
inProcess == <<callVars, stallVars, cacheVars>>
toClient == <<vars, responsesVars, translationVars>>

SetupPart ==
    /\ part = "setup" /\ SetupNext
    /\ UNCHANGED <<part, feedVars, inProcess, toClient>>
FeedPart ==
    /\ part = "feed" /\ FeedNext
    /\ UNCHANGED <<part, setupVars, inProcess, toClient>>
CallsPart ==
    /\ part = "calls" /\ CallsNext
    /\ UNCHANGED <<part, onHost, stallVars, cacheVars, toClient>>
StallPart ==
    /\ part = "stall" /\ StallNext
    /\ UNCHANGED <<part, onHost, callVars, cacheVars, toClient>>
CachePart ==
    /\ part = "cache" /\ CacheNext
    /\ UNCHANGED <<part, onHost, callVars, stallVars, toClient>>
MessagesPart ==
    /\ part = "messages" /\ Next
    /\ UNCHANGED <<part, onHost, inProcess, responsesVars, translationVars>>
ResponsesPart ==
    /\ part = "responses" /\ ResponsesNext
    /\ UNCHANGED <<part, onHost, inProcess, vars, translationVars>>
TranslationPart ==
    /\ part = "translation" /\ TranslationNext
    /\ UNCHANGED <<part, onHost, inProcess, vars, responsesVars>>

HostNext ==
    \/ SetupPart \/ FeedPart \/ CallsPart \/ StallPart \/ CachePart
    \/ MessagesPart \/ ResponsesPart \/ TranslationPart

hostVars == <<part, onHost, inProcess, toClient>>

HostSpec ==
    /\ HostInit /\ [][HostNext]_hostVars
    /\ WF_feedVars(part = "feed" /\ GatewayStep)
    /\ WF_feedVars(CacheAges)

(* Every variable of the eight parts has its type. *)
HostTypeOK ==
    /\ SetupTypeOK /\ FeedTypeOK /\ CallsTypeOK /\ StallTypeOK /\ CacheTypeOK
    /\ TypeOK /\ ResponsesTypeOK /\ TranslationTypeOK
=============================================================================
