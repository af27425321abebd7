---------------------------- MODULE RegistryFeed ----------------------------
(***************************************************************************)
(* The live model registry: at startup the gateway takes it from its disk  *)
(* cache or from a signed feed, and routes on the bundled seed if it can   *)
(* have neither (RegistryFeedClient.fetch, _maybe_load_registry_feed).     *)
(*                                                                         *)
(* The process may be killed between any two steps, also while the cache   *)
(* is written; nothing in the code starts it again.  The feed's server may *)
(* answer with an error, with something its publisher did not sign, or     *)
(* with any document that was ever published; documents expire and the     *)
(* cache file ages.                                                        *)
(***************************************************************************)
EXTENDS Integers

CONSTANTS MaxVersion,   \* bound on the documents published
          MaxStops,     \* bound on the times the gateway is stopped or killed
          Flaws         \* what may be wrong with a document its publisher signed

ASSUME RegistryFeedAssumption ==
    /\ MaxVersion \in Nat /\ MaxStops \in Nat
    /\ Flaws \subseteq {"schema", "envelope", "registry", "version"}

VARIABLES gateway,      \* where the process stands
          cacheFile,    \* the file at registry_feed_cache_path
          loaded,       \* the document fetch() goes by
          registry,     \* app.state.model_registry
          routed,       \* the registry the router was built on
          newest,       \* the versions published so far are 1..newest
          flaw,         \* what is wrong with each version
          expired,      \* the versions whose valid_until has passed
          bootExpired,  \* history: those that had when the gateway was started
          raised,       \* history: a start failed
          stops         \* how often the gateway was stopped

feedVars == <<gateway, cacheFile, loaded, registry, routed, newest, flaw, expired,
              bootExpired, raised, stops>>

-----------------------------------------------------------------------------
Versions == 1..MaxVersion
Seed == 0

\* A file cut short is text that is no JSON, or ends within a character.
CacheFiles ==
    [state : {"absent", "cutText", "cutCharacter", "whole"}, version : Versions \cup {Seed},
     fresh : BOOLEAN]
NoFile == [state |-> "absent", version |-> Seed, fresh |-> FALSE]

\* A document whose schema, valid_until or rows are refused has the flaw "schema".  What
\* _validate_envelope fails on, like a valid_until that is no string or has no time zone,
\* is an "envelope" flaw, and raises whatever has expired; a "registry" that from_json
\* fails on with anything but a KeyError or ValueError, and a feed_version that is no
\* number, raise only then not.
Raises(v) ==
    \/ flaw[v] = "envelope"
    \/ flaw[v] \in {"registry", "version"} /\ v \notin expired
Valid(v) == flaw[v] = "none" /\ v \notin expired

FeedInit ==
    /\ gateway = "down"
    /\ cacheFile = NoFile
    /\ loaded = Seed /\ registry = Seed /\ routed = Seed
    /\ newest = 0
    /\ flaw \in [Versions -> Flaws \cup {"none"}]
    /\ expired = {} /\ bootExpired = {}
    /\ raised = FALSE /\ stops = 0

\* The operator's: build_app builds the router on the bundled registry; lifespan then loads the feed.
StartGateway ==
    /\ gateway = "down"
    /\ gateway' = "cache"
    /\ loaded' = Seed /\ registry' = Seed /\ routed' = Seed
    /\ bootExpired' = expired
    /\ UNCHANGED <<cacheFile, newest, flaw, expired, raised, stops>>

\* An exception out of lifespan ends the process.
StartFails == gateway' = "down" /\ raised' = TRUE /\ UNCHANGED loaded
GoesOn(to) == gateway' = to /\ UNCHANGED <<raised, loaded>>
Takes(v, to) == gateway' = to /\ loaded' = v /\ UNCHANGED raised

\* Mutant: the envelope of a cached document is not looked at.
ReadCacheUnvalidated ==
    /\ gateway = "cache"
    /\ IF cacheFile.state = "absent" \/ ~cacheFile.fresh THEN GoesOn("network")
       ELSE CASE cacheFile.state = "cutText" -> GoesOn("network")
              [] cacheFile.state = "cutCharacter" -> StartFails
              [] OTHER -> Takes(cacheFile.version, "swap")
    /\ UNCHANGED <<cacheFile, registry, routed, newest, flaw, expired, bootExpired, stops>>

\* Mutant: the file's age is not looked at.
ReadCacheAgeless ==
    /\ gateway = "cache"
    /\ IF cacheFile.state = "absent" THEN GoesOn("network")
       ELSE CASE cacheFile.state = "cutText" -> GoesOn("network")
              [] cacheFile.state = "cutCharacter" -> StartFails
              [] OTHER -> IF Raises(cacheFile.version) THEN StartFails
                          ELSE IF Valid(cacheFile.version)
                               THEN Takes(cacheFile.version, "swap")
                               ELSE GoesOn("network")
    /\ UNCHANGED <<cacheFile, registry, routed, newest, flaw, expired, bootExpired, stops>>

\* _read_cache; a file that ends within a character is a UnicodeDecodeError, which it
\* does not catch.
ReadCache ==
    /\ gateway = "cache"
    /\ IF cacheFile.state = "absent" \/ ~cacheFile.fresh THEN GoesOn("network")
       ELSE CASE cacheFile.state = "cutText" -> GoesOn("network")
              [] cacheFile.state = "cutCharacter" -> StartFails
              [] OTHER -> IF Raises(cacheFile.version) THEN StartFails
                          ELSE IF Valid(cacheFile.version)
                               THEN Takes(cacheFile.version, "swap")
                               ELSE GoesOn("network")
    /\ UNCHANGED <<cacheFile, registry, routed, newest, flaw, expired, bootExpired, stops>>

\* An error or a signature that does not verify: the seed stays in place.
FetchFails ==
    /\ gateway = "network"
    /\ GoesOn("up")
    /\ UNCHANGED <<cacheFile, registry, routed, newest, flaw, expired, bootExpired, stops>>

\* The server answers with version v, not necessarily the newest.  Its feed_version is
\* looked at only when it is in the cache file.
FetchAnswers(v) ==
    /\ gateway = "network" /\ v <= newest
    /\ \/ Raises(v) /\ flaw[v] # "version" /\ StartFails
       \/ Valid(v) /\ Takes(v, "persist")
       \/ Raises(v) /\ flaw[v] = "version" /\ Takes(v, "persist")
       \/ ~Raises(v) /\ ~Valid(v) /\ GoesOn("up")
    /\ UNCHANGED <<cacheFile, registry, routed, newest, flaw, expired, bootExpired, stops>>

\* _write_cache truncates the file and writes it in place.
WriteCacheBegins ==
    /\ gateway = "persist"
    /\ gateway' = "persisting"
    /\ \E cut \in {"cutText", "cutCharacter"} :
         cacheFile' = [state |-> cut, version |-> Seed, fresh |-> TRUE]
    /\ UNCHANGED <<loaded, registry, routed, newest, flaw, expired, bootExpired, raised,
                   stops>>

\* The FeedFetchResult of the document in hand, with int(feed_version).
Fetched == IF flaw[loaded] = "version" THEN StartFails ELSE GoesOn("swap")

WriteCacheEnds ==
    /\ gateway = "persisting"
    /\ Fetched
    /\ cacheFile' = [state |-> "whole", version |-> loaded, fresh |-> TRUE]
    /\ UNCHANGED <<registry, routed, newest, flaw, expired, bootExpired, stops>>

\* An OSError is logged; or no cache path is set.
WriteCacheFails ==
    /\ gateway \in {"persist", "persisting"}
    /\ Fetched
    /\ UNCHANGED <<cacheFile, registry, routed, newest, flaw, expired, bootExpired, stops>>

\* Mutant: the router keeps the registry it was built on.
SwapRegistryOnly ==
    /\ gateway = "swap"
    /\ gateway' = "up"
    /\ registry' = loaded
    /\ UNCHANGED <<cacheFile, loaded, routed, newest, flaw, expired, bootExpired, raised,
                   stops>>

\* The registry is swapped, and the gateway's own router rebuilt on it.
SwapRegistry ==
    /\ gateway = "swap"
    /\ gateway' = "up"
    /\ registry' = loaded /\ routed' = loaded
    /\ UNCHANGED <<cacheFile, loaded, newest, flaw, expired, bootExpired, raised, stops>>

\* A kill anywhere, or a shutdown.
StopGateway ==
    /\ gateway # "down" /\ stops < MaxStops
    /\ gateway' = "down" /\ stops' = stops + 1
    /\ UNCHANGED <<cacheFile, loaded, registry, routed, newest, flaw, expired, bootExpired,
                   raised>>

-----------------------------------------------------------------------------
(* The world around it *)

CacheAges ==
    /\ cacheFile.fresh
    /\ cacheFile' = [cacheFile EXCEPT !.fresh = FALSE]
    /\ UNCHANGED <<gateway, loaded, registry, routed, newest, flaw, expired, bootExpired,
                   raised, stops>>

Publish ==
    /\ newest < MaxVersion
    /\ newest' = newest + 1
    /\ UNCHANGED <<gateway, cacheFile, loaded, registry, routed, flaw, expired, bootExpired,
                   raised, stops>>

Expire(v) ==
    /\ v <= newest /\ v \notin expired
    /\ expired' = expired \cup {v}
    /\ UNCHANGED <<gateway, cacheFile, loaded, registry, routed, newest, flaw, bootExpired,
                   raised, stops>>

\* What the process does by itself; starting and stopping it is the operator's.
GatewayStep ==
    \/ ReadCache
    \/ FetchFails \/ \E v \in Versions : FetchAnswers(v)
    \/ WriteCacheBegins \/ WriteCacheEnds \/ WriteCacheFails
    \/ SwapRegistry

FeedNext ==
    \/ GatewayStep
    \/ StartGateway \/ StopGateway
    \/ CacheAges \/ Publish
    \/ \E v \in Versions : Expire(v)

FeedSpec ==
    FeedInit /\ [][FeedNext]_feedVars /\ WF_feedVars(GatewayStep) /\ WF_feedVars(CacheAges)

-----------------------------------------------------------------------------
(* What must hold *)

(* The gateway serves on the bundled seed or on a document its publisher signed, without a
   flaw and not yet expired when the gateway was started, also when it comes from a cache
   an earlier process wrote; and it routes on the registry it advertises. *)
RegistryVouchedFor ==
    gateway = "up" =>
        /\ routed = registry
        /\ registry # Seed =>
             registry <= newest /\ flaw[registry] = "none" /\ registry \notin bootExpired

(* A gateway that is started again whenever a start failed, which is for the operator to
   see to, comes up once it is not stopped any more, unless a published document raises:
   what a kill left in the cache fails its starts only until the file is older than the
   TTL. *)
ComesUp ==
    []<>(gateway # "down") =>
      (gateway \notin {"down", "up"} ~> gateway = "up" \/ \E v \in 1..newest : Raises(v))

(* "Never raises. Inspect result.source to see what produced the registry." *)
FetchNeverRaises == ~raised

FeedTypeOK ==
    /\ gateway \in {"down", "cache", "network", "persist", "persisting", "swap", "up"}
    /\ cacheFile \in CacheFiles
    /\ loaded \in Versions \cup {Seed} /\ registry \in Versions \cup {Seed}
    /\ routed \in Versions \cup {Seed}
    /\ newest \in 0..MaxVersion
    /\ flaw \in [Versions -> Flaws \cup {"none"}]
    /\ expired \subseteq Versions /\ bootExpired \subseteq Versions
    /\ raised \in BOOLEAN
    /\ stops \in 0..MaxStops
=============================================================================
