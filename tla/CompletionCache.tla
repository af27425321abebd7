--------------------------- MODULE CompletionCache ---------------------------
(***************************************************************************)
(* InMemoryCompletionCache, the exact cache the handlers share: bounded,   *)
(* each entry with a time to live of its own, since a tenant may override  *)
(* the configured one.  `get` and `set` hold the cache's lock and await    *)
(* nothing under it, so each is a step; the handlers make them in any      *)
(* order, the backfill after a semantic hit as a `set` like any other.     *)
(* RequestPath says which keys they use and for what.                      *)
(***************************************************************************)
EXTENDS Integers, Sequences, SequencesExt, FiniteSets, FiniteSetsExt

CONSTANTS Keys,          \* what requests are filed under
          CacheSize,     \* max_entries
          CacheTtls,     \* the ttl_seconds a set may come with
          CacheClock,    \* bound on the time
          MaxUses        \* bound on the calls

\* __init__ raises a ValueError for a size of 0.
ASSUME CacheAssumption ==
    /\ CacheSize \in Nat \ {0} /\ CacheTtls \subseteq Int
    /\ CacheClock \in Nat /\ MaxUses \in Nat

VARIABLES entries,   \* _store, the entry that was used least recently first
          instant,   \* time.monotonic
          uses       \* history: the calls, and what they came to

cacheVars == <<entries, instant, uses>>

-----------------------------------------------------------------------------
\* A completion is named by its place among the calls, that of the `set` that brought it.
Entries == [key : Keys, value : 1..MaxUses, expires : Int]
Uses ==
    [op : {"set", "hit", "miss"}, key : Keys, value : 0..MaxUses, at : 0..CacheClock,
     expires : Int]

CacheInit == entries = <<>> /\ instant = 0 /\ uses = <<>>

EntryOf(key) == SelectInSeq(entries, LAMBDA e : e.key = key)
Without(key) == IF EntryOf(key) = 0 THEN entries ELSE RemoveAt(entries, EntryOf(key))

\* Mutant: an entry that is used stays where it is.
MovedNot(key, entry) ==
    IF EntryOf(key) = 0 THEN Append(entries, entry)
    ELSE ReplaceAt(entries, EntryOf(key), entry)

\* move_to_end, with the entry as it is now.
Moved(key, entry) == Append(Without(key), entry)

\* Mutant: an entry still serves at the instant it expires.
ExpiredLater(entry) == entry.expires < instant

Expired(entry) == entry.expires <= instant

\* popitem(last=False) until the cap is kept; whether an entry has expired is not asked.
Evicted(list) == SubSeq(list, Max({1, Len(list) - CacheSize + 1}), Len(list))

-----------------------------------------------------------------------------
Used(op, key, value, expires) ==
    /\ Len(uses) < MaxUses
    /\ uses' = Append(uses, [op |-> op, key |-> key, value |-> value, at |-> instant,
                             expires |-> expires])
    /\ UNCHANGED instant

Hit(key) ==
    /\ EntryOf(key) # 0
    /\ LET entry == entries[EntryOf(key)]
       IN  /\ ~Expired(entry)
           /\ entries' = Moved(key, entry)
           /\ Used("hit", key, entry.value, entry.expires)

\* An expired entry is dropped when it is asked for.
Miss(key) ==
    /\ EntryOf(key) # 0 => Expired(entries[EntryOf(key)])
    /\ entries' = Without(key)
    /\ Used("miss", key, 0, 0)

Set(key, ttl) ==
    LET entry == [key |-> key, value |-> Len(uses) + 1, expires |-> instant + ttl]
    IN  /\ ttl > 0
        /\ entries' = Evicted(Moved(key, entry))
        /\ Used("set", key, entry.value, entry.expires)

\* A ttl of 0 or less stores nothing, and what the key has stays.
SetNothing(key, ttl) ==
    /\ ttl <= 0
    /\ UNCHANGED cacheVars

TimePasses ==
    /\ instant < CacheClock /\ uses # <<>>
    /\ instant' = instant + 1
    /\ UNCHANGED <<entries, uses>>

CacheNext ==
    \/ \E key \in Keys : Hit(key) \/ Miss(key)
    \/ \E key \in Keys, ttl \in CacheTtls : Set(key, ttl) \/ SetNothing(key, ttl)
    \/ TimePasses

CacheSpec == CacheInit /\ [][CacheNext]_cacheVars

-----------------------------------------------------------------------------
(* What must hold *)

\* The calls before the n-th on the key of the n-th that found or stored something.
Touches(n) == {i \in 1..(n - 1) : uses[i].key = uses[n].key /\ uses[i].op # "miss"}
Stores(n) == {i \in Touches(n) : uses[i].op = "set"}

\* It was stored, has not expired, and since it was last touched fewer other keys were
\* than the cache has room for.
DueHit(n) ==
    /\ Stores(n) # {} /\ uses[n].at < uses[Max(Stores(n))].expires
    /\ CacheSize > Cardinality({uses[i].key : i \in {j \in Max(Touches(n))..(n - 1) :
                                  uses[j].op # "miss" /\ uses[j].key # uses[n].key}})

(* Against the history of all calls: a hit returns what was stored last under its key, no
   later than that store's own time to live allows; and a miss was due, for want of a
   store, of time, or of room, for as many other keys as the cache holds were used since. *)
LookupsMatchHistory ==
    \A n \in DOMAIN uses :
      /\ uses[n].op = "hit" =>
           /\ Stores(n) # {}
           /\ LET last == uses[Max(Stores(n))]
              IN  uses[n].value = last.value /\ uses[n].at < last.expires
      /\ uses[n].op = "miss" => ~DueHit(n)

CacheTypeOK ==
    /\ entries \in Seq(Entries) /\ Len(entries) <= CacheSize
    /\ \A i, j \in DOMAIN entries : entries[i].key = entries[j].key => i = j
    /\ instant \in 0..CacheClock
    /\ uses \in Seq(Uses) /\ Len(uses) <= MaxUses
=============================================================================
