----------------------------- MODULE CacheMeter -----------------------------
(***************************************************************************)
(* The simulated prompt cache of src/anthropic/cache_metering.rs and the   *)
(* bill handlers.rs makes of it.  A prompt is system and tools, then       *)
(* messages; the cache holds one entry per prefix that ends at a message,  *)
(* keyed by the digest of an isolation seed and the prefix.  Conversations *)
(* here say the same things, so that only the seed tells them apart.       *)
(***************************************************************************)
EXTENDS CacheSplit, Functions, FiniteSets

CONSTANTS SessionIds,    \* session ids clients send as metadata
          KeyIds,        \* client keys, 0 is the system key
          Prompts,       \* BOOLEAN or a part: does a request have system and tools
          MaxMessages,   \* bound: messages in a request
          MaxMetered,    \* bound: requests the cache meters
          Capacity,      \* DEFAULT_CAPACITY
          ShortTtl, LongTtl, MaxTime,   \* 5m, 1h and the horizon, in ticks
          Modes,         \* cache_force settings an operator chooses
          Totals,        \* token counts of a prompt, in the reported unit
          Reports        \* what the upstream may report as official usage

\* A report is what TokenUsage::sanitized leaves of it; resolve takes a negative
\* total for zero.
ASSUME CacheMeterAssumption ==
    /\ ShortTtl \in Nat \ {0} /\ LongTtl \in Nat /\ LongTtl >= ShortTtl
    /\ Capacity \in Nat \ {0} /\ Prompts \subseteq BOOLEAN
    /\ MaxMessages \in Nat /\ MaxMetered \in Nat /\ MaxTime \in Nat
    /\ Modes \subseteq [mode : {"off", "auto", "force", "official"},
                         creation : Int, hit : Int, cacheable : Int]
    /\ Totals \subseteq Nat
    /\ Reports \subseteq [input : Nat, creation : Nat, read : Nat]

VARIABLES
    entries,       \* Inner.entries: prefix |-> its expiry and last hit
    dirty,         \* Inner.dirty
    cacheFile,     \* cache_metering.json
    now,           \* now_secs
    mode,          \* CacheForceStore
    bill,          \* the usage of the request just answered, or NoBill
    recording,     \* requests between their look-up and their record
    past,          \* history, per client and system prompt: the prefix the last
                   \* request covered, until when, and the longest one ever
    metered        \* how many requests were metered

cacheVars == <<entries, dirty, cacheFile, now, mode, bill, recording, past, metered>>

NoClient == <<"nobody">>
NoSession == "no session"
NoUsage == [read |-> 0, covered |-> 0, prompt |-> 0]
NoReport == Split(0, 0, 0)
NoBill == [mode |-> "none", client |-> NoClient, messages |-> 0, read |-> 0,
           total |-> 0, split |-> AllInput(0), buckets |-> Buckets(0, FALSE)]
Nothing == [depth |-> 0, until |-> 0, most |-> 0]

Owner(session, key) ==
    IF session # NoSession THEN <<"session", session>> ELSE <<"key", key>>
Owners == {Owner(s, k) : s \in SessionIds \cup {NoSession}, k \in KeyIds}
                \ {Owner(NoSession, 0)}

\* isolation_seed: the system key is shared, without a session it has no cache.
HasSeed(session, key) == session # NoSession \/ key # 0
SeedSharedByAll(session, key) == <<"key", 0>>                  \* mutant
Seed(session, key) == Owner(session, key)

\* extract_segments: system and tools, then each message but the last; a
\* message is one token, system and tools are two.
Prefix(seed, sys, k) == [seed |-> seed, system |-> sys, messages |-> k]
Depths(sys, n) == (IF sys THEN {0} ELSE {}) \cup 1..(n - 1)
TokensUpTo(sys, k) == k + (IF sys THEN 2 ELSE 0)

Alive(p) == p \in DOMAIN entries /\ entries[p].expires > now

CacheInit ==
    /\ entries = <<>> /\ dirty = FALSE /\ cacheFile = <<>> /\ now = 0
    /\ mode \in {Clamped(m) : m \in Modes} /\ bill = NoBill /\ recording = <<>>
    /\ past = [o \in Owners \X Prompts |-> Nothing] /\ metered = 0

-----------------------------------------------------------------------------
\* record: every prefix of the request is written again with the ttl of this
\* request, a shorter one too.
Recorded(ps, expires) ==
    [p \in DOMAIN entries \cup ps |->
        IF p \in ps THEN [expires |-> expires, hit |-> now] ELSE entries[p]]

\* Above the capacity the entries hit longest ago go.
Fits(e, kept) ==
    /\ kept \subseteq DOMAIN e
    /\ Cardinality(kept) = AtMost(Cardinality(DOMAIN e), Capacity)
    /\ \A p \in kept, q \in DOMAIN e \ kept : e[q].hit <= e[p].hit

Remember(o, depth, expires, evicted) ==
    past' = [x \in DOMAIN past |->
        LET until == IF evicted THEN 0 ELSE past[x].until
        IN  IF x # o THEN [past[x] EXCEPT !.until = until]
            ELSE [depth |-> depth, until |-> IF evicted THEN 0 ELSE expires,
                  most |-> AtLeast(depth, past[x].most)]]

Charge(client, n, usage, total, official, long) ==
    LET split == Resolve(mode, usage, total, official)
    IN  bill' = [mode |-> mode.mode, client |-> client, messages |-> n, read |-> usage.read,
                 total |-> total, split |-> split, buckets |-> Buckets(split.creation, long)]

\* lookup: the prefixes alive are hit now.
Touched(ps) ==
    [p \in DOMAIN entries |->
        IF p \in ps /\ Alive(p) THEN [expires |-> entries[p].expires, hit |-> now]
        ELSE entries[p]]

\* compute_cache_usage, up to its record: the deepest prefix alive is read, the
\* rest up to the last boundary is created; header is the part of system that
\* changes every turn, which is not hashed.  What is billed is settled here.
LookUp(session, key, sys, n, header, long, total) ==
    /\ mode.mode = "auto" /\ HasSeed(session, key) /\ Depths(sys, n) # {}
    /\ metered < MaxMetered /\ metered' = metered + 1
    /\ LET ps == {Prefix(Seed(session, key), sys, k) : k \in Depths(sys, n)}
           hits == {p.messages : p \in {q \in ps : Alive(q)}}
       IN  /\ entries' = Touched(ps)
           /\ Charge(<<Owner(session, key), sys>>, n,
                     [read |-> IF hits = {} THEN 0 ELSE TokensUpTo(sys, Max(hits)),
                      covered |-> TokensUpTo(sys, Max(Depths(sys, n))),
                      prompt |-> TokensUpTo(sys, n) + header], total, NoReport, long)
    /\ recording' = [r \in DOMAIN recording \cup {metered'} |->
                        IF r = metered' THEN [seed |-> Seed(session, key),
                                              owner |-> Owner(session, key), system |-> sys,
                                              messages |-> n, long |-> long]
                        ELSE recording[r]]
    /\ UNCHANGED <<dirty, cacheFile, now, mode, past>>

\* Its record takes the lock again: other requests, a flush or an eviction may
\* have come between.
Record(r) ==
    /\ r \in DOMAIN recording /\ recording' = Restrict(recording, DOMAIN recording \ {r})
    /\ LET req == recording[r]
           depths == Depths(req.system, req.messages)
           expires == now + (IF req.long THEN LongTtl ELSE ShortTtl)
           all == Recorded({Prefix(req.seed, req.system, k) : k \in depths}, expires)
       IN  \E kept \in SUBSET DOMAIN all :
               /\ Fits(all, kept) /\ entries' = Restrict(all, kept)
               /\ Remember(<<req.owner, req.system>>, Max(depths), expires, kept # DOMAIN all)
    /\ dirty' = TRUE /\ bill' = NoBill /\ UNCHANGED <<cacheFile, now, mode, metered>>

\* The requests that leave the cache alone: the other modes, the system key
\* without a session, a prompt of one message with neither system nor tools.
Unmetered(long, total, official) ==
    /\ Charge(NoClient, 0, NoUsage, total, IF mode.mode = "official" THEN official ELSE NoReport, long)
    /\ UNCHANGED <<entries, dirty, cacheFile, now, mode, recording, past, metered>>

-----------------------------------------------------------------------------
(* spawn_background, the operator, time, and a restart                     *)

AliveOf(e) == Restrict(e, {p \in DOMAIN e : e[p].expires > now})

\* evict_expired then flush_to_disk, whose write may fail after dirty is clear.
Background(ok) ==
    /\ entries' = AliveOf(entries)
    /\ LET changed == dirty \/ entries' # entries
       IN  cacheFile' = IF changed /\ ok THEN entries' ELSE cacheFile
    /\ dirty' = FALSE /\ bill' = NoBill
    /\ UNCHANGED <<now, mode, recording, past, metered>>

\* CacheForceStore clamps what it loads and what the panel sends.
SetMode(m) ==
    /\ mode' = Clamped(m) /\ bill' = NoBill
    /\ UNCHANGED <<entries, dirty, cacheFile, now, recording, past, metered>>

Tick ==
    /\ now < MaxTime /\ now' = now + 1 /\ bill' = NoBill
    /\ UNCHANGED <<entries, dirty, cacheFile, mode, recording, past, metered>>

CacheRestart ==
    /\ entries' = AliveOf(cacheFile) /\ dirty' = FALSE /\ bill' = NoBill /\ recording' = <<>>
    /\ past' = [x \in DOMAIN past |-> [past[x] EXCEPT !.until = 0]]
    /\ UNCHANGED <<cacheFile, now, mode, metered>>

CacheNext ==
    \/ \E total \in Totals, long \in BOOLEAN :
        \/ \E s \in SessionIds \cup {NoSession}, k \in KeyIds, sys \in Prompts,
              n \in 1..MaxMessages, header \in 0..1 :
                LookUp(s, k, sys, n, header, long, total)
        \/ \E r \in Reports : Unmetered(long, total, r)
    \/ \E r \in DOMAIN recording : Record(r)
    \/ \E ok \in BOOLEAN : Background(ok)
    \/ \E m \in Modes : SetMode(m)
    \/ Tick \/ CacheRestart

-----------------------------------------------------------------------------
(* Properties                                                              *)

\* A client's next turn, within the ttl of the last one that was recorded and
\* with nothing evicted or restarted since, reads at least what that turn
\* covered, whoever looks up and records in between; and no turn reads a prefix
\* this client (its session, else its key) never sent.
ReadsItsOwnPrefix ==
    [][bill'.client # NoClient =>
        LET mine == past[bill'.client]
            sys == bill'.client[2]
        IN  /\ (mine.until > now /\ mine.depth < bill'.messages) =>
                    bill'.read >= TokensUpTo(sys, mine.depth)
            /\ bill'.read > 0 => bill'.read <= TokensUpTo(sys, mine.most)]_cacheVars

\* Every token of a prompt is billed exactly once, whatever the ratios round
\* to: input, creation and read add up to the total outside Official mode, none
\* is negative, a forced split keeps one token of input, and the two ttl
\* buckets add up to the creation.
TokensBilledOnce ==
    LET s == bill.split
    IN  /\ bill.mode # "official" => s.input + s.creation + s.read = bill.total
        /\ s.input >= 0 /\ s.creation >= 0 /\ s.read >= 0
        /\ (bill.mode = "force" /\ bill.total > 0) => s.input >= 1
        /\ bill.buckets.fiveMinutes + bill.buckets.oneHour = s.creation
=============================================================================
