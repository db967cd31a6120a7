-------------------------- MODULE BackOffice_proofs --------------------------
(***************************************************************************)
(* Proofs about what stands behind the requests, for every value of the    *)
(* constants.                                                              *)
(*                                                                         *)
(*   CacheMeter      the bill of the simulated prompt cache adds up for    *)
(*                   every setting, total and prefix, and a client reads   *)
(*                   from the cache what it wrote there, neither less nor  *)
(*                   more                                                  *)
(*   TraceLog        failures are counted against the account that had     *)
(*                   them                                                  *)
(*   UsageStats      the chart shows of each day what the logs hold of it  *)
(*   ProxyPool       a proxy is judged by its own probes                   *)
(*   LoginSessions   an authorisation is spent once, and a callback server *)
(*                   belongs to a session or to the request that took it   *)
(*   Registry        by_key is the inverse of the entries, a revoked       *)
(*                   plaintext stays dead, and the registry knows every    *)
(*                   group that is named, whatever handlers interleave and *)
(*                   whatever crashes in the middle of a cascade           *)
(***************************************************************************)
EXTENDS MCBackOffice, FiniteSetTheorems, WellFoundedInduction, TLAPS

CacheSpec == CacheInit /\ [][CacheNext]_cacheVars

-----------------------------------------------------------------------------
(* Lemmas about the operators of the model                                 *)

\* A nonempty bounded set of naturals has a maximum, the least of its bounds.
LEMMA MaxOfNats ==
    ASSUME NEW S, S \subseteq Nat, S # {},
           NEW n \in Nat, \A x \in S : x <= n
    PROVE  Max(S) \in S /\ \A y \in S : Max(S) >= y
<1> DEFINE Bounds == {b \in Nat : \A x \in S : x <= b}
<1>1. Bounds \subseteq Nat /\ Bounds # {}
  OBVIOUS
<1>2. PICK m \in Bounds : \A y \in Bounds : ~ (<<y, m>> \in OpToRel(<, Nat))
  BY <1>1, NatLessThanWellFounded, WFMin
<1>3. \A y \in Bounds : ~ (y < m)
  <2> SUFFICES ASSUME NEW y \in Bounds, y < m PROVE FALSE
    OBVIOUS
  <2>1. y \in Nat /\ m \in Nat
    BY <1>1
  <2>2. <<y, m>> \in OpToRel(<, Nat)
    BY <2>1 DEF OpToRel
  <2> QED
    BY <1>2, <2>2
<1>4. m \in S
  <2> SUFFICES ASSUME m \notin S PROVE FALSE
    OBVIOUS
  <2>1. \A x \in S : x < m /\ x \in Nat
    OBVIOUS
  <2>2. PICK x \in S : x \in Nat /\ x < m
    BY <2>1
  <2>3. m \in Nat /\ m # 0 /\ m - 1 \in Nat
    BY <1>1, <2>2
  <2>4. m - 1 \in Bounds
    BY <2>1, <2>3
  <2> QED
    BY <1>3, <2>3, <2>4
<1>5. \A y \in S : m >= y
  BY <1>1, \A y \in S : y <= m
<1>6. \E x \in S : \A y \in S : x >= y
  BY <1>4, <1>5
<1> QED
  BY <1>6, Zenon DEF Max

\* round() of a nonnegative number is a nonnegative integer.
LEMMA RoundedIsNat ==
    ASSUME NEW n \in Nat, NEW d \in Nat \ {0}
    PROVE  Rounded(n, d) \in Nat
<1> DEFINE a == 2 * n + d
           b == 2 * d
<1>1. a \in Nat /\ b \in Nat /\ b > 0
  OBVIOUS
<1> HIDE DEF a, b
<1>2. a \div b \in Nat
  BY <1>1
<1> QED
  BY <1>2 DEF Rounded, a, b

\* A product of naturals is one.
LEMMA ProductIsNat ==
    ASSUME NEW a \in Nat, NEW b \in Nat
    PROVE  a * b \in Nat
  OBVIOUS

\* The parts of a split are counts and add up to the total.
AddsUp(split, total) ==
    /\ split.input \in Nat /\ split.creation \in Nat /\ split.read \in Nat
    /\ split.input + split.creation + split.read = total

Usages == [read : Nat, covered : Nat, prompt : Nat]

\* split_against_total bills every token once, whatever the estimates say.
LEMMA SplitAddsUp ==
    ASSUME NEW usage \in Usages, NEW total \in Nat
    PROVE  AddsUp(SplitAgainstTotal(usage, total), total)
<1>1. usage.read \in Nat /\ usage.covered \in Nat /\ usage.prompt \in Nat
  BY DEF Usages
<1>2. CASE usage.covered <= 0 \/ usage.prompt <= 0
  BY <1>2 DEF SplitAgainstTotal, AddsUp, AllInput, Split
<1>3. CASE usage.covered > 0 /\ usage.prompt > 0
  <2> DEFINE ratio == AtMost(usage.covered, usage.prompt)
             cached0 == Rounded(total * ratio, usage.prompt)
             cached == AtMost(cached0, total)
             read0 == Rounded(cached * usage.read, usage.covered)
             read == AtMost(read0, cached)
  <2>1. ratio \in Nat
    BY <1>1 DEF AtMost
  <2> HIDE DEF ratio
  <2>2. cached0 \in Nat
    BY <1>1, <1>3, <2>1, ProductIsNat, RoundedIsNat
  <2> HIDE DEF cached0
  <2>3. cached \in Nat /\ cached <= total
    BY <2>2 DEF AtMost
  <2> HIDE DEF cached
  <2>4. read0 \in Nat
    BY <1>1, <1>3, <2>3, ProductIsNat, RoundedIsNat
  <2> HIDE DEF read0
  <2>5. read \in Nat /\ read <= cached
    BY <2>3, <2>4 DEF AtMost
  <2> HIDE DEF read
  <2>6. SplitAgainstTotal(usage, total) = Split(total - cached, cached - read, read)
    BY <1>1, <1>3 DEF SplitAgainstTotal, read, read0, cached, cached0, ratio
  <2> QED
    BY <2>3, <2>5, <2>6 DEF Split, AddsUp
<1> QED
  BY <1>1, <1>2, <1>3

\* What the panel can set, once clamped.
Settings == [mode : {"off", "auto", "force", "official"},
             creation : 0..100, hit : 0..100, cacheable : 0..100]

\* The clamp takes any setting of the operator into that range.
LEMMA ClampedIsSetting ==
    ASSUME NEW m \in Modes
    PROVE  Clamped(m) \in Settings
<1> DEFINE Squeezed(x) == AtMost(AtLeast(x, 0), 100)
<1>1. \A x \in Int : Squeezed(x) \in 0..100
  BY DEF AtMost, AtLeast
<1>2. m \in [mode : {"off", "auto", "force", "official"},
             creation : Int, hit : Int, cacheable : Int]
  BY CacheMeterAssumption
<1> HIDE DEF Squeezed
<1>3. Clamped(m) = [m EXCEPT !.creation = Squeezed(@), !.hit = Squeezed(@),
                             !.cacheable = Squeezed(@)]
  BY DEF Clamped, Squeezed
<1>4. /\ Squeezed(m.creation) \in 0..100 /\ Squeezed(m.hit) \in 0..100
      /\ Squeezed(m.cacheable) \in 0..100
  BY <1>1, <1>2
<1> QED
  BY <1>2, <1>3, <1>4 DEF Settings

\* simulate bills every token once and keeps one of fresh input, whatever the
\* three ratios.
LEMMA SimulateAddsUp ==
    ASSUME NEW s \in Settings, NEW total \in Nat
    PROVE  /\ AddsUp(Simulate(s, total), total)
           /\ total > 0 => Simulate(s, total).input >= 1
<1>1. s.creation \in Nat /\ s.hit \in Nat /\ s.cacheable \in Nat
  BY DEF Settings
<1>2. CASE total <= 1
  <2>1. Simulate(s, total) = [input |-> total, creation |-> 0, read |-> 0]
    BY <1>2 DEF Simulate, AllInput, Split
  <2> QED
    BY <1>2, <2>1 DEF AddsUp
<1>3. CASE total > 1
  <2> DEFINE base0 == Rounded(total * s.cacheable, 100)
             base == AtMost(base0, total - 1)
             creation0 == Rounded(base * s.creation, 100)
             read0 == Rounded(base * s.hit, 100)
             sum == creation0 + read0
             creation1 == IF sum > base THEN Rounded(creation0 * base, sum) ELSE creation0
             read1 == IF sum > base THEN Rounded(read0 * base, sum) ELSE read0
             creation == AtMost(creation1, total - 1)
             read == ReadCapped(creation, read1, total - 1)
  <2>1. base0 \in Nat
    BY <1>1, ProductIsNat, RoundedIsNat
  <2> HIDE DEF base0
  <2>2. base \in Nat
    BY <1>3, <2>1 DEF AtMost
  <2> HIDE DEF base
  <2>3. creation0 \in Nat /\ read0 \in Nat
    BY <1>1, <2>2, ProductIsNat, RoundedIsNat
  <2> HIDE DEF creation0, read0
  <2>4. creation0 * base \in Nat /\ read0 * base \in Nat
    BY <2>2, <2>3, ProductIsNat
  <2>5. sum \in Nat /\ (sum > base => sum \in Nat \ {0})
    BY <2>2, <2>3
  <2> HIDE DEF sum
  <2>6. creation1 \in Nat /\ read1 \in Nat
    BY <2>3, <2>4, <2>5, RoundedIsNat
  <2> HIDE DEF creation1, read1
  <2>7. creation \in Nat /\ creation <= total - 1
    BY <1>3, <2>6 DEF AtMost
  <2> HIDE DEF creation
  <2>8. read \in Nat /\ creation + read <= total - 1
    BY <1>3, <2>6, <2>7 DEF ReadCapped, AtLeast
  <2> HIDE DEF read
  <2>9. Simulate(s, total) = Split(AtLeast(total - creation - read, 1), creation, read)
    BY <1>3 DEF Simulate, read, creation, read1, creation1, sum, read0, creation0, base, base0
  <2> QED
    BY <1>3, <2>7, <2>8, <2>9 DEF Split, AddsUp, AtLeast
<1> QED
  BY <1>2, <1>3


\* resolve bills a prompt once in every mode but Official, where the upstream's
\* own counts stand.
LEMMA ResolveAddsUp ==
    ASSUME NEW s \in Settings, NEW usage \in Usages, NEW total \in Nat,
           NEW official \in [input : Nat, creation : Nat, read : Nat]
    PROVE  LET split == Resolve(s, usage, total, official)
           IN  /\ split.input \in Nat /\ split.creation \in Nat /\ split.read \in Nat
               /\ s.mode # "official" => split.input + split.creation + split.read = total
               /\ (s.mode = "force" /\ total > 0) => split.input >= 1
<1> DEFINE split == Resolve(s, usage, total, official)
<1>0. s.mode \in {"off", "auto", "force", "official"}
  BY DEF Settings
<1>1. CASE s.mode = "off"
  BY <1>1 DEF Resolve, AllInput, Split
<1>2. CASE s.mode = "auto"
  <2>1. split = SplitAgainstTotal(usage, total)
    BY <1>2 DEF Resolve
  <2> QED
    BY <1>2, <2>1, SplitAddsUp DEF AddsUp
<1>3. CASE s.mode = "force"
  <2>1. split = Simulate(s, total)
    BY <1>3 DEF Resolve
  <2> QED
    BY <1>3, <2>1, SimulateAddsUp DEF AddsUp
<1>4. CASE s.mode = "official"
  <2>1. split = official \/ split = [input |-> total, creation |-> 0, read |-> 0]
    BY <1>4 DEF Resolve, AllInput, Split
  <2> QED
    BY <1>4, <2>1
<1> QED
  BY <1>0, <1>1, <1>2, <1>3, <1>4

\* The boundaries of a prompt are below its message count, the deepest is one
\* of them, and there is a boundary at zero only below a system prompt.
LEMMA DeepestBoundary ==
    ASSUME NEW sys \in BOOLEAN, NEW n \in Nat, Depths(sys, n) # {}
    PROVE  LET depth == Max(Depths(sys, n))
           IN  /\ depth \in Nat /\ (sys \/ depth > 0)
               /\ depth \in Depths(sys, n)
               /\ \A k \in Depths(sys, n) : k \in Nat /\ k <= depth
<1>1. Depths(sys, n) \subseteq Nat /\ \A k \in Depths(sys, n) : k <= n
  BY DEF Depths
<1>2. /\ Max(Depths(sys, n)) \in Depths(sys, n)
      /\ \A k \in Depths(sys, n) : Max(Depths(sys, n)) >= k
  BY <1>1, MaxOfNats
<1>3. \A k \in Depths(sys, n) : sys \/ k > 0
  BY DEF Depths
<1> QED
  BY <1>1, <1>2, <1>3

\* What a prefix costs grows with its depth.
LEMMA TokensGrow ==
    ASSUME NEW sys \in BOOLEAN, NEW j \in Nat, NEW k \in Nat, j <= k
    PROVE  /\ TokensUpTo(sys, j) \in Nat /\ TokensUpTo(sys, k) \in Nat
           /\ TokensUpTo(sys, j) <= TokensUpTo(sys, k)
  BY DEF TokensUpTo

\* A client with a seed of its own is one of the owners.
LEMMA OwnerHasSeed ==
    ASSUME NEW sess \in SessionIds \cup {NoSession}, NEW key \in KeyIds,
           HasSeed(sess, key)
    PROVE  Owner(sess, key) \in Owners
<1>1. Owner(sess, key) # Owner(NoSession, 0)
  <2>1. CASE sess # NoSession
    BY <2>1 DEF Owner
  <2>2. CASE sess = NoSession
    BY <2>2 DEF Owner, HasSeed
  <2> QED
    BY <2>1, <2>2
<1> QED
  BY <1>1 DEF Owners

-----------------------------------------------------------------------------
(* The inductive invariant                                                 *)

\* Every entry of a cache belongs to a client and is no deeper than the
\* longest prefix that client ever sent.
Sent(cache) ==
    \A p \in DOMAIN cache :
        /\ cache[p].expires \in Nat /\ p.messages \in Nat
        /\ <<p.seed, p.system>> \in Owners \X Prompts
        /\ p.messages <= past[<<p.seed, p.system>>].most

\* The last request of a client is still covered while its ttl runs.
LastStillCovered ==
    \A o \in Owners, sys \in Prompts :
        LET last == past[<<o, sys>>]
            p == Prefix(o, sys, last.depth)
        IN  last.until > now =>
                /\ sys \/ last.depth > 0
                /\ p \in DOMAIN entries /\ entries[p].expires >= last.until

Histories == [depth : Nat, until : Nat, most : Nat]

\* What waits for its record was said by a client, and has a boundary.
LookedUp == [seed : Owners, owner : Owners, system : Prompts, messages : 1..MaxMessages,
             long : BOOLEAN]
RecordingTyped ==
    \A r \in DOMAIN recording :
        /\ recording[r] \in LookedUp /\ recording[r].seed = recording[r].owner
        /\ Depths(recording[r].system, recording[r].messages) # {}

CacheIInv ==
    /\ mode \in Settings /\ now \in Nat
    /\ RecordingTyped
    /\ past \in [Owners \X Prompts -> Histories]
    /\ Sent(entries) /\ Sent(cacheFile)
    /\ LastStillCovered
    /\ TokensBilledOnce


LEMMA CacheInvInit ==
    ASSUME CacheInit
    PROVE  CacheIInv
<1>1. mode \in Settings
  BY ClampedIsSetting DEF CacheInit
<1>2. past \in [Owners \X Prompts -> Histories]
  BY DEF CacheInit, Nothing, Histories
<1>3. Sent(entries) /\ Sent(cacheFile)
  BY DEF CacheInit, Sent
<1>4. LastStillCovered
  <2>1. \A o \in Owners, sys \in Prompts : past[<<o, sys>>].until = 0
    BY DEF CacheInit, Nothing
  <2> QED
    BY <2>1 DEF CacheInit, LastStillCovered
<1>5. TokensBilledOnce
  BY DEF CacheInit, TokensBilledOnce, NoBill, AllInput, Split, Buckets
<1>6. RecordingTyped
  BY DEF CacheInit, RecordingTyped
<1> QED
  BY <1>1, <1>2, <1>3, <1>4, <1>5, <1>6 DEF CacheInit, CacheIInv

\* A charge tells the tokens of a prompt apart without losing any.
LEMMA ChargeAddsUp ==
    ASSUME CacheIInv,
           NEW client, NEW n, NEW usage \in Usages, NEW total \in Totals,
           NEW official \in [input : Nat, creation : Nat, read : Nat],
           NEW long \in BOOLEAN, Charge(client, n, usage, total, official, long)
    PROVE  TokensBilledOnce'
<1> DEFINE split == Resolve(mode, usage, total, official)
<1>1. total \in Nat /\ mode \in Settings
  BY CacheMeterAssumption DEF CacheIInv
<1>2. /\ split.input \in Nat /\ split.creation \in Nat /\ split.read \in Nat
      /\ mode.mode # "official" => split.input + split.creation + split.read = total
      /\ (mode.mode = "force" /\ total > 0) => split.input >= 1
  BY <1>1, ResolveAddsUp
<1>3. /\ bill'.split = split /\ bill'.mode = mode.mode /\ bill'.total = total
      /\ bill'.buckets = [fiveMinutes |-> IF long THEN 0 ELSE split.creation,
                          oneHour |-> IF long THEN split.creation ELSE 0]
  BY DEF Charge, Buckets
<1> HIDE DEF split
<1>4. bill'.buckets.fiveMinutes + bill'.buckets.oneHour = split.creation
  BY <1>2, <1>3
<1> QED
  BY <1>2, <1>3, <1>4 DEF TokensBilledOnce

\* NoBill bills nothing.
LEMMA NoBillAddsUp ==
    ASSUME bill' = NoBill
    PROVE  TokensBilledOnce'
  BY DEF TokensBilledOnce, NoBill, AllInput, Split, Buckets

\* Both caches stay within what was sent when they only shrink or are copied.
LEMMA SentOfLess ==
    ASSUME past \in [Owners \X Prompts -> Histories],
           past' \in [Owners \X Prompts -> Histories],
           \A x \in Owners \X Prompts : past'[x].most >= past[x].most,
           NEW cache, Sent(cache), NEW kept \in SUBSET DOMAIN cache,
           NEW after, after = Restrict(cache, kept)
    PROVE  \A p \in DOMAIN after :
               /\ after[p].expires \in Nat /\ p.messages \in Nat
               /\ <<p.seed, p.system>> \in Owners \X Prompts
               /\ p.messages <= past'[<<p.seed, p.system>>].most
<1> SUFFICES ASSUME NEW p \in DOMAIN after
             PROVE  /\ after[p].expires \in Nat /\ p.messages \in Nat
                    /\ <<p.seed, p.system>> \in Owners \X Prompts
                    /\ p.messages <= past'[<<p.seed, p.system>>].most
  OBVIOUS
<1>1. p \in DOMAIN cache /\ after[p] = cache[p]
  BY DEF Restrict
<1> DEFINE x == <<p.seed, p.system>>
<1>2. /\ cache[p].expires \in Nat /\ p.messages \in Nat /\ x \in Owners \X Prompts
      /\ p.messages <= past[x].most
  BY <1>1 DEF Sent
<1> HIDE DEF x
<1>3. past[x].most \in Nat /\ past'[x].most \in Nat /\ past'[x].most >= past[x].most
  BY <1>2 DEF Histories
<1> QED
  BY <1>1, <1>2, <1>3 DEF x

\* Time, a flush and a restart, and a change of the settings.
LEMMA CacheUpkeep ==
    ASSUME CacheIInv,
           \/ \E ok \in BOOLEAN : Background(ok)
           \/ \E m \in Modes : SetMode(m)
           \/ Tick \/ CacheRestart
    PROVE  CacheIInv'
<1> USE DEF CacheIInv
<1>0. TokensBilledOnce'
  BY NoBillAddsUp DEF Background, SetMode, Tick, CacheRestart
<1>5. RecordingTyped'
  <2>1. UNCHANGED recording \/ recording' = <<>>
    BY DEF Background, SetMode, Tick, CacheRestart
  <2> QED
    BY <2>1 DEF RecordingTyped
<1>1. CASE \E ok \in BOOLEAN : Background(ok)
  <2>1. /\ entries' = Restrict(entries, {p \in DOMAIN entries : entries[p].expires > now})
        /\ cacheFile' = entries' \/ cacheFile' = cacheFile
        /\ mode' = mode /\ now' = now /\ past' = past
    BY <1>1 DEF Background, AliveOf
  <2>2. \A x \in Owners \X Prompts : past'[x].most >= past[x].most
    BY <2>1 DEF Histories
  <2>3. Sent(entries)'
    BY <2>1, <2>2, SentOfLess DEF Sent
  <2>4. Sent(cacheFile)'
    BY <2>1, <2>3 DEF Sent
  <2>5. LastStillCovered'
    <3> SUFFICES ASSUME NEW o \in Owners, NEW sys \in Prompts,
                        past[<<o, sys>>].until > now
                 PROVE  LET last == past[<<o, sys>>]
                            p == Prefix(o, sys, last.depth)
                        IN  /\ sys \/ last.depth > 0
                            /\ p \in DOMAIN entries' /\ entries'[p].expires >= last.until
      BY <2>1 DEF LastStillCovered
    <3> DEFINE last == past[<<o, sys>>]
               p == Prefix(o, sys, last.depth)
    <3>1. /\ sys \/ last.depth > 0
          /\ p \in DOMAIN entries /\ entries[p].expires >= last.until
      BY DEF LastStillCovered
    <3>2. entries[p].expires \in Nat /\ last.until \in Nat
      BY <3>1 DEF Sent, Histories
    <3> HIDE DEF last, p
    <3>3. entries[p].expires > now
      BY <3>1, <3>2 DEF last
    <3>4. p \in DOMAIN entries' /\ entries'[p] = entries[p]
      BY <2>1, <3>1, <3>3 DEF Restrict
    <3> QED
      BY <3>1, <3>4 DEF last, p
  <2> QED
    BY <1>0, <1>5, <2>1, <2>3, <2>4, <2>5
<1>2. CASE \E m \in Modes : SetMode(m)
  <2>1. /\ mode' \in Settings
        /\ UNCHANGED <<entries, cacheFile, now, past>>
    BY <1>2, ClampedIsSetting DEF SetMode
  <2> QED
    BY <1>0, <1>5, <2>1 DEF Sent, LastStillCovered
<1>3. CASE Tick
  <2>1. now' = now + 1 /\ UNCHANGED <<entries, cacheFile, mode, past>>
    BY <1>3 DEF Tick
  <2>2. LastStillCovered'
    <3> SUFFICES ASSUME NEW o \in Owners, NEW sys \in Prompts,
                        past[<<o, sys>>].until > now'
                 PROVE  past[<<o, sys>>].until > now
      BY <2>1 DEF LastStillCovered
    <3>1. past[<<o, sys>>].until \in Nat
      BY DEF Histories
    <3> QED
      BY <2>1, <3>1
  <2>3. Sent(entries)' /\ Sent(cacheFile)'
    BY <2>1 DEF Sent
  <2> QED
    BY <1>0, <1>5, <2>1, <2>2, <2>3
<1>4. CASE CacheRestart
  <2>1. /\ entries' = Restrict(cacheFile, {p \in DOMAIN cacheFile : cacheFile[p].expires > now})
        /\ past' = [x \in DOMAIN past |-> [past[x] EXCEPT !.until = 0]]
        /\ UNCHANGED <<cacheFile, now, mode>>
    BY <1>4 DEF CacheRestart, AliveOf
  <2>2. past' \in [Owners \X Prompts -> Histories]
    BY <2>1 DEF Histories
  <2>3. \A x \in Owners \X Prompts : past'[x].until = 0 /\ past'[x].most = past[x].most
    BY <2>1 DEF Histories
  <2>4. \A x \in Owners \X Prompts : past'[x].most >= past[x].most
    BY <2>3 DEF Histories
  <2>5. Sent(entries)'
    BY <2>1, <2>2, <2>4, SentOfLess DEF Sent
  <2>6. Sent(cacheFile)'
    BY <2>1, <2>3 DEF Sent
  <2>7. LastStillCovered'
    BY <2>1, <2>3 DEF LastStillCovered
  <2> QED
    BY <1>0, <1>5, <2>1, <2>2, <2>5, <2>6, <2>7
<1> QED
  BY <1>1, <1>2, <1>3, <1>4


\* A request that leaves the cache alone only charges.
LEMMA UnmeteredStep ==
    ASSUME CacheIInv, NEW total \in Totals, NEW long \in BOOLEAN, NEW r \in Reports,
           Unmetered(long, total, r)
    PROVE  CacheIInv' /\ bill'.client = NoClient
<1>1. NoUsage \in Usages
  BY DEF NoUsage, Usages
<1>2. (IF mode.mode = "official" THEN r ELSE NoReport)
          \in [input : Nat, creation : Nat, read : Nat]
  BY CacheMeterAssumption DEF NoReport, Split
<1>3. TokensBilledOnce'
  BY <1>1, <1>2, ChargeAddsUp DEF Unmetered
<1>4. UNCHANGED <<entries, cacheFile, now, mode, recording, past>>
  BY DEF Unmetered
<1>5. bill'.client = NoClient
  BY DEF Unmetered, Charge
<1> QED
  BY <1>3, <1>4, <1>5 DEF CacheIInv, Sent, LastStillCovered, RecordingTyped

\* The boundaries of a request that are in the cache.
Hits(o, sys, n) ==
    {p.messages : p \in {q \in {Prefix(o, sys, k) : k \in Depths(sys, n)} : Alive(q)}}

\* The bill of a client's request, and the record of one: what it leaves.
ReadBy(o, sys, n) ==
    LET hits == Hits(o, sys, n)
    IN  /\ bill'.client = <<o, sys>> /\ bill'.messages = n
        /\ bill'.read = IF hits = {} THEN 0 ELSE TokensUpTo(sys, Max(hits))

RecordedBy(o, sys, n, expires, kept) ==
    LET ps == {Prefix(o, sys, k) : k \in Depths(sys, n)}
        depth == Max(Depths(sys, n))
        all == Recorded(ps, expires)
    IN  /\ kept \subseteq DOMAIN all
        /\ entries' = Restrict(all, kept)
        /\ Remember(<<o, sys>>, depth, expires, kept # DOMAIN all)
        /\ UNCHANGED <<cacheFile, now, mode>>

\* The prefixes alive among those of a request are boundaries of it.
LEMMA HitsAreBoundaries ==
    ASSUME NEW o, NEW sys \in BOOLEAN, NEW n \in Nat, Depths(sys, n) # {}
    PROVE  LET hits == Hits(o, sys, n)
           IN  /\ \A k : k \in hits <=> k \in Depths(sys, n) /\ Alive(Prefix(o, sys, k))
               /\ hits # {} => /\ Max(hits) \in hits /\ \A k \in hits : Max(hits) >= k
                               /\ Max(hits) \in Nat
<1> DEFINE hits == Hits(o, sys, n)
<1>1. \A k : Prefix(o, sys, k).messages = k
  BY DEF Prefix
<1>2. \A k : k \in hits <=> k \in Depths(sys, n) /\ Alive(Prefix(o, sys, k))
  BY <1>1 DEF Hits
<1> HIDE DEF hits
<1>3. /\ Max(Depths(sys, n)) \in Nat
      /\ \A k \in Depths(sys, n) : k \in Nat /\ k <= Max(Depths(sys, n))
  BY DeepestBoundary
<1>4. hits # {} => Max(hits) \in hits /\ \A k \in hits : Max(hits) >= k
  <2>1. hits \subseteq Nat /\ \A k \in hits : k <= Max(Depths(sys, n))
    BY <1>2, <1>3
  <2> QED
    BY <1>3, <2>1, MaxOfNats
<1> QED
  BY <1>2, <1>3, <1>4 DEF hits

\* A metered request is one of a client, its bill adds up, and its look-up
\* changes nothing but when prefixes were hit.
LEMMA LookUpIsOfAClient ==
    ASSUME CacheIInv, NEW sess \in SessionIds \cup {NoSession}, NEW key \in KeyIds,
           NEW sys \in Prompts, NEW n \in 1..MaxMessages, NEW header \in 0..1,
           NEW long \in BOOLEAN, NEW total \in Totals,
           LookUp(sess, key, sys, n, header, long, total)
    PROVE  /\ TokensBilledOnce'
           /\ \E o \in Owners : ReadBy(o, sys, n)
           /\ Depths(sys, n) # {}
           /\ DOMAIN entries' = DOMAIN entries
           /\ \A p \in DOMAIN entries : entries'[p].expires = entries[p].expires
           /\ RecordingTyped'
           /\ UNCHANGED <<cacheFile, now, mode, past>>
<1> DEFINE o == Owner(sess, key)
           ps == {Prefix(o, sys, k) : k \in Depths(sys, n)}
           hits == Hits(o, sys, n)
           depth == Max(Depths(sys, n))
           usage == [read |-> IF hits = {} THEN 0 ELSE TokensUpTo(sys, Max(hits)),
                     covered |-> TokensUpTo(sys, depth),
                     prompt |-> TokensUpTo(sys, n) + header]
<1>1. o \in Owners /\ sys \in BOOLEAN /\ n \in Nat /\ header \in Nat
  BY OwnerHasSeed, CacheMeterAssumption DEF LookUp
<1>2. Depths(sys, n) # {}
  BY DEF LookUp
<1>3. UNCHANGED <<cacheFile, now, mode, past>>
  BY DEF LookUp
<1>4. depth \in Nat
  BY <1>1, <1>2, DeepestBoundary
<1>5. hits # {} => Max(hits) \in Nat
  BY <1>1, <1>2, HitsAreBoundaries
<1>6. /\ DOMAIN entries' = DOMAIN entries
      /\ \A p \in DOMAIN entries : entries'[p].expires = entries[p].expires
  <2>1. entries' = Touched(ps)
    BY DEF LookUp, Seed
  <2> HIDE DEF ps
  <2> QED
    BY <2>1 DEF Touched
<1>7. Charge(<<o, sys>>, n, usage, total, NoReport, long)
  BY DEF LookUp, Seed, Hits
<1>8. RecordingTyped'
  <2> DEFINE req == [seed |-> o, owner |-> o, system |-> sys, messages |-> n, long |-> long]
  <2>1. \A r \in DOMAIN recording' :
            \/ recording'[r] = req
            \/ r \in DOMAIN recording /\ recording'[r] = recording[r]
    BY DEF LookUp, Seed
  <2> HIDE DEF o
  <2>2. /\ req \in LookedUp /\ req.seed = req.owner
        /\ Depths(req.system, req.messages) # {}
    BY <1>1, <1>2 DEF LookedUp
  <2> HIDE DEF req
  <2> QED
    BY <2>1, <2>2 DEF CacheIInv, RecordingTyped
<1> HIDE DEF o, depth
<1>9. usage \in Usages
  <2> HIDE DEF hits
  <2>1. /\ TokensUpTo(sys, depth) \in Nat /\ TokensUpTo(sys, n) \in Nat
        /\ hits # {} => TokensUpTo(sys, Max(hits)) \in Nat
    BY <1>1, <1>4, <1>5 DEF TokensUpTo
  <2> QED
    BY <1>1, <2>1 DEF Usages
<1>10. TokensBilledOnce'
  <2>1. NoReport \in [input : Nat, creation : Nat, read : Nat]
    BY DEF NoReport, Split
  <2> HIDE DEF usage
  <2> QED
    BY <1>7, <1>9, <2>1, ChargeAddsUp
<1>11. ReadBy(o, sys, n)
  BY <1>7 DEF Charge, ReadBy
<1> QED
  BY <1>1, <1>2, <1>3, <1>6, <1>8, <1>10, <1>11

\* When a prefix was hit decides only what is evicted.
LEMMA LookUpStep ==
    ASSUME CacheIInv, TokensBilledOnce', RecordingTyped', DOMAIN entries' = DOMAIN entries,
           \A p \in DOMAIN entries : entries'[p].expires = entries[p].expires,
           UNCHANGED <<cacheFile, now, mode, past>>
    PROVE  CacheIInv'
<1>1. Sent(entries)' /\ Sent(cacheFile)'
  BY DEF CacheIInv, Sent
<1>2. LastStillCovered'
  BY DEF CacheIInv, LastStillCovered
<1> QED
  BY <1>1, <1>2 DEF CacheIInv

LEMMA RecordIsOfAClient ==
    ASSUME CacheIInv, NEW r \in DOMAIN recording, Record(r)
    PROVE  /\ TokensBilledOnce' /\ RecordingTyped' /\ bill' = NoBill
           /\ \E o \in Owners, sys \in Prompts, n \in 1..MaxMessages, expires \in Nat :
                 /\ Depths(sys, n) # {}
                 /\ \E kept : RecordedBy(o, sys, n, expires, kept)
<1> DEFINE req == recording[r]
           o == req.seed
           sys == req.system
           n == req.messages
           expires == now + (IF req.long THEN LongTtl ELSE ShortTtl)
           all == Recorded({Prefix(o, sys, k) : k \in Depths(sys, n)}, expires)
<1>1. /\ o \in Owners /\ sys \in Prompts /\ n \in 1..MaxMessages /\ req.long \in BOOLEAN
      /\ req.owner = o /\ Depths(sys, n) # {}
  BY DEF CacheIInv, RecordingTyped, LookedUp
<1>2. expires \in Nat
  BY <1>1, CacheMeterAssumption DEF CacheIInv
<1>3. bill' = NoBill /\ UNCHANGED <<cacheFile, now, mode>>
      /\ recording' = Restrict(recording, DOMAIN recording \ {r})
  BY DEF Record
<1>4. PICK kept \in SUBSET DOMAIN all :
          /\ entries' = Restrict(all, kept)
          /\ Remember(<<req.owner, sys>>, Max(Depths(sys, n)), expires, kept # DOMAIN all)
  BY DEF Record
<1> HIDE DEF expires
<1>5. RecordedBy(o, sys, n, expires, kept)
  BY <1>1, <1>3, <1>4 DEF RecordedBy
<1>6. RecordingTyped'
  BY <1>3 DEF CacheIInv, RecordingTyped, Restrict
<1>7. TokensBilledOnce'
  BY <1>3, NoBillAddsUp
<1> QED
  BY <1>1, <1>2, <1>3, <1>5, <1>6, <1>7

\* What a metered request leaves in the cache was sent by somebody, and the
\* client that sent it can count on it.
LEMMA RecordStep ==
    ASSUME CacheIInv, TokensBilledOnce', RecordingTyped', NEW o \in Owners, NEW sys \in Prompts,
           NEW n \in 1..MaxMessages, NEW expires \in Nat, NEW kept,
           Depths(sys, n) # {}, RecordedBy(o, sys, n, expires, kept)
    PROVE  CacheIInv'
<1> DEFINE ps == {Prefix(o, sys, k) : k \in Depths(sys, n)}
           depth == Max(Depths(sys, n))
           all == Recorded(ps, expires)
           until(x) == IF kept # DOMAIN all THEN 0 ELSE past[x].until
<1>1. sys \in BOOLEAN /\ n \in Nat
  BY CacheMeterAssumption
<1>2. /\ depth \in Nat /\ (sys \/ depth > 0) /\ depth \in Depths(sys, n)
      /\ \A k \in Depths(sys, n) : k \in Nat /\ k <= depth
  BY <1>1, DeepestBoundary
<1> HIDE DEF depth
<1>3. past \in [Owners \X Prompts -> Histories] /\ <<o, sys>> \in Owners \X Prompts
  BY DEF CacheIInv
<1>4. past' = [x \in DOMAIN past |->
                IF x # <<o, sys>> THEN [past[x] EXCEPT !.until = until(x)]
                ELSE [depth |-> depth,
                      until |-> IF kept # DOMAIN all THEN 0 ELSE expires,
                      most |-> AtLeast(depth, past[x].most)]]
  BY DEF RecordedBy, Remember, depth
<1>5. /\ DOMAIN all = DOMAIN entries \cup ps
      /\ \A p \in ps : all[p] = [expires |-> expires, hit |-> now]
      /\ \A p \in DOMAIN entries \ ps : all[p] = entries[p]
  BY DEF Recorded
<1>6. /\ kept \subseteq DOMAIN all /\ entries' = Restrict(all, kept)
      /\ UNCHANGED <<cacheFile, now, mode>>
  BY DEF RecordedBy, depth
<1>7. \A p \in ps : /\ p.seed = o /\ p.system = sys /\ p.messages \in Depths(sys, n)
                    /\ p = Prefix(o, sys, p.messages)
  BY DEF Prefix
<1> HIDE DEF ps, all
<1>8. past' \in [Owners \X Prompts -> Histories]
  <2>1. \A x \in Owners \X Prompts : until(x) \in Nat
    BY <1>3 DEF Histories
  <2> HIDE DEF until
  <2>2. \A x \in Owners \X Prompts :
            [past[x] EXCEPT !.until = until(x)] \in Histories
    BY <1>3, <2>1 DEF Histories
  <2>3. \A x \in Owners \X Prompts :
            [depth |-> depth, until |-> IF kept # DOMAIN all THEN 0 ELSE expires,
             most |-> AtLeast(depth, past[x].most)] \in Histories
    BY <1>2, <1>3 DEF Histories, AtLeast
  <2> QED
    BY <1>3, <1>4, <2>2, <2>3
<1>9. \A x \in Owners \X Prompts : past'[x].most >= past[x].most
  <2> SUFFICES ASSUME NEW x \in Owners \X Prompts PROVE past'[x].most >= past[x].most
    OBVIOUS
  <2>1. past[x].most \in Nat
    BY <1>3 DEF Histories
  <2>2. past'[x].most = IF x # <<o, sys>> THEN past[x].most ELSE AtLeast(depth, past[x].most)
    BY <1>3, <1>4 DEF Histories
  <2> QED
    BY <1>2, <2>1, <2>2 DEF AtLeast
<1>10. past'[<<o, sys>>].most >= depth
  <2>1. past[<<o, sys>>].most \in Nat
    BY <1>3 DEF Histories
  <2>2. past'[<<o, sys>>].most = AtLeast(depth, past[<<o, sys>>].most)
    BY <1>3, <1>4
  <2> QED
    BY <1>2, <2>1, <2>2 DEF AtLeast
<1>11. Sent(entries)'
  <2> SUFFICES ASSUME NEW p \in kept
               PROVE  /\ all[p].expires \in Nat /\ p.messages \in Nat
                      /\ <<p.seed, p.system>> \in Owners \X Prompts
                      /\ p.messages <= past'[<<p.seed, p.system>>].most
    BY <1>6 DEF Sent, Restrict
  <2>1. CASE p \in ps
    <3>1. all[p].expires = expires
      BY <1>5, <2>1
    <3>2. p.seed = o /\ p.system = sys /\ p.messages \in Nat /\ p.messages <= depth
      BY <1>2, <1>7, <2>1
    <3>3. past'[<<o, sys>>].most \in Nat
      BY <1>3, <1>8 DEF Histories
    <3> QED
      BY <1>2, <1>3, <1>10, <3>1, <3>2, <3>3
  <2>2. CASE p \notin ps
    <3>1. p \in DOMAIN entries /\ all[p] = entries[p]
      BY <1>5, <1>6, <2>2
    <3> DEFINE x == <<p.seed, p.system>>
    <3>2. /\ entries[p].expires \in Nat /\ p.messages \in Nat
          /\ x \in Owners \X Prompts /\ p.messages <= past[x].most
      BY <3>1 DEF CacheIInv, Sent
    <3> HIDE DEF x
    <3>3. past[x].most \in Nat /\ past'[x].most \in Nat /\ past'[x].most >= past[x].most
      BY <1>3, <1>8, <1>9, <3>2 DEF Histories
    <3> QED
      BY <3>1, <3>2, <3>3 DEF x
  <2> QED
    BY <2>1, <2>2
<1>12. Sent(cacheFile)'
  <2>1. \A p \in DOMAIN cacheFile :
            cacheFile[p] = Restrict(cacheFile, DOMAIN cacheFile)[p]
    BY DEF Restrict
  <2>2. DOMAIN cacheFile = DOMAIN Restrict(cacheFile, DOMAIN cacheFile)
    BY DEF Restrict
  <2>3. Sent(cacheFile) /\ DOMAIN cacheFile \in SUBSET DOMAIN cacheFile
    BY DEF CacheIInv
  <2>4. \A p \in DOMAIN Restrict(cacheFile, DOMAIN cacheFile) :
            /\ Restrict(cacheFile, DOMAIN cacheFile)[p].expires \in Nat /\ p.messages \in Nat
            /\ <<p.seed, p.system>> \in Owners \X Prompts
            /\ p.messages <= past'[<<p.seed, p.system>>].most
    BY <1>3, <1>8, <1>9, <2>3, SentOfLess
  <2>5. cacheFile' = cacheFile
    BY <1>6
  <2> QED
    BY <2>1, <2>2, <2>4, <2>5 DEF Sent
<1>13. LastStillCovered'
  <2> SUFFICES ASSUME NEW q \in Owners, NEW y \in Prompts,
                      past'[<<q, y>>].until > now
               PROVE  LET last == past'[<<q, y>>]
                          p == Prefix(q, y, last.depth)
                      IN  /\ y \/ last.depth > 0
                          /\ p \in kept /\ all[p].expires >= last.until
    BY <1>6 DEF LastStillCovered, Restrict
  <2>0. now \in Nat
    BY DEF CacheIInv
  <2>1. CASE <<q, y>> = <<o, sys>>
    <3>1. q = o /\ y = sys
      BY <2>1
    <3>2. /\ past'[<<o, sys>>].depth = depth
          /\ past'[<<o, sys>>].until = IF kept # DOMAIN all THEN 0 ELSE expires
      BY <1>3, <1>4
    <3>3. kept = DOMAIN all /\ past'[<<o, sys>>].until = expires
      BY <2>0, <3>1, <3>2
    <3>4. Prefix(o, sys, depth) \in ps
      BY <1>2 DEF ps
    <3>5. Prefix(o, sys, depth) \in kept /\ all[Prefix(o, sys, depth)].expires = expires
      BY <1>5, <3>3, <3>4
    <3> QED
      BY <1>2, <3>1, <3>2, <3>3, <3>5
  <2>2. CASE <<q, y>> # <<o, sys>>
    <3> DEFINE x == <<q, y>>
               p == Prefix(q, y, past[x].depth)
    <3>0. x \in Owners \X Prompts
      OBVIOUS
    <3>1. /\ past'[x].depth = past[x].depth
          /\ past'[x].until = until(x)
      <4>1. past'[x] = [past[x] EXCEPT !.until = until(x)]
        BY <1>3, <1>4, <2>2, <3>0
      <4>2. past[x] \in Histories
        BY <1>3, <3>0
      <4> HIDE DEF until, x
      <4> QED
        BY <4>1, <4>2 DEF Histories
    <3>2. kept = DOMAIN all /\ past'[x].until = past[x].until
      BY <2>0, <3>1
    <3>3. past[x].until > now
      BY <3>2
    <3>4. /\ y \/ past[x].depth > 0
          /\ p \in DOMAIN entries /\ entries[p].expires >= past[x].until
      BY <3>3 DEF CacheIInv, LastStillCovered
    <3>5. p \notin ps
      <4>1. p.seed = q /\ p.system = y
        BY DEF Prefix
      <4> HIDE DEF p
      <4> QED
        BY <1>7, <2>2, <4>1
    <3> HIDE DEF p
    <3>6. p \in kept /\ all[p] = entries[p]
      BY <1>5, <3>2, <3>4, <3>5
    <3> QED
      BY <3>1, <3>2, <3>4, <3>6 DEF p
  <2> QED
    BY <2>1, <2>2
<1> QED
  BY <1>6, <1>8, <1>11, <1>12, <1>13 DEF CacheIInv


LEMMA CacheInvStep ==
    ASSUME CacheIInv, CacheNext
    PROVE  CacheIInv'
<1>1. ASSUME NEW total \in Totals, NEW long \in BOOLEAN, NEW s \in SessionIds \cup {NoSession},
             NEW k \in KeyIds, NEW sys \in Prompts, NEW n \in 1..MaxMessages,
             NEW header \in 0..1, LookUp(s, k, sys, n, header, long, total)
      PROVE  CacheIInv'
  BY <1>1, LookUpIsOfAClient, LookUpStep
<1>2. ASSUME NEW total \in Totals, NEW long \in BOOLEAN, NEW r \in Reports,
             Unmetered(long, total, r)
      PROVE  CacheIInv'
  BY <1>2, UnmeteredStep
<1>3. ASSUME NEW r \in DOMAIN recording, Record(r)
      PROVE  CacheIInv'
  BY <1>3, RecordIsOfAClient, RecordStep
<1> QED
  BY <1>1, <1>2, <1>3, CacheUpkeep DEF CacheNext

LEMMA CacheInvStutter ==
    ASSUME CacheIInv, UNCHANGED cacheVars
    PROVE  CacheIInv'
  BY DEF cacheVars, CacheIInv, Sent, LastStillCovered, TokensBilledOnce, RecordingTyped

\* The inductive invariant of the cache and its bill.
THEOREM CacheInvariant == CacheSpec => []CacheIInv
  BY CacheInvInit, CacheInvStep, CacheInvStutter, PTL DEF CacheSpec

-----------------------------------------------------------------------------
(* What the invariant shows                                                *)

\* For every setting, total and prompt the counts of a bill are nonnegative,
\* add up to the prompt outside Official mode and split the creation between
\* the two ttl buckets (resolve, split_against_total, simulate).
THEOREM BillsAddUp == CacheSpec => []TokensBilledOnce
<1>1. CacheIInv => TokensBilledOnce
  BY DEF CacheIInv
<1> QED
  BY <1>1, CacheInvariant, PTL

\* What a metered request reads: at least what the client's last request
\* covered while that lasts, at most the longest prefix it ever sent.
LEMMA LookUpReads ==
    ASSUME CacheIInv, NEW o \in Owners, NEW sys \in Prompts,
           NEW n \in 1..MaxMessages, Depths(sys, n) # {}, ReadBy(o, sys, n)
    PROVE  LET mine == past[<<o, sys>>]
           IN  /\ (mine.until > now /\ mine.depth < n) =>
                      bill'.read >= TokensUpTo(sys, mine.depth)
               /\ bill'.read > 0 => bill'.read <= TokensUpTo(sys, mine.most)
<1> DEFINE mine == past[<<o, sys>>]
           hits == Hits(o, sys, n)
<1>1. sys \in BOOLEAN /\ n \in Nat
  BY CacheMeterAssumption
<1>2. bill'.read = IF hits = {} THEN 0 ELSE TokensUpTo(sys, Max(hits))
  BY DEF ReadBy
<1>3. /\ \A k : k \in hits <=> k \in Depths(sys, n) /\ Alive(Prefix(o, sys, k))
      /\ hits # {} => /\ Max(hits) \in hits /\ \A k \in hits : Max(hits) >= k
                      /\ Max(hits) \in Nat
  BY <1>1, HitsAreBoundaries
<1> HIDE DEF hits
<1>4. mine.depth \in Nat /\ mine.until \in Nat /\ mine.most \in Nat /\ now \in Nat
  BY DEF CacheIInv, Histories
<1>5. ASSUME mine.until > now, mine.depth < n
      PROVE  bill'.read >= TokensUpTo(sys, mine.depth)
  <2> DEFINE p == Prefix(o, sys, mine.depth)
  <2>1. /\ sys \/ mine.depth > 0
        /\ p \in DOMAIN entries /\ entries[p].expires >= mine.until
    BY <1>5 DEF CacheIInv, LastStillCovered
  <2>2. entries[p].expires \in Nat
    BY <2>1 DEF CacheIInv, Sent
  <2> HIDE DEF p
  <2>3. entries[p].expires > now
    BY <1>4, <1>5, <2>1, <2>2
  <2>4. Alive(p)
    BY <2>1, <2>3 DEF Alive
  <2>5. mine.depth \in Depths(sys, n)
    BY <1>1, <1>4, <1>5, <2>1 DEF Depths
  <2>6. mine.depth \in hits
    BY <1>3, <2>4, <2>5 DEF p
  <2> HIDE DEF mine
  <2>7. Max(hits) \in Nat /\ mine.depth <= Max(hits) /\ hits # {}
    BY <1>3, <1>4, <2>6
  <2> QED
    BY <1>1, <1>2, <1>4, <2>7, TokensGrow
<1>6. ASSUME bill'.read > 0
      PROVE  bill'.read <= TokensUpTo(sys, mine.most)
  <2>1. hits # {}
    BY <1>2, <1>6
  <2>2. Max(hits) \in Nat /\ Alive(Prefix(o, sys, Max(hits)))
    BY <1>3, <2>1
  <2> DEFINE p == Prefix(o, sys, Max(hits))
  <2>3. p \in DOMAIN entries /\ p.seed = o /\ p.system = sys /\ p.messages = Max(hits)
    BY <2>2 DEF Alive, Prefix
  <2> HIDE DEF p
  <2>4. Max(hits) <= mine.most
    BY <2>3 DEF CacheIInv, Sent
  <2> HIDE DEF mine
  <2> QED
    BY <1>1, <1>2, <1>4, <2>1, <2>2, <2>4, TokensGrow
<1> QED
  BY <1>5, <1>6

\* A turn of a client within the ttl of its last one reads what that one
\* covered, and no turn reads a prefix its client never sent: lookup and record
\* over every order of requests, flushes, evictions and restarts.
THEOREM CacheReadsItsOwn == CacheSpec => ReadsItsOwnPrefix
<1> DEFINE Reads ==
        bill'.client # NoClient =>
            LET mine == past[bill'.client]
                sys == bill'.client[2]
            IN  /\ (mine.until > now /\ mine.depth < bill'.messages) =>
                        bill'.read >= TokensUpTo(sys, mine.depth)
                /\ bill'.read > 0 => bill'.read <= TokensUpTo(sys, mine.most)
<1>1. ASSUME CacheIInv, CacheNext PROVE Reads
  <2>1. ASSUME NEW total \in Totals, NEW long \in BOOLEAN,
               NEW s \in SessionIds \cup {NoSession}, NEW k \in KeyIds, NEW sys \in Prompts,
               NEW n \in 1..MaxMessages, NEW header \in 0..1,
               LookUp(s, k, sys, n, header, long, total)
        PROVE  Reads
    <3>1. PICK o \in Owners : ReadBy(o, sys, n)
      BY <1>1, <2>1, LookUpIsOfAClient
    <3>2. Depths(sys, n) # {}
      BY <2>1 DEF LookUp
    <3>3. /\ (past[<<o, sys>>].until > now /\ past[<<o, sys>>].depth < n) =>
                bill'.read >= TokensUpTo(sys, past[<<o, sys>>].depth)
          /\ bill'.read > 0 => bill'.read <= TokensUpTo(sys, past[<<o, sys>>].most)
      BY <1>1, <3>1, <3>2, LookUpReads
    <3>4. bill'.client = <<o, sys>> /\ bill'.messages = n /\ bill'.client[2] = sys
      BY <3>1 DEF ReadBy
    <3> QED
      BY <3>3, <3>4
  <2>2. ASSUME NEW total \in Totals, NEW long \in BOOLEAN, NEW r \in Reports,
               Unmetered(long, total, r)
        PROVE  Reads
    <3>1. bill'.client = NoClient
      BY <2>2 DEF Unmetered, Charge
    <3> QED
      BY <3>1
  <2>3. ASSUME \/ \E ok \in BOOLEAN : Background(ok)
               \/ \E m \in Modes : SetMode(m)
               \/ Tick \/ CacheRestart
               \/ \E r \in DOMAIN recording : Record(r)
        PROVE  Reads
    <3>1. bill' = NoBill
      BY <2>3, Zenon DEF Background, SetMode, Tick, CacheRestart, Record
    <3>2. bill'.client = NoClient
      BY <3>1 DEF NoBill
    <3> QED
      BY <3>2
  <2> QED
    BY <1>1, <2>1, <2>2, <2>3 DEF CacheNext
<1>2. CacheIInv /\ [CacheNext]_cacheVars => [Reads]_cacheVars
  BY <1>1
<1>3. ([][Reads]_cacheVars) => ReadsItsOwnPrefix
  BY DEF ReadsItsOwnPrefix
<1> HIDE DEF Reads
<1> QED
  BY <1>2, <1>3, CacheInvariant, PTL DEF CacheSpec


-----------------------------------------------------------------------------
(* The failures of an account                                              *)

TraceSpec == TraceInit /\ [][TraceNext]_traceVars

IdsBelow(n) == {id \in Nat : id < n}

(* Ids that live or are being purged lie below next_id, so an id that is   *)
(* given next is neither; of a given id a purge is under way only while no *)
(* account has it.                                                         *)
IdsApart ==
    /\ nextAccount \in Nat
    /\ DOMAIN account \subseteq IdsBelow(nextAccount)
    /\ purging \subseteq IdsBelow(nextAccount) \ DOMAIN account

(* A stored hop is that of a living account, or its id is known to be one  *)
(* whose hops wait for the purge or were left behind.                      *)
Accounted(h) == Lives(h) \/ h.id \in purging \/ h.id \in outlived
IsRow(t) == t = [final |-> t.final, hops |-> t.hops, old |-> t.old]
HopsAccounted == \A t \in traces : IsRow(t) /\ \A h \in t.hops : Accounted(h)

TraceInv == IdsApart /\ HopsAccounted

LEMMA TraceInitInv == TraceInit => TraceInv
<1> SUFFICES ASSUME TraceInit PROVE TraceInv
  OBVIOUS
<1>1. DOMAIN account = {1, 2} /\ nextAccount = 3 /\ purging = {} /\ traces = {}
  BY DEF TraceInit
<1> QED
  BY <1>1 DEF TraceInv, IdsApart, IdsBelow, HopsAccounted

(* A step that leaves the accounts and the rows alone.                     *)
LEMMA TracedElsewhere ==
    ASSUME TraceInv, UNCHANGED <<account, nextAccount, purging, traces, outlived>>
    PROVE  TraceInv'
BY DEF TraceInv, IdsApart, HopsAccounted, Accounted, Lives

LEMMA FinalizeKeeps ==
    ASSUME TraceInv, NEW t \in Tracers, NEW ok \in BOOLEAN, Finalize(t, ok)
    PROVE  TraceInv'
<1>1. CASE ok /\ tracing
  <2> DEFINE hops == tracer[t].attempts
             row == [final |-> Last(hops).id, hops |-> ToSet(hops), old |-> FALSE]
  <2>1. /\ traces' = traces \cup {row}
        /\ outlived' = outlived \cup {h.id : h \in {g \in row.hops : ~Lives(g)}}
        /\ UNCHANGED <<account, nextAccount, purging>>
    BY <1>1 DEF Finalize
  <2>2. IsRow(row) /\ \A h \in row.hops : Accounted(h)'
    BY <2>1 DEF IsRow, Accounted, Lives
  <2>3. \A u \in traces : IsRow(u) /\ \A h \in u.hops : Accounted(h)'
    BY <2>1 DEF TraceInv, HopsAccounted, Accounted, Lives
  <2>4. HopsAccounted'
    BY <2>1, <2>2, <2>3 DEF HopsAccounted
  <2> QED
    BY <2>1, <2>4 DEF TraceInv, IdsApart
<1>2. CASE ~(ok /\ tracing)
  BY <1>2, TracedElsewhere DEF Finalize
<1> QED
  BY <1>1, <1>2

(* The id of a new account is neither in use nor about to be purged.       *)
LEMMA AddAccountKeeps ==
    ASSUME TraceInv, AddAccount
    PROVE  TraceInv'
<1> DEFINE n == nextAccount
<1>1. /\ nextAccount' = n + 1 /\ n \in Nat
      /\ UNCHANGED <<purging, traces, outlived>>
  BY DEF AddAccount, TraceInv, IdsApart
<1>2. /\ DOMAIN account' = DOMAIN account \cup {n}
      /\ \A id \in DOMAIN account : id # n => account'[id] = account[id]
  BY DEF AddAccount
<1>3. n \notin DOMAIN account /\ n \notin purging
  BY <1>1 DEF TraceInv, IdsApart, IdsBelow
<1>4. IdsApart'
  BY <1>1, <1>2, <1>3 DEF TraceInv, IdsApart, IdsBelow
<1>5. HopsAccounted'
  BY <1>1, <1>2, <1>3 DEF TraceInv, HopsAccounted, Accounted, Lives
<1> QED
  BY <1>4, <1>5 DEF TraceInv

LEMMA DeleteAccountKeeps ==
    ASSUME TraceInv, NEW id \in DOMAIN account, DeleteAccount(id)
    PROVE  TraceInv'
<1>1. /\ DOMAIN account' = DOMAIN account \ {id}
      /\ \A i \in DOMAIN account' : account'[i] = account[i]
      /\ purging' = purging \cup {id}
      /\ UNCHANGED <<nextAccount, traces, outlived>>
  BY DEF DeleteAccount, Restrict
<1>2. IdsApart'
  BY <1>1 DEF TraceInv, IdsApart
<1>3. HopsAccounted'
  BY <1>1 DEF TraceInv, HopsAccounted, Accounted, Lives
<1> QED
  BY <1>2, <1>3 DEF TraceInv

LEMMA PurgeKeeps ==
    ASSUME TraceInv, NEW id \in purging, NEW ok \in BOOLEAN, Purge(id, ok)
    PROVE  TraceInv'
<1>1. purging' = purging \ {id} /\ UNCHANGED <<account, nextAccount>>
  BY DEF Purge
<1>2. IdsApart'
  BY <1>1 DEF TraceInv, IdsApart
<1>3. CASE ok
  <2>1. outlived' = outlived \ {id} /\ traces' = Purged(id)
    BY <1>3 DEF Purge
  <2>2. ASSUME NEW t \in traces'
        PROVE  IsRow(t) /\ \A h \in t.hops : Accounted(h)'
    <3>1. PICK u \in traces : t = [u EXCEPT !.hops = {h \in @ : h.id # id}]
      BY <2>1 DEF Purged
    <3>2. u = [final |-> u.final, hops |-> u.hops, old |-> u.old]
      BY DEF TraceInv, HopsAccounted, IsRow
    <3>3. t = [final |-> u.final, hops |-> {h \in u.hops : h.id # id}, old |-> u.old]
      BY <3>1, <3>2
    <3>4. \A h \in u.hops : h.id # id => Accounted(h)'
      BY <1>1, <2>1 DEF TraceInv, HopsAccounted, Accounted, Lives
    <3> QED
      BY <3>3, <3>4 DEF IsRow
  <2>3. HopsAccounted'
    BY <2>2 DEF HopsAccounted
  <2> QED
    BY <1>2, <2>3 DEF TraceInv
<1>4. CASE ~ok
  <2>1. outlived' = outlived \cup {id} /\ traces' = traces
    BY <1>4 DEF Purge
  <2>2. HopsAccounted'
    BY <1>1, <2>1 DEF TraceInv, HopsAccounted, Accounted, Lives
  <2> QED
    BY <1>2, <2>2 DEF TraceInv
<1> QED
  BY <1>3, <1>4

LEMMA CleanUpTracesKeeps ==
    ASSUME TraceInv, CleanUpTraces
    PROVE  TraceInv'
<1>1. /\ traces' = {[t EXCEPT !.old = TRUE] : t \in {u \in traces : ~u.old}}
      /\ UNCHANGED <<account, nextAccount, purging, outlived>>
  BY DEF CleanUpTraces
<1>2. ASSUME NEW t \in traces'
      PROVE  IsRow(t) /\ \A h \in t.hops : Accounted(h)'
  <2>1. PICK u \in traces : t = [u EXCEPT !.old = TRUE]
    BY <1>1
  <2>2. u = [final |-> u.final, hops |-> u.hops, old |-> u.old]
    BY DEF TraceInv, HopsAccounted, IsRow
  <2>3. t = [final |-> u.final, hops |-> u.hops, old |-> TRUE]
    BY <2>1, <2>2
  <2>4. \A h \in u.hops : Accounted(h)'
    BY <1>1 DEF TraceInv, HopsAccounted, Accounted, Lives
  <2> QED
    BY <2>3, <2>4 DEF IsRow
<1>3. HopsAccounted'
  BY <1>2 DEF HopsAccounted
<1> QED
  BY <1>1, <1>3 DEF TraceInv, IdsApart

(* Ids start again after the highest one saved; what waited for its purge  *)
(* is left behind, so it does not matter which account gets the id.        *)
LEMMA TraceRestartKeeps ==
    ASSUME TraceInv, TraceRestart
    PROVE  TraceInv'
<1> DEFINE ids == DOMAIN account \cup {0}
<1>1. /\ nextAccount' = Max(ids) + 1 /\ purging' = {}
      /\ outlived' = outlived \cup purging /\ UNCHANGED <<account, traces>>
  BY DEF TraceRestart
<1>2. ids \subseteq Nat /\ nextAccount \in Nat /\ \A id \in ids : id <= nextAccount
  BY DEF TraceInv, IdsApart, IdsBelow
<1>3. Max(ids) \in ids /\ \A id \in ids : Max(ids) >= id
  <2> HIDE DEF ids
  <2>1. ids # {}
    BY DEF ids
  <2> QED
    BY <1>2, <2>1, MaxOfNats
<1>4. IdsApart'
  BY <1>1, <1>2, <1>3 DEF IdsApart, IdsBelow
<1>5. HopsAccounted'
  BY <1>1 DEF TraceInv, HopsAccounted, Accounted, Lives
<1> QED
  BY <1>4, <1>5 DEF TraceInv

(* Ids that live, wait for their purge and are given next are apart, and   *)
(* every stored hop is accounted for.                                      *)
THEOREM TraceInvariant == TraceSpec => []TraceInv
<1>1. TraceInit => TraceInv
  BY TraceInitInv
<1>2. TraceInv /\ [TraceNext]_traceVars => TraceInv'
  <2> SUFFICES ASSUME TraceInv, [TraceNext]_traceVars PROVE TraceInv'
    OBVIOUS
  <2>1. ASSUME NEW t \in Tracers, NEW id \in DOMAIN account, BeginTrace(t, id)
        PROVE  TraceInv'
    BY <2>1, TracedElsewhere DEF BeginTrace
  <2>2. ASSUME NEW t \in Tracers, NEW ok \in BOOLEAN, NEW next, OnAttempt(t, ok, next)
        PROVE  TraceInv'
    BY <2>2, TracedElsewhere DEF OnAttempt
  <2>3. ASSUME NEW t \in Tracers, NEW ok \in BOOLEAN, Finalize(t, ok)
        PROVE  TraceInv'
    BY <2>3, FinalizeKeeps
  <2>4. ASSUME NEW id \in DOMAIN account, DeleteAccount(id)
        PROVE  TraceInv'
    BY <2>4, DeleteAccountKeeps
  <2>5. ASSUME NEW id \in purging, NEW ok \in BOOLEAN, Purge(id, ok)
        PROVE  TraceInv'
    BY <2>5, PurgeKeeps
  <2>6. ASSUME NEW on \in BOOLEAN, SetTracing(on)
        PROVE  TraceInv'
    BY <2>6, TracedElsewhere DEF SetTracing
  <2>7. CASE AddAccount \/ CleanUpTraces \/ TraceRestart
    BY <2>7, AddAccountKeeps, CleanUpTracesKeeps, TraceRestartKeeps
  <2>8. CASE UNCHANGED traceVars
    BY <2>8, TracedElsewhere DEF traceVars
  <2> QED
    BY <2>1, <2>2, <2>3, <2>4, <2>5, <2>6, <2>7, <2>8 DEF TraceNext
<1> QED
  BY <1>1, <1>2, PTL DEF TraceSpec

(* An id given again after a restart does not inherit failures, whichever  *)
(* way requests, deletions, failed purges and restarts interleave: what is *)
(* counted against an id are hops of the account that has it, unless a     *)
(* request outlived the account or its purge was cut short.                *)
THEOREM FailuresStayWithTheirAccount == TraceSpec => []FailuresAreItsOwn
<1>1. TraceInv => FailuresAreItsOwn
  <2> SUFFICES ASSUME TraceInv, NEW id \in DOMAIN account \ outlived,
                      NEW h \in FailedHops(id)
               PROVE  Lives(h)
    BY DEF FailuresAreItsOwn
  <2>1. h.id = id /\ \E t \in traces : h \in t.hops
    BY DEF FailedHops
  <2>2. Accounted(h)
    BY <2>1 DEF TraceInv, HopsAccounted
  <2>3. id \notin purging /\ id \notin outlived
    BY DEF TraceInv, IdsApart
  <2> QED
    BY <2>1, <2>2, <2>3 DEF Accounted
<1> QED
  BY <1>1, TraceInvariant, PTL

-----------------------------------------------------------------------------
(* UsageStats: sums over days                                              *)

\* What holds of 0 and is handed on holds of all numbers up to n.
LEMMA HandedOn ==
    ASSUME NEW n \in Nat, NEW G, 0 \in G,
           \A k \in 1 .. n : k - 1 \in G => k \in G
    PROVE  \A k \in 0 .. n : k \in G
<1> DEFINE Bad == {k \in 0 .. n : k \notin G}
<1> SUFFICES ASSUME Bad # {} PROVE FALSE
  OBVIOUS
<1>1. PICK b \in Bad : \A k \in Bad : ~ (<<k, b>> \in OpToRel(<, Nat))
  <2>1. Bad \subseteq Nat
    OBVIOUS
  <2> HIDE DEF Bad
  <2> QED
    BY <2>1, NatLessThanWellFounded, WFMin
<1>2. b \in 1 .. n /\ b - 1 \in 0 .. n /\ b \in Nat /\ b - 1 \in Nat /\ b - 1 < b
  OBVIOUS
<1>3. <<b - 1, b>> \in OpToRel(<, Nat)
  BY <1>2 DEF OpToRel
<1>4. b - 1 \in G
  BY <1>1, <1>2, <1>3
<1> QED
  BY <1>2, <1>4

Sums(m, t) == m = [d \in Days |-> (IF d = 0 THEN 0 ELSE m[d - 1]) + t[d]]

LEMMA DaysAre == MaxDay \in Nat /\ Days = 0 .. MaxDay /\ MaxDay \in Days /\ 0 \in Days
BY UsageStatsAssumption DEF Days

LEMMA SumsExist ==
    ASSUME NEW t \in [Days -> Nat]
    PROVE  \E m \in [Days -> Nat] : Sums(m, t)
<1> DEFINE Upto(m, n) == /\ m \in [0 .. n -> Nat]
                         /\ \A d \in 0 .. n : m[d] = (IF d = 0 THEN 0 ELSE m[d - 1]) + t[d]
           G == {n \in 0 .. MaxDay : \E m : Upto(m, n)}
<1>0. MaxDay \in Nat /\ \A d \in 0 .. MaxDay : t[d] \in Nat
  BY DaysAre
<1>1. 0 \in G
  <2>1. Upto([d \in 0 .. 0 |-> t[0]], 0)
    BY <1>0
  <2>2. 0 \in 0 .. MaxDay
    BY <1>0
  <2> HIDE DEF Upto
  <2> QED
    BY <2>1, <2>2
<1>2. ASSUME NEW n \in 1 .. MaxDay, n - 1 \in G PROVE n \in G
  <2>1. PICK m : Upto(m, n - 1)
    BY <1>2
  <2> DEFINE e == [d \in 0 .. n |-> IF d = n THEN m[n - 1] + t[n] ELSE m[d]]
  <2>2. n \in 0 .. MaxDay /\ n - 1 \in 0 .. n - 1 /\ t[n] \in Nat /\ m[n - 1] \in Nat
    BY <1>0, <2>1
  <2>3. \A d \in 0 .. n - 1 : d \in 0 .. n /\ e[d] = m[d] /\ m[d] \in Nat
    BY <1>0, <2>1
  <2>4. e[n] = m[n - 1] + t[n] /\ e[n - 1] = m[n - 1]
    BY <1>0, <2>2
  <2>5. e \in [0 .. n -> Nat]
    BY <1>0, <2>1, <2>2
  <2>6. ASSUME NEW d \in 0 .. n PROVE e[d] = (IF d = 0 THEN 0 ELSE e[d - 1]) + t[d]
    <3>1. CASE d = n
      BY <3>1, <2>4, <1>0
    <3>2. CASE d # n
      <4>1. d \in 0 .. n - 1 /\ (d # 0 => d - 1 \in 0 .. n - 1)
        BY <3>2, <1>0
      <4>2. m[d] = (IF d = 0 THEN 0 ELSE m[d - 1]) + t[d]
        BY <2>1, <4>1
      <4> HIDE DEF e
      <4> QED
        BY <2>3, <4>1, <4>2
    <3> QED
      BY <3>1, <3>2
  <2>7. Upto(e, n)
    BY <2>5, <2>6
  <2> QED
    BY <2>2, <2>7
<1>3. MaxDay \in G
  <2>1. \A n \in 0 .. MaxDay : n \in G
    <3> HIDE DEF G
    <3> QED
      BY <1>0, <1>1, <1>2, HandedOn
  <2> QED
    BY <1>0, <2>1
<1>4. PICK m : Upto(m, MaxDay)
  BY <1>3
<1>5. m \in [Days -> Nat] /\ Sums(m, t)
  BY <1>4, DaysAre DEF Sums
<1> QED
  BY <1>5

\* Two sums of the same numbers agree.
LEMMA SumsAgree ==
    ASSUME NEW t, NEW m, NEW n, Sums(m, t), Sums(n, t)
    PROVE  m[MaxDay] = n[MaxDay]
<1> DEFINE G == {k \in 0 .. MaxDay : m[k] = n[k]}
<1>0. /\ MaxDay \in Nat
      /\ \A d \in 0 .. MaxDay : /\ m[d] = (IF d = 0 THEN 0 ELSE m[d - 1]) + t[d]
                                /\ n[d] = (IF d = 0 THEN 0 ELSE n[d - 1]) + t[d]
  BY DaysAre DEF Sums
<1>1. 0 \in G
  BY <1>0
<1>2. \A k \in 1 .. MaxDay : k - 1 \in G => k \in G
  BY <1>0
<1>3. \A k \in 0 .. MaxDay : k \in G
  <2> HIDE DEF G
  <2> QED
    BY <1>0, <1>1, <1>2, HandedOn
<1> QED
  BY <1>0, <1>3

\* One more on one day is one more in the sum.
OneMore(u, t, x) == \A d \in Days : u[d] = t[d] + (IF d = x THEN 1 ELSE 0)

LEMMA SumsGrow ==
    ASSUME NEW t \in [Days -> Nat], NEW u, NEW x \in Days, OneMore(u, t, x),
           NEW m \in [Days -> Nat], NEW n, Sums(m, t), Sums(n, u)
    PROVE  n[MaxDay] = m[MaxDay] + 1
<1> DEFINE G == {k \in 0 .. MaxDay : n[k] = m[k] + (IF k >= x THEN 1 ELSE 0)}
<1>0. /\ MaxDay \in Nat /\ x \in 0 .. MaxDay
      /\ \A d \in 0 .. MaxDay : /\ m[d] = (IF d = 0 THEN 0 ELSE m[d - 1]) + t[d]
                                /\ n[d] = (IF d = 0 THEN 0 ELSE n[d - 1]) + u[d]
                                /\ m[d] \in Nat /\ t[d] \in Nat
                                /\ u[d] = t[d] + (IF d = x THEN 1 ELSE 0)
  <2>1. Days = 0 .. MaxDay /\ MaxDay \in Nat
    BY DaysAre
  <2>2. ASSUME NEW d \in Days
        PROVE  u[d] = t[d] + (IF d = x THEN 1 ELSE 0) /\ m[d] \in Nat /\ t[d] \in Nat
    <3>1. m[d] \in Nat /\ t[d] \in Nat
      OBVIOUS
    <3>2. u[d] = t[d] + (IF d = x THEN 1 ELSE 0)
      BY DEF OneMore
    <3> QED
      BY <3>1, <3>2
  <2>3. \A d \in Days : /\ m[d] = (IF d = 0 THEN 0 ELSE m[d - 1]) + t[d]
                       /\ n[d] = (IF d = 0 THEN 0 ELSE n[d - 1]) + u[d]
    BY DEF Sums
  <2> QED
    BY <2>1, <2>2, <2>3
<1>1. 0 \in G
  BY <1>0
<1>2. ASSUME NEW k \in 1 .. MaxDay, k - 1 \in G PROVE k \in G
  <2>1. k \in 0 .. MaxDay /\ k - 1 \in 0 .. MaxDay /\ k # 0
    BY <1>0
  <2>2. n[k] = n[k - 1] + t[k] + (IF k = x THEN 1 ELSE 0) /\ m[k] = m[k - 1] + t[k]
    BY <1>0, <2>1, <1>2
  <2> QED
    BY <1>0, <1>2, <2>1, <2>2
<1>3. \A k \in 0 .. MaxDay : k \in G
  <2> HIDE DEF G
  <2> QED
    BY <1>0, <1>1, <1>2, HandedOn
<1> QED
  BY <1>0, <1>3

\* No part is more than the sum, and a sum of nothing is nothing.
LEMMA SumsBound ==
    ASSUME NEW t \in [Days -> Nat], NEW m \in [Days -> Nat], Sums(m, t)
    PROVE  /\ \A x \in Days : t[x] <= m[MaxDay]
           /\ (\A x \in Days : t[x] = 0) => m[MaxDay] = 0
<1>0. /\ MaxDay \in Nat
      /\ \A d \in 0 .. MaxDay : /\ m[d] = (IF d = 0 THEN 0 ELSE m[d - 1]) + t[d]
                                /\ m[d] \in Nat /\ t[d] \in Nat
  BY DaysAre DEF Sums
<1>1. ASSUME NEW x \in 0 .. MaxDay PROVE t[x] <= m[MaxDay]
  <2> DEFINE G == {k \in 0 .. MaxDay : k >= x => t[x] <= m[k]}
  <2>1. 0 \in G
    BY <1>0
  <2>2. ASSUME NEW k \in 1 .. MaxDay, k - 1 \in G PROVE k \in G
    <3>1. k \in 0 .. MaxDay /\ k - 1 \in 0 .. MaxDay /\ k # 0
      BY <1>0
    <3>2. m[k] = m[k - 1] + t[k] /\ m[k - 1] \in Nat /\ t[k] \in Nat /\ t[x] \in Nat
      BY <1>0, <3>1
    <3> QED
      BY <1>0, <2>2, <3>1, <3>2
  <2>3. \A k \in 0 .. MaxDay : k \in G
    <3> HIDE DEF G
    <3> QED
      BY <1>0, <2>1, <2>2, HandedOn
  <2> QED
    BY <1>0, <2>3
<1>2. ASSUME \A x \in 0 .. MaxDay : t[x] = 0 PROVE m[MaxDay] = 0
  <2> DEFINE G == {k \in 0 .. MaxDay : m[k] = 0}
  <2>1. 0 \in G
    BY <1>0, <1>2
  <2>2. \A k \in 1 .. MaxDay : k - 1 \in G => k \in G
    BY <1>0, <1>2
  <2>3. \A k \in 0 .. MaxDay : k \in G
    <3> HIDE DEF G
    <3> QED
      BY <1>0, <2>1, <2>2, HandedOn
  <2> QED
    BY <1>0, <2>3
<1> QED
  BY <1>1, <1>2, DaysAre

\* The records of a day in the files of some dates.
Terms(l, dates, d) == [f \in Days |-> IF f \in dates THEN l[f][d] ELSE 0]
LoggedIn(l, dates, d) == OverDays(LAMBDA f : IF f \in dates THEN l[f][d] ELSE 0)

Logs == [Days -> [Days -> Nat]]

LEMMA LoggedIs ==
    ASSUME NEW l \in Logs, NEW dates, NEW d \in Days
    PROVE  /\ Terms(l, dates, d) \in [Days -> Nat]
           /\ \E m \in [Days -> Nat] : Sums(m, Terms(l, dates, d))
                                       /\ LoggedIn(l, dates, d) = m[MaxDay]
<1> DEFINE t == Terms(l, dates, d)
           Body(m) == m = [f \in Days |-> (IF f = 0 THEN 0 ELSE m[f - 1])
                                          + (IF f \in dates THEN l[f][d] ELSE 0)]
           c == CHOOSE m : Body(m)
<1>1. t \in [Days -> Nat]
  BY DEF Terms, Logs
<1>2. \A m : Body(m) <=> Sums(m, t)
  BY DEF Terms, Sums
<1>3. PICK m \in [Days -> Nat] : Sums(m, t)
  BY <1>1, SumsExist
<1>4. Body(c)
  <2>1. Body(m)
    BY <1>2, <1>3
  <2> HIDE DEF Body
  <2> QED
    BY <2>1, Zenon
<1>5. Sums(c, t)
  BY <1>2, <1>4
<1>6. LoggedIn(l, dates, d) = c[MaxDay]
  BY Zenon DEF LoggedIn, OverDays
<1>7. c[MaxDay] = m[MaxDay]
  <2> HIDE DEF c, t
  <2> QED
    BY <1>3, <1>5, SumsAgree
<1> QED
  BY <1>1, <1>3, <1>6, <1>7

LEMMA LoggedSame ==
    ASSUME NEW l \in Logs, NEW k \in Logs, NEW S, NEW T, NEW d \in Days,
           \A f \in Days : (IF f \in S THEN l[f][d] ELSE 0) = (IF f \in T THEN k[f][d] ELSE 0)
    PROVE  LoggedIn(l, S, d) = LoggedIn(k, T, d)
<1>1. Terms(l, S, d) = Terms(k, T, d)
  BY DEF Terms
<1>2. PICK m \in [Days -> Nat] : Sums(m, Terms(l, S, d)) /\ LoggedIn(l, S, d) = m[MaxDay]
  BY LoggedIs
<1>3. PICK n \in [Days -> Nat] : Sums(n, Terms(k, T, d)) /\ LoggedIn(k, T, d) = n[MaxDay]
  BY LoggedIs
<1> QED
  BY <1>1, <1>2, <1>3, SumsAgree

LEMMA LoggedBound ==
    ASSUME NEW l \in Logs, NEW S, NEW d \in Days
    PROVE  /\ LoggedIn(l, S, d) \in Nat
           /\ \A f \in Days \cap S : l[f][d] <= LoggedIn(l, S, d)
           /\ (\A f \in Days \cap S : l[f][d] = 0) => LoggedIn(l, S, d) = 0
<1> DEFINE t == Terms(l, S, d)
<1>1. t \in [Days -> Nat] /\ \A f \in Days : t[f] = IF f \in S THEN l[f][d] ELSE 0
  BY LoggedIs DEF Terms
<1> HIDE DEF t
<1>2. PICK m \in [Days -> Nat] : Sums(m, t) /\ LoggedIn(l, S, d) = m[MaxDay]
  BY LoggedIs DEF t
<1>3. m[MaxDay] \in Nat
  BY DaysAre
<1> QED
  BY <1>1, <1>2, <1>3, SumsBound

OneMoreIn(k, l, x, y) ==
    \A f, e \in Days : k[f][e] = l[f][e] + (IF f = x /\ e = y THEN 1 ELSE 0)

LEMMA LoggedGrows ==
    ASSUME NEW l \in Logs, NEW k \in Logs, NEW x \in Days, NEW y \in Days, NEW d \in Days,
           OneMoreIn(k, l, x, y)
    PROVE  LoggedIn(k, Days, d) = LoggedIn(l, Days, d) + (IF d = y THEN 1 ELSE 0)
<1>2. LoggedIn(l, Days, d) \in Nat
  BY LoggedBound
<1>3. CASE d = y
  <2> DEFINE t == Terms(l, Days, d)
             u == Terms(k, Days, d)
  <2>1. OneMore(u, t, x)
    <3>1. \A f \in Days : u[f] = k[f][d] /\ t[f] = l[f][d]
      BY DEF Terms
    <3>2. \A f \in Days : k[f][d] = l[f][d] + (IF f = x THEN 1 ELSE 0)
      BY <1>3 DEF OneMoreIn
    <3> HIDE DEF t, u
    <3> QED
      BY <3>1, <3>2 DEF OneMore
  <2>2. PICK m \in [Days -> Nat] : Sums(m, t) /\ LoggedIn(l, Days, d) = m[MaxDay]
    BY LoggedIs
  <2>3. PICK n \in [Days -> Nat] : Sums(n, u) /\ LoggedIn(k, Days, d) = n[MaxDay]
    BY LoggedIs
  <2>4. t \in [Days -> Nat]
    BY LoggedIs
  <2> QED
    <3>1. n[MaxDay] = m[MaxDay] + 1
      <4> HIDE DEF t, u
      <4> QED
        BY <2>1, <2>2, <2>3, <2>4, SumsGrow
    <3> QED
      BY <1>2, <1>3, <2>2, <2>3, <3>1
<1>4. CASE d # y
  <2>1. \A f \in Days : (IF f \in Days THEN k[f][d] ELSE 0) = (IF f \in Days THEN l[f][d] ELSE 0)
    <3>1. ASSUME NEW f \in Days PROVE k[f][d] = l[f][d]
      <4>1. k[f][d] = l[f][d] + 0 /\ l[f][d] \in Nat
        BY <1>4 DEF OneMoreIn, Logs
      <4> QED
        BY <4>1
    <3> QED
      BY <3>1
  <2>2. LoggedIn(k, Days, d) = LoggedIn(l, Days, d)
    BY <2>1, LoggedSame
  <2> QED
    BY <1>2, <1>4, <2>2
<1> QED
  BY <1>3, <1>4

\* A day within the horizon is among the newest, whatever other days there are.
LEMMA KeepsHorizon ==
    ASSUME NEW last \in Nat, NEW days, days \subseteq 0 .. last,
           NEW d \in days, d + Horizon > last
    PROVE  d \in Newest(days)
<1> DEFINE Newer == {e \in days : e > d}
<1>1. d \in Nat /\ Horizon \in Nat /\ d <= last
  BY UsageStatsAssumption
<1>2. Newer \subseteq (d + 1) .. last
  <2> SUFFICES ASSUME NEW e \in Newer PROVE e \in (d + 1) .. last
    OBVIOUS
  <2>1. e \in 0 .. last /\ e > d
    OBVIOUS
  <2> QED
    BY <1>1, <2>1
<1>3. IsFiniteSet((d + 1) .. last) /\ Cardinality((d + 1) .. last) = last - d
  <2>1. d + 1 \in Int /\ last \in Int
    BY <1>1
  <2>2. /\ IsFiniteSet((d + 1) .. last)
        /\ Cardinality((d + 1) .. last) = IF d + 1 > last THEN 0 ELSE last - (d + 1) + 1
    BY <2>1, FS_Interval
  <2> QED
    BY <1>1, <2>2
<1>4. IsFiniteSet(Newer) /\ Cardinality(Newer) <= last - d
  BY <1>2, <1>3, FS_Subset
<1>5. Cardinality(Newer) \in Nat
  BY <1>4, FS_CardinalityType
<1>6. Cardinality(Newer) < Horizon
  BY <1>1, <1>4, <1>5
<1> QED
  BY <1>6 DEF Newest

-----------------------------------------------------------------------------
(* UsageStats: the chart                                                   *)

StatsSpec == StatsInit /\ [][StatsNext]_statsVars

StatsTyped ==
    /\ day \in Days /\ logs \in Logs /\ unlogged \in [Days -> Nat]
    /\ DOMAIN buckets \subseteq 0 .. day /\ \A d \in DOMAIN buckets : buckets[d] \in Nat
    /\ writer \in [Writers -> [pc: {"none", "log", "ingest"}, ts: Nat]]
    /\ \A w \in Writers : writer[w].ts <= day

\* A file holds days up to its own, and no file is of a day to come: what the
\* files before the horizon hold is before the horizon.
FilesInOrder == \A f, d \in Days : logs[f][d] # 0 => d <= f /\ f <= day

StatsInv == StatsTyped /\ FilesInOrder /\ ChartMatchesLogs

Shown(b, d) == IF d \in DOMAIN b THEN b[d] ELSE 0
Due(d) == [pc |-> "ingest", ts |-> d]
Coming(wr, d) == {w \in Writers : wr[w] = Due(d)}
Balanced(b, wr, l, u, d) ==
    Shown(b, d) + Cardinality(Coming(wr, d)) = LoggedIn(l, Days, d) + u[d]

LEMMA ChartIs ==
    ChartMatchesLogs <=>
        \A d \in Days : d + Horizon > day /\ d \notin cleaned
                           => Balanced(buckets, writer, logs, unlogged, d)
BY DEF ChartMatchesLogs, Balanced, Shown, Coming, Due, Logged, LoggedIn

LEMMA ComingFinite ==
    ASSUME NEW wr, NEW d
    PROVE  IsFiniteSet(Coming(wr, d)) /\ Cardinality(Coming(wr, d)) \in Nat
<1>1. Coming(wr, d) \subseteq Writers
  BY DEF Coming
<1> QED
  BY <1>1, UsageStatsAssumption, FS_Subset, FS_CardinalityType

LEMMA StatsInitInv == StatsInit => StatsInv
<1> SUFFICES ASSUME StatsInit PROVE StatsInv
  OBVIOUS
<1>1. StatsTyped /\ FilesInOrder
  BY DaysAre DEF StatsInit, StatsTyped, FilesInOrder, Zero, NoRecord, Logs
<1>2. ASSUME NEW d \in Days PROVE Balanced(buckets, writer, logs, unlogged, d)
  <2>1. Shown(buckets, d) = 0 /\ unlogged[d] = 0
    BY DEF StatsInit, Shown, Zero
  <2>2. Coming(writer, d) = {}
    BY DEF StatsInit, Coming, Due, NoRecord
  <2>3. LoggedIn(logs, Days, d) = 0
    BY <1>1, LoggedBound DEF StatsInit, Zero, StatsTyped
  <2> QED
    BY <2>1, <2>2, <2>3, FS_EmptySet DEF Balanced
<1> QED
  BY <1>1, <1>2, ChartIs DEF StatsInv

LEMMA NextChartIs ==
    ChartMatchesLogs' <=>
        \A d \in Days : d + Horizon > day' /\ d \notin cleaned'
                           => Balanced(buckets', writer', logs', unlogged', d)
<1>1. \A d \in Days : (Logged(Days, d))' = LoggedIn(logs', Days, d)
  BY Zenon DEF Logged, LoggedIn, OverDays, Days
<1>2. ChartMatchesLogs' <=>
        \A d \in {e \in Days : e + Horizon > day'} \ cleaned' :
            Shown(buckets', d) + Cardinality(Coming(writer', d))
              = (Logged(Days, d))' + unlogged'[d]
  BY Zenon DEF ChartMatchesLogs, Shown, Coming, Due, Days
<1> QED
  BY <1>1, <1>2 DEF Balanced

\* What a request does to its record, seen from one day of the chart.
LEMMA ComingIs ==
    ASSUME StatsInv, NEW w \in Writers, NEW r \in [pc: {"none", "log", "ingest"}, ts: Nat],
           NEW wr, \A v \in Writers : wr[v] = IF v = w THEN r ELSE writer[v],
           NEW d \in Days
    PROVE  Cardinality(Coming(wr, d)) =
              Cardinality(Coming(writer, d)) + (IF r = Due(d) THEN 1 ELSE 0)
                                             - (IF writer[w] = Due(d) THEN 1 ELSE 0)
<1> DEFINE A == Coming(writer, d)
           B == Coming(wr, d)
<1>1. /\ \A v \in Writers : wr[v] = IF v = w THEN r ELSE writer[v]
      /\ IsFiniteSet(A) /\ Cardinality(A) \in Nat
  BY ComingFinite DEF StatsInv, StatsTyped
<1>2. \A v : v \in A <=> v \in Writers /\ writer[v] = Due(d)
  BY DEF Coming
<1>3. \A v : v \in B <=> v \in Writers /\ wr[v] = Due(d)
  BY DEF Coming
<1> HIDE DEF A, B
<1>4. CASE r = Due(d) /\ writer[w] # Due(d)
  <2>1. B = A \cup {w} /\ w \notin A
    BY <1>1, <1>2, <1>3, <1>4
  <2> QED
    <3>1. Cardinality(B) = Cardinality(A) + 1
      BY <1>1, <2>1, FS_AddElement
    <3> QED
      BY <1>1, <1>4, <3>1 DEF A, B
<1>5. CASE writer[w] = Due(d) /\ r # Due(d)
  <2>1. B = A \ {w} /\ w \in A
    BY <1>1, <1>2, <1>3, <1>5
  <2> QED
    <3>1. Cardinality(B) = Cardinality(A) - 1
      BY <1>1, <2>1, FS_RemoveElement
    <3> QED
      BY <1>1, <1>5, <3>1 DEF A, B
<1>6. CASE writer[w] = Due(d) <=> r = Due(d)
  <2>1. B = A
    BY <1>1, <1>2, <1>3, <1>6
  <2> QED
    BY <1>1, <1>6, <2>1 DEF A, B
<1> QED
  BY <1>4, <1>5, <1>6

LEMMA StampKeeps ==
    ASSUME StatsInv, NEW w \in Writers, Stamp(w)
    PROVE  StatsInv'
<1> DEFINE r == [pc |-> "log", ts |-> day]
<1>1. /\ writer[w] = NoRecord /\ writer' = [writer EXCEPT ![w] = r]
      /\ day' = day /\ logs' = logs /\ buckets' = buckets /\ unlogged' = unlogged
      /\ cleaned' = cleaned
  BY DEF Stamp
<1>2. r \in [pc: {"none", "log", "ingest"}, ts: Nat] /\ day \in Nat
  BY DaysAre DEF StatsInv, StatsTyped
<1>3. StatsTyped' /\ FilesInOrder'
  BY <1>1, <1>2 DEF StatsInv, StatsTyped, FilesInOrder, Logs, Days
<1>4. ASSUME NEW d \in Days
      PROVE  Cardinality(Coming(writer', d)) = Cardinality(Coming(writer, d))
  <2>1. writer[w] # Due(d) /\ r # Due(d) /\ Cardinality(Coming(writer, d)) \in Nat
    BY <1>1, ComingFinite DEF NoRecord, Due
  <2> HIDE DEF r
  <2>2. Cardinality(Coming(writer', d))
           = Cardinality(Coming(writer, d)) + (IF r = Due(d) THEN 1 ELSE 0)
                                            - (IF writer[w] = Due(d) THEN 1 ELSE 0)
    <3>1. \A v \in Writers : writer'[v] = IF v = w THEN r ELSE writer[v]
      BY <1>1 DEF StatsInv, StatsTyped
    <3> QED
      BY <1>2, <3>1, ComingIs
  <2> QED
    BY <2>1, <2>2
<1>5. ChartMatchesLogs'
  BY <1>1, <1>4, ChartIs, NextChartIs DEF StatsInv, Balanced
<1> QED
  BY <1>3, <1>5 DEF StatsInv

LEMMA LogKeeps ==
    ASSUME StatsInv, NEW w \in Writers, NEW today \in Days, NEW ok \in BOOLEAN,
           Log(w, today, ok)
    PROVE  StatsInv'
<1> DEFINE ts == writer[w].ts
           r == [pc |-> "ingest", ts |-> ts]
<1>1. /\ writer[w].pc = "log" /\ writer' = [writer EXCEPT ![w].pc = "ingest"]
      /\ logs' = IF ok THEN [logs EXCEPT ![today] = Plus(@, ts)] ELSE logs
      /\ unlogged' = IF ok THEN unlogged ELSE Plus(unlogged, ts)
      /\ today \in ts..day /\ day' = day /\ buckets' = buckets /\ cleaned' = cleaned
  BY DEF Log, At
<1>2. /\ day \in Days /\ day \in Nat /\ ts \in Nat /\ ts <= day /\ ts \in Days
      /\ today \in Nat /\ ts <= today /\ today <= day
      /\ writer[w] = [pc |-> "log", ts |-> ts]
  BY <1>1, DaysAre DEF StatsInv, StatsTyped
<1>3. r \in [pc: {"none", "log", "ingest"}, ts: Nat] /\ writer' = [writer EXCEPT ![w] = r]
  <2>1. [writer[w] EXCEPT !.pc = "ingest"] = r
    BY <1>2
  <2> QED
    BY <1>1, <1>2, <2>1
<1>4. /\ logs' \in Logs /\ unlogged' \in [Days -> Nat]
      /\ \A d \in Days : LoggedIn(logs', Days, d) + unlogged'[d]
                           = LoggedIn(logs, Days, d) + unlogged[d] + (IF d = ts THEN 1 ELSE 0)
  <2>1. logs \in Logs /\ unlogged \in [Days -> Nat]
    BY DEF StatsInv, StatsTyped
  <2>2. \A d \in Days : LoggedIn(logs, Days, d) \in Nat /\ unlogged[d] \in Nat
    BY <2>1, LoggedBound
  <2>3. CASE ok
    <3>1. logs' = [logs EXCEPT ![today] = Plus(@, ts)] /\ unlogged' = unlogged
      BY <1>1, <2>3
    <3> HIDE DEF ts
    <3>2. logs' \in Logs /\ \A d \in Days : LoggedIn(logs', Days, d)
                                      = LoggedIn(logs, Days, d) + (IF d = ts THEN 1 ELSE 0)
      <4>1. /\ logs' \in Logs
            /\ OneMoreIn(logs', logs, today, ts)
        BY <1>2, <2>1, <3>1 DEF Logs, Plus, OneMoreIn
      <4> QED
        BY <1>2, <2>1, <4>1, LoggedGrows
    <3>3. ASSUME NEW d \in Days
          PROVE  LoggedIn(logs', Days, d) + unlogged'[d]
                   = LoggedIn(logs, Days, d) + unlogged[d] + (IF d = ts THEN 1 ELSE 0)
      <4>1. LoggedIn(logs, Days, d) \in Nat /\ unlogged[d] \in Nat
        BY <2>2
      <4>2. LoggedIn(logs', Days, d) = LoggedIn(logs, Days, d) + (IF d = ts THEN 1 ELSE 0)
        BY <3>2
      <4> QED
        BY <3>1, <4>1, <4>2
    <3> QED
      BY <2>1, <3>1, <3>2, <3>3
  <2>4. CASE ~ok
    <3>1. unlogged' \in [Days -> Nat]
          /\ \A d \in Days : unlogged'[d] = unlogged[d] + (IF d = ts THEN 1 ELSE 0)
      BY <1>1, <1>2, <2>1, <2>4 DEF Plus
    <3> QED
      BY <1>1, <2>1, <2>2, <2>4, <3>1
  <2> QED
    BY <2>3, <2>4
<1>5. StatsTyped'
  BY <1>1, <1>2, <1>3, <1>4 DEF StatsInv, StatsTyped, Days
<1>6. FilesInOrder'
  <2> SUFFICES ASSUME NEW f \in Days, NEW d \in Days, logs'[f][d] # 0
               PROVE  d <= f /\ f <= day
    BY <1>1 DEF FilesInOrder, Days
  <2>1. CASE logs[f][d] # 0
    BY <2>1 DEF StatsInv, FilesInOrder
  <2>2. CASE logs[f][d] = 0
    <3>1. f = today /\ d = ts
      BY <1>1, <1>2, <2>2 DEF StatsInv, StatsTyped, Logs, Plus
    <3> QED
      BY <1>2, <3>1
  <2> QED
    BY <2>1, <2>2
<1>7. \A d \in Days : Cardinality(Coming(writer', d))
                        = Cardinality(Coming(writer, d)) + (IF d = ts THEN 1 ELSE 0)
  <2> SUFFICES ASSUME NEW d \in Days
               PROVE  Cardinality(Coming(writer', d))
                        = Cardinality(Coming(writer, d)) + (IF d = ts THEN 1 ELSE 0)
    OBVIOUS
  <2>1. writer[w] # Due(d) /\ (r = Due(d) <=> d = ts)
    BY <1>2 DEF Due
  <2>2. Cardinality(Coming(writer, d)) \in Nat
    BY ComingFinite
  <2> HIDE DEF r
  <2>3. Cardinality(Coming(writer', d))
           = Cardinality(Coming(writer, d)) + (IF r = Due(d) THEN 1 ELSE 0)
                                            - (IF writer[w] = Due(d) THEN 1 ELSE 0)
    <3>1. \A v \in Writers : writer'[v] = IF v = w THEN r ELSE writer[v]
      BY <1>3 DEF StatsInv, StatsTyped
    <3>2. r \in [pc: {"none", "log", "ingest"}, ts: Nat]
      BY <1>3
    <3> QED
      BY <3>1, <3>2, ComingIs
  <2> QED
    BY <2>1, <2>2, <2>3
<1>8. ChartMatchesLogs'
  <2> SUFFICES ASSUME NEW d \in Days, d + Horizon > day, d \notin cleaned
               PROVE  Balanced(buckets', writer', logs', unlogged', d)
    BY <1>1, NextChartIs
  <2>1. Balanced(buckets, writer, logs, unlogged, d)
    BY ChartIs DEF StatsInv
  <2>2. Shown(buckets, d) \in Nat /\ Cardinality(Coming(writer, d)) \in Nat
    BY ComingFinite DEF StatsInv, StatsTyped, Shown
  <2>3. LoggedIn(logs, Days, d) \in Nat /\ unlogged[d] \in Nat
    BY LoggedBound DEF StatsInv, StatsTyped
  <2>4. LoggedIn(logs', Days, d) + unlogged'[d]
           = LoggedIn(logs, Days, d) + unlogged[d] + (IF d = ts THEN 1 ELSE 0)
    BY <1>4
  <2>5. Cardinality(Coming(writer', d))
           = Cardinality(Coming(writer, d)) + (IF d = ts THEN 1 ELSE 0)
    BY <1>7
  <2> QED
    BY <1>1, <2>1, <2>2, <2>3, <2>4, <2>5 DEF Balanced
<1> QED
  BY <1>5, <1>6, <1>8 DEF StatsInv

LEMMA IngestKeeps ==
    ASSUME StatsInv, NEW w \in Writers, Ingest(w)
    PROVE  StatsInv'
<1> DEFINE ts == writer[w].ts
           days == DOMAIN buckets \cup {ts}
           calls0 == [e \in days |-> (IF e \in DOMAIN buckets THEN buckets[e] ELSE 0)
                                     + (IF e = ts THEN 1 ELSE 0)]
<1>1. /\ writer[w].pc = "ingest" /\ writer' = [writer EXCEPT ![w] = NoRecord]
      /\ buckets' = Restrict(calls0, Newest(days))
      /\ day' = day /\ logs' = logs /\ unlogged' = unlogged /\ cleaned' = cleaned
  BY DEF Ingest, Ingested
<1>2. /\ day \in Nat /\ ts \in Nat /\ ts <= day
      /\ writer[w] = [pc |-> "ingest", ts |-> ts]
      /\ days \subseteq 0 .. day
  BY <1>1, DaysAre DEF StatsInv, StatsTyped
<1>3. /\ DOMAIN buckets' = Newest(days) /\ Newest(days) \subseteq days
      /\ \A e \in Newest(days) :
            buckets'[e] = Shown(buckets, e) + (IF e = ts THEN 1 ELSE 0)
  <2>1. Newest(days) \subseteq days
    BY DEF Newest
  <2>2. buckets' = [e \in Newest(days) |-> calls0[e]]
    BY <1>1 DEF Restrict
  <2> QED
    BY <2>1, <2>2 DEF Shown
<1>4. \A e \in 0 .. day : Shown(buckets, e) \in Nat
  BY DEF Shown, StatsInv, StatsTyped
<1>5. NoRecord \in [pc: {"none", "log", "ingest"}, ts: Nat] /\ NoRecord.ts <= day
  BY <1>2 DEF NoRecord
<1>6. StatsTyped'
  <2>1. \A e \in DOMAIN buckets' : buckets'[e] \in Nat
    BY <1>2, <1>3, <1>4
  <2>2. DOMAIN buckets' \subseteq 0 .. day
    BY <1>2, <1>3
  <2>3. /\ writer' \in [Writers -> [pc: {"none", "log", "ingest"}, ts: Nat]]
        /\ \A v \in Writers : writer'[v].ts <= day
    BY <1>1, <1>5 DEF StatsInv, StatsTyped
  <2> QED
    BY <1>1, <2>1, <2>2, <2>3 DEF StatsInv, StatsTyped, Days, Logs
<1>7. FilesInOrder'
  BY <1>1 DEF StatsInv, FilesInOrder, Days
<1>8. ChartMatchesLogs'
  <2> SUFFICES ASSUME NEW d \in Days, d + Horizon > day, d \notin cleaned
               PROVE  Balanced(buckets', writer', logs', unlogged', d)
    BY <1>1, NextChartIs
  <2>1. Balanced(buckets, writer, logs, unlogged, d)
    BY ChartIs DEF StatsInv
  <2>2. Shown(buckets, d) \in Nat /\ Cardinality(Coming(writer, d)) \in Nat
    BY ComingFinite DEF StatsInv, StatsTyped, Shown
  <2>3. Cardinality(Coming(writer', d))
           = Cardinality(Coming(writer, d)) - (IF d = ts THEN 1 ELSE 0)
    <3>1. NoRecord # Due(d) /\ (writer[w] = Due(d) <=> d = ts)
      BY <1>2 DEF NoRecord, Due
    <3>2. Cardinality(Coming(writer', d))
             = Cardinality(Coming(writer, d)) + (IF NoRecord = Due(d) THEN 1 ELSE 0)
                                              - (IF writer[w] = Due(d) THEN 1 ELSE 0)
      <4>1. \A v \in Writers : writer'[v] = IF v = w THEN NoRecord ELSE writer[v]
        BY <1>1 DEF StatsInv, StatsTyped
      <4> QED
        BY <1>5, <4>1, ComingIs
    <3> QED
      BY <2>2, <3>1, <3>2
  <2>4. Shown(buckets', d) = Shown(buckets, d) + (IF d = ts THEN 1 ELSE 0)
    <3>1. CASE d \in days
      <4>1. d \in Newest(days)
        BY <1>2, <3>1, KeepsHorizon
      <4> QED
        BY <1>3, <4>1 DEF Shown
    <3>2. CASE d \notin days
      <4>1. d # ts /\ d \notin DOMAIN buckets /\ d \notin DOMAIN buckets'
        BY <1>3, <3>2
      <4> QED
        BY <4>1 DEF Shown
    <3> QED
      BY <3>1, <3>2
  <2>5. LoggedIn(logs', Days, d) = LoggedIn(logs, Days, d) /\ unlogged'[d] = unlogged[d]
    BY <1>1
  <2>6. LoggedIn(logs, Days, d) \in Nat /\ unlogged[d] \in Nat
    BY LoggedBound DEF StatsInv, StatsTyped
  <2> QED
    BY <2>1, <2>2, <2>3, <2>4, <2>5, <2>6 DEF Balanced
<1> QED
  BY <1>6, <1>7, <1>8 DEF StatsInv

LEMMA CleanUpLogsKeeps ==
    ASSUME StatsInv, CleanUpLogs
    PROVE  StatsInv'
<1> DEFINE old == {f \in Days : f + retention < day}
<1>1. /\ logs' = [f \in Days |-> IF f \in old THEN Zero ELSE logs[f]]
      /\ cleaned' = cleaned \cup {d \in Days : LoggedIn(logs, old, d) > 0}
      /\ day' = day /\ buckets' = buckets /\ writer' = writer /\ unlogged' = unlogged
  BY DEF CleanUpLogs, Logged, LoggedIn
<1>2. logs \in Logs /\ logs' \in Logs
  BY <1>1 DEF StatsInv, StatsTyped, Logs, Zero
<1>3. StatsTyped'
  BY <1>1, <1>2 DEF StatsInv, StatsTyped, Days
<1>4. \A f, d \in Days : logs'[f][d] = IF f \in old THEN 0 ELSE logs[f][d]
  BY <1>1 DEF Zero
<1>5. FilesInOrder'
  BY <1>1, <1>4 DEF StatsInv, FilesInOrder, Days
<1>6. ASSUME NEW d \in Days, d \notin cleaned'
      PROVE  LoggedIn(logs', Days, d) = LoggedIn(logs, Days, d)
  <2>1. LoggedIn(logs, old, d) \in Nat /\ ~ (LoggedIn(logs, old, d) > 0)
    BY <1>1, <1>2, <1>6, LoggedBound
  <2>2. \A f \in old : logs[f][d] <= LoggedIn(logs, old, d) /\ logs[f][d] \in Nat
    BY <1>2, LoggedBound DEF Logs
  <2>3. \A f \in old : logs[f][d] = 0
    BY <2>1, <2>2
  <2>4. \A f \in Days : (IF f \in Days THEN logs'[f][d] ELSE 0)
                          = (IF f \in Days THEN logs[f][d] ELSE 0)
    BY <1>4, <2>3
  <2> HIDE DEF old
  <2> QED
    BY <1>2, <2>4, LoggedSame
<1>7. ChartMatchesLogs'
  BY <1>1, <1>6, ChartIs, NextChartIs DEF StatsInv, Balanced
<1> QED
  BY <1>3, <1>5, <1>7 DEF StatsInv

LEMMA NextDayKeeps ==
    ASSUME StatsInv, NextDay
    PROVE  StatsInv'
<1>1. /\ day < MaxDay /\ day' = day + 1
      /\ logs' = logs /\ buckets' = buckets /\ writer' = writer /\ unlogged' = unlogged
      /\ cleaned' = cleaned
  BY DEF NextDay
<1>2. day \in Nat /\ MaxDay \in Nat /\ Horizon \in Nat /\ day' \in Days /\ Days \subseteq Nat
  BY <1>1, DaysAre, UsageStatsAssumption DEF StatsInv, StatsTyped
<1>3. StatsTyped'
  <2>1. DOMAIN buckets \subseteq 0 .. day'
    BY <1>1, <1>2 DEF StatsInv, StatsTyped
  <2>2. \A w \in Writers : writer[w].ts <= day'
    BY <1>1, <1>2 DEF StatsInv, StatsTyped
  <2> QED
    BY <1>1, <1>2, <2>1, <2>2 DEF StatsInv, StatsTyped, Days, Logs
<1>4. FilesInOrder'
  BY <1>1, <1>2 DEF StatsInv, FilesInOrder, Days
<1>5. ChartMatchesLogs'
  <2>1. \A d \in Days : d + Horizon > day' => d + Horizon > day
    BY <1>1, <1>2
  <2> QED
    BY <1>1, <2>1, ChartIs, NextChartIs DEF StatsInv
<1> QED
  BY <1>3, <1>4, <1>5 DEF StatsInv

\* A start reads every file that can hold a day of the horizon, and only that
\* file's share of it.
LEMMA StatsRestartKeeps ==
    ASSUME StatsInv, StatsRestart
    PROVE  StatsInv'
<1> DEFINE have == {e \in Days : LoggedIn(logs, Recent, e) > 0}
<1>1. /\ buckets' = [e \in Newest(have) |-> LoggedIn(logs, Recent, e)]
      /\ writer' = [w \in Writers |-> NoRecord] /\ unlogged' = Zero
      /\ day' = day /\ logs' = logs /\ cleaned' = cleaned
  BY DEF StatsRestart, Rebuilt, FromFiles, Logged, LoggedIn
<1>2. /\ day \in Nat /\ Days \subseteq Nat /\ Horizon \in Nat /\ logs \in Logs
      /\ Newest(have) \subseteq have
  BY DaysAre, UsageStatsAssumption DEF StatsInv, StatsTyped, Newest
<1>3. \A e \in Days : LoggedIn(logs, Recent, e) \in Nat
  BY <1>2, LoggedBound
<1>4. have \subseteq 0 .. day
  <2> SUFFICES ASSUME NEW e \in have, e \notin 0 .. day PROVE FALSE
    OBVIOUS
  <2>1. e \in Days /\ LoggedIn(logs, Recent, e) > 0 /\ e > day
    BY <1>2
  <2>2. \A f \in Days \cap Recent : logs[f][e] = 0
    <3> SUFFICES ASSUME NEW f \in Days, logs[f][e] # 0 PROVE FALSE
      OBVIOUS
    <3>1. e <= f /\ f <= day
      BY <2>1 DEF StatsInv, FilesInOrder
    <3> QED
      BY <1>2, <2>1, <3>1
  <2>3. LoggedIn(logs, Recent, e) = 0
    BY <1>2, <2>1, <2>2, LoggedBound
  <2> QED
    BY <2>1, <2>3
<1>5. StatsTyped'
  <2>1. DOMAIN buckets' \subseteq 0 .. day /\ \A e \in DOMAIN buckets' : buckets'[e] \in Nat
    BY <1>1, <1>2, <1>3, <1>4
  <2>2. /\ writer' \in [Writers -> [pc: {"none", "log", "ingest"}, ts: Nat]]
        /\ \A w \in Writers : writer'[w].ts <= day
    BY <1>1, <1>2 DEF NoRecord
  <2>3. unlogged' \in [Days -> Nat]
    BY <1>1 DEF Zero
  <2> QED
    BY <1>1, <2>1, <2>2, <2>3 DEF StatsInv, StatsTyped, Days, Logs
<1>6. FilesInOrder'
  BY <1>1 DEF StatsInv, FilesInOrder, Days
<1>7. ASSUME NEW d \in Days, d + Horizon > day
      PROVE  Balanced(buckets', writer', logs', unlogged', d)
  <2>1. LoggedIn(logs, Recent, d) = LoggedIn(logs, Days, d)
    <3>1. ASSUME NEW f \in Days, f \notin Recent PROVE logs[f][d] = 0
      <4>1. f + Horizon < day /\ f \in Nat /\ d \in Nat
        BY <1>2, <3>1 DEF Recent
      <4>2. logs[f][d] # 0 => d <= f
        BY DEF StatsInv, FilesInOrder
      <4> QED
        BY <1>2, <1>7, <4>1, <4>2
    <3>2. \A f \in Days : (IF f \in Recent THEN logs[f][d] ELSE 0)
                            = (IF f \in Days THEN logs[f][d] ELSE 0)
      BY <3>1
    <3> QED
      BY <1>2, <3>2, LoggedSame
  <2>2. Shown(buckets', d) = LoggedIn(logs, Recent, d)
    <3>1. CASE d \in have
      <4>1. d \in Newest(have)
        <5> HIDE DEF have
        <5> QED
          BY <1>2, <1>4, <1>7, <3>1, KeepsHorizon
      <4> QED
        BY <1>1, <4>1 DEF Shown
    <3>2. CASE d \notin have
      <4>1. LoggedIn(logs, Recent, d) = 0
        BY <1>3, <3>2
      <4>2. d \notin DOMAIN buckets'
        BY <1>1, <1>2, <3>2
      <4> QED
        BY <4>1, <4>2 DEF Shown
    <3> QED
      BY <3>1, <3>2
  <2>3. Coming(writer', d) = {}
    BY <1>1 DEF Coming, Due, NoRecord
  <2>4. unlogged'[d] = 0
    BY <1>1 DEF Zero
  <2> QED
    BY <1>1, <1>3, <2>1, <2>2, <2>3, <2>4, FS_EmptySet DEF Balanced
<1>8. ChartMatchesLogs'
  BY <1>1, <1>7, NextChartIs
<1> QED
  BY <1>5, <1>6, <1>8 DEF StatsInv

\* The inductive invariant of the chart: besides the balance of each day, that
\* a file holds no day after its own.
THEOREM ChartInvariant == StatsSpec => []StatsInv
<1>1. StatsInit => StatsInv
  BY StatsInitInv
<1>2. StatsInv /\ [StatsNext]_statsVars => StatsInv'
  <2> SUFFICES ASSUME StatsInv, [StatsNext]_statsVars PROVE StatsInv'
    OBVIOUS
  <2>1. ASSUME NEW w \in Writers, Stamp(w) PROVE StatsInv'
    BY <2>1, StampKeeps
  <2>2. ASSUME NEW w \in Writers, NEW today \in Days, NEW ok \in BOOLEAN, Log(w, today, ok)
        PROVE  StatsInv'
    BY <2>2, LogKeeps
  <2>3. ASSUME NEW w \in Writers, Ingest(w) PROVE StatsInv'
    BY <2>3, IngestKeeps
  <2>4. CASE CleanUpLogs \/ NextDay \/ StatsRestart
    BY <2>4, CleanUpLogsKeeps, NextDayKeeps, StatsRestartKeeps
  <2>5. ASSUME UNCHANGED <<day, logs, buckets, writer, unlogged, cleaned>> PROVE StatsInv'
    <3>1. StatsTyped' /\ FilesInOrder'
      BY <2>5 DEF StatsInv, StatsTyped, FilesInOrder, Days, Logs
    <3>2. ChartMatchesLogs'
      BY <2>5, ChartIs, NextChartIs DEF StatsInv
    <3> QED
      BY <3>1, <3>2 DEF StatsInv
  <2> QED
    BY <2>1, <2>2, <2>3, <2>4, <2>5 DEF StatsNext, SetRetention, statsVars
<1> QED
  BY <1>1, <1>2, PTL DEF StatsSpec

(* The chart of usage_stats.rs is that of the logs: whatever requests end  *)
(* at midnight, logs fail, files are cleaned up and restarts come, a day   *)
(* of the horizon counts each of its calls once, and failures are counted  *)
(* against the account that had them.                                      *)
THEOREM PanelsShowWhatHappened == Spec => []PanelsTellTheTruth
<1>1. Spec => StatsSpec
  <2>1. Init => StatsInit
    BY DEF Init
  <2>2. [Next]_vars => [StatsNext]_statsVars
    BY DEF Next, vars, parts, statsVars
  <2> QED
    BY <2>1, <2>2, PTL DEF Spec, StatsSpec
<1>2. Spec => TraceSpec
  <2>1. Init => TraceInit
    BY DEF Init
  <2>2. [Next]_vars => [TraceNext]_traceVars
    BY DEF Next, vars, parts, traceVars
  <2> QED
    BY <2>1, <2>2, PTL DEF Spec, TraceSpec
<1>3. StatsInv /\ FailuresAreItsOwn => PanelsTellTheTruth
  BY DEF StatsInv, PanelsTellTheTruth
<1> QED
  BY <1>1, <1>2, <1>3, ChartInvariant, FailuresStayWithTheirAccount, PTL

---------------------------------------------------------------------------
(* Proxies.                                                                *)

ProxySpec == ProxyInit /\ [][ProxyNext]_proxyVars

ProxyRecord == [url: Urls, enabled: BOOLEAN, health: {"unknown", "healthy", "unhealthy"},
                failures: Nat, autoDisabled: BOOLEAN]

ProxyTypes ==
    /\ proxies \in [DOMAIN proxies -> ProxyRecord]
    /\ nextProxy \in Nat /\ \A i \in DOMAIN proxies : i \in Nat /\ i < nextProxy
    /\ DOMAIN probing = Checkers
    /\ failedInARow \in [Urls -> Nat]

(* add refuses a URL that is listed. *)
UrlsDiffer == \A i, j \in DOMAIN proxies : proxies[i].url = proxies[j].url => i = j

(* An id is never given again while a checker may hold it, so the id of a  *)
(* probe under way is that of the URL it was started with, or of nothing.  *)
ProbesCurrent ==
    \A t \in Checkers : \A i \in DOMAIN probing[t] :
        /\ i \in Nat /\ i < nextProxy
        /\ i \in DOMAIN proxies => probing[t][i] = proxies[i].url

(* The verdict on one proxy. *)
FairlyJudged(p, failed) ==
    /\ p.failures = failed
    /\ p.enabled => p.failures < MaxFailed
    /\ p.autoDisabled => ~p.enabled

ProxyInv == ProxyTypes /\ UrlsDiffer /\ ProbesCurrent /\ JudgedByItsOwnProbes

LEMMA JudgedOneByOne ==
    JudgedByItsOwnProbes <=>
        \A i \in DOMAIN proxies : FairlyJudged(proxies[i], failedInARow[proxies[i].url])
BY DEF JudgedByItsOwnProbes, FairlyJudged

LEMMA ProxyInitInv ==
    ASSUME ProxyInit
    PROVE  ProxyInv
<1>1. /\ proxies = <<>> /\ nextProxy = 1 /\ probing = [t \in Checkers |-> <<>>]
      /\ failedInARow = [u \in Urls |-> 0]
  BY DEF ProxyInit
<1>2. DOMAIN proxies = {} /\ proxies \in [DOMAIN proxies -> ProxyRecord]
  BY <1>1
<1>3. \A t \in Checkers : DOMAIN probing[t] = {}
  BY <1>1
<1>4. ProxyTypes
  BY <1>1, <1>2 DEF ProxyTypes
<1> QED
  BY <1>2, <1>3, <1>4 DEF ProxyInv, UrlsDiffer, ProbesCurrent, JudgedByItsOwnProbes

LEMMA AddProxyKeeps ==
    ASSUME ProxyInv, NEW u \in Urls, AddProxy(u)
    PROVE  ProxyInv'
<1> DEFINE n == nextProxy
           p == Proxy(u)
<1>1. /\ \A i \in DOMAIN proxies : proxies[i].url # u
      /\ nextProxy' = n + 1 /\ failedInARow' = [failedInARow EXCEPT ![u] = 0]
      /\ UNCHANGED probing
  BY DEF AddProxy, UrlsIn
<1>2. proxies' = [i \in DOMAIN proxies \cup {n} |-> IF i = n THEN p ELSE proxies[i]]
  BY DEF AddProxy, FreshId
<1>3. p \in ProxyRecord /\ p.url = u /\ p.enabled /\ p.failures = 0 /\ ~p.autoDisabled
  BY DEF Proxy, ProxyRecord
<1>4. n \in Nat /\ n \notin DOMAIN proxies /\ \A i \in DOMAIN proxies : i \in Nat /\ i < n
  BY DEF ProxyInv, ProxyTypes
<1> HIDE DEF p, n
<1>5. /\ DOMAIN proxies' = DOMAIN proxies \cup {n} /\ proxies'[n] = p
      /\ \A i \in DOMAIN proxies : proxies'[i] = proxies[i]
  BY <1>2, <1>4
<1>6. /\ failedInARow' \in [Urls -> Nat] /\ failedInARow'[u] = 0
      /\ \A v \in Urls \ {u} : failedInARow'[v] = failedInARow[v]
  BY <1>1 DEF ProxyInv, ProxyTypes
<1>7. ProxyTypes'
  <2>1. proxies' \in [DOMAIN proxies' -> ProxyRecord]
    BY <1>2, <1>3, <1>5 DEF ProxyInv, ProxyTypes
  <2>2. nextProxy' \in Nat /\ \A i \in DOMAIN proxies' : i \in Nat /\ i < nextProxy'
    BY <1>1, <1>4, <1>5
  <2> QED
    BY <1>1, <1>6, <2>1, <2>2 DEF ProxyInv, ProxyTypes
<1>8. UrlsDiffer'
  BY <1>1, <1>3, <1>5 DEF ProxyInv, UrlsDiffer
<1>9. ProbesCurrent'
  <2>1. ASSUME NEW t \in Checkers, NEW i \in DOMAIN probing[t]
        PROVE  /\ i \in Nat /\ i < n + 1 /\ i # n
               /\ i \in DOMAIN proxies => probing[t][i] = proxies[i].url
    BY <1>4 DEF ProxyInv, ProbesCurrent, n
  <2> QED
    BY <1>1, <1>5, <2>1 DEF ProbesCurrent
<1>10. JudgedByItsOwnProbes'
  <2>1. ASSUME NEW i \in DOMAIN proxies
        PROVE  FairlyJudged(proxies'[i], failedInARow'[proxies'[i].url])
    <3>1. proxies[i].url \in Urls \ {u}
      BY <1>1 DEF ProxyInv, ProxyTypes, ProxyRecord
    <3> QED
      BY <1>5, <1>6, <3>1, JudgedOneByOne DEF ProxyInv
  <2>2. FairlyJudged(p, failedInARow'[p.url])
    BY <1>3, <1>6, ProxyAssumption DEF FairlyJudged
  <2> QED
    BY <1>5, <2>1, <2>2 DEF JudgedByItsOwnProbes, FairlyJudged
<1> QED
  BY <1>7, <1>8, <1>9, <1>10 DEF ProxyInv

LEMMA DeleteProxyKeeps ==
    ASSUME ProxyInv, NEW i \in DOMAIN proxies, DeleteProxy(i)
    PROVE  ProxyInv'
<1>0. PICK u : u = proxies[i].url
  OBVIOUS
<1>1. /\ proxies' = [j \in DOMAIN proxies \ {i} |-> proxies[j]]
      /\ failedInARow' = [failedInARow EXCEPT ![u] = 0]
      /\ UNCHANGED <<nextProxy, probing>>
  BY <1>0 DEF DeleteProxy, Restrict
<1>2. /\ DOMAIN proxies' = DOMAIN proxies \ {i}
      /\ \A j \in DOMAIN proxies' : proxies'[j] = proxies[j] /\ proxies[j].url \in Urls \ {u}
  BY <1>0, <1>1 DEF ProxyInv, ProxyTypes, ProxyRecord, UrlsDiffer
<1>3. /\ failedInARow' \in [Urls -> Nat]
      /\ \A v \in Urls \ {u} : failedInARow'[v] = failedInARow[v]
  BY <1>1 DEF ProxyInv, ProxyTypes
<1>4. ProxyTypes'
  BY <1>1, <1>2, <1>3 DEF ProxyInv, ProxyTypes
<1>5. UrlsDiffer'
  BY <1>2 DEF ProxyInv, UrlsDiffer
<1>6. ProbesCurrent'
  BY <1>1, <1>2 DEF ProxyInv, ProbesCurrent
<1>7. JudgedByItsOwnProbes'
  BY <1>2, <1>3 DEF ProxyInv, JudgedByItsOwnProbes
<1> QED
  BY <1>4, <1>5, <1>6, <1>7 DEF ProxyInv

LEMMA SetProxyEnabledKeeps ==
    ASSUME ProxyInv, NEW i \in DOMAIN proxies, NEW b \in BOOLEAN, SetProxyEnabled(i, b)
    PROVE  ProxyInv'
<1> DEFINE p == IF b THEN [proxies[i] EXCEPT !.enabled = TRUE, !.autoDisabled = FALSE,
                                             !.failures = 0]
                ELSE [proxies[i] EXCEPT !.enabled = FALSE]
<1>0. PICK u : u = proxies[i].url
  OBVIOUS
<1>1. /\ proxies' = [proxies EXCEPT ![i] = p]
      /\ failedInARow' = [failedInARow EXCEPT ![u] = IF b THEN 0 ELSE @]
      /\ UNCHANGED <<nextProxy, probing>>
  BY <1>0 DEF SetProxyEnabled
<1>2. proxies[i] \in ProxyRecord /\ u \in Urls /\ FairlyJudged(proxies[i], failedInARow[u])
  BY <1>0, JudgedOneByOne DEF ProxyInv, ProxyTypes, ProxyRecord
<1>3. p \in ProxyRecord /\ p.url = u /\ FairlyJudged(p, IF b THEN 0 ELSE failedInARow[u])
  <2>1. CASE b
    <3>1. p = [proxies[i] EXCEPT !.enabled = TRUE, !.autoDisabled = FALSE, !.failures = 0]
      BY <2>1
    <3> HIDE DEF p
    <3>2. p \in ProxyRecord /\ p.url = u /\ p.failures = 0 /\ ~p.autoDisabled
      BY <1>0, <1>2, <3>1 DEF ProxyRecord
    <3> QED
      BY <2>1, <3>2, ProxyAssumption DEF FairlyJudged
  <2>2. CASE ~b
    <3>1. p = [proxies[i] EXCEPT !.enabled = FALSE]
      BY <2>2
    <3> HIDE DEF p
    <3>2. /\ p \in ProxyRecord /\ p.url = u /\ p.failures = proxies[i].failures /\ ~p.enabled
      BY <1>0, <1>2, <3>1 DEF ProxyRecord
    <3> QED
      BY <1>2, <2>2, <3>2 DEF FairlyJudged
  <2> QED
    BY <2>1, <2>2
<1> HIDE DEF p
<1>4. /\ proxies' \in [DOMAIN proxies -> ProxyRecord] /\ DOMAIN proxies' = DOMAIN proxies
      /\ proxies'[i] = p /\ \A j \in DOMAIN proxies \ {i} : proxies'[j] = proxies[j]
  BY <1>1, <1>3 DEF ProxyInv, ProxyTypes
<1>5. /\ failedInARow' \in [Urls -> Nat]
      /\ failedInARow'[u] = IF b THEN 0 ELSE failedInARow[u]
      /\ \A v \in Urls \ {u} : failedInARow'[v] = failedInARow[v]
  BY <1>1, <1>2 DEF ProxyInv, ProxyTypes
<1>6. \A j \in DOMAIN proxies : proxies'[j].url = proxies[j].url
  BY <1>0, <1>3, <1>4
<1>7. ProxyTypes'
  BY <1>1, <1>4, <1>5 DEF ProxyInv, ProxyTypes
<1>8. UrlsDiffer'
  BY <1>4, <1>6 DEF ProxyInv, UrlsDiffer
<1>9. ProbesCurrent'
  BY <1>1, <1>4, <1>6 DEF ProxyInv, ProbesCurrent
<1>10. JudgedByItsOwnProbes'
  <2>1. ASSUME NEW j \in DOMAIN proxies \ {i}
        PROVE  FairlyJudged(proxies'[j], failedInARow'[proxies'[j].url])
    <3>1. proxies[j].url \in Urls \ {u}
      BY <1>0 DEF ProxyInv, ProxyTypes, ProxyRecord, UrlsDiffer
    <3> QED
      BY <1>4, <1>5, <3>1, JudgedOneByOne DEF ProxyInv
  <2>2. FairlyJudged(proxies'[i], failedInARow'[proxies'[i].url])
    BY <1>3, <1>4, <1>5
  <2> QED
    BY <1>4, <2>1, <2>2 DEF JudgedByItsOwnProbes, FairlyJudged
<1> QED
  BY <1>7, <1>8, <1>9, <1>10 DEF ProxyInv

---------------------------------------------------------------------------
(* Probes.                                                                 *)

LEMMA StartCheckKeeps ==
    ASSUME ProxyInv, NEW t \in Checkers, NEW ids \in SUBSET DOMAIN proxies, StartCheck(t, ids)
    PROVE  ProxyInv'
<1> DEFINE f == [i \in ids |-> proxies[i].url]
<1>1. /\ probing' = [probing EXCEPT ![t] = f]
      /\ UNCHANGED <<proxies, nextProxy, failedInARow>>
  BY DEF StartCheck
<1>2. DOMAIN f = ids /\ \A i \in ids : f[i] = proxies[i].url
  OBVIOUS
<1> HIDE DEF f
<1>3. /\ DOMAIN probing' = Checkers /\ probing'[t] = f
      /\ \A c \in Checkers \ {t} : probing'[c] = probing[c]
  BY <1>1 DEF ProxyInv, ProxyTypes
<1>4. ProxyTypes'
  BY <1>1, <1>3 DEF ProxyInv, ProxyTypes
<1>5. ASSUME NEW c \in Checkers, NEW i \in DOMAIN probing'[c]
      PROVE  /\ i \in Nat /\ i < nextProxy
             /\ i \in DOMAIN proxies => probing'[c][i] = proxies[i].url
  <2>1. CASE c = t
    BY <1>2, <1>3, <2>1 DEF ProxyInv, ProxyTypes
  <2>2. CASE c # t
    BY <1>3, <2>2 DEF ProxyInv, ProbesCurrent
  <2> QED
    BY <2>1, <2>2
<1>6. ProbesCurrent'
  BY <1>1, <1>5 DEF ProbesCurrent
<1> QED
  BY <1>1, <1>4, <1>6 DEF ProxyInv, UrlsDiffer, JudgedByItsOwnProbes

(* One verdict: the counter follows, and the limit disables. *)
LEMMA JudgedFairly ==
    ASSUME NEW p \in ProxyRecord, NEW failed \in Nat, FairlyJudged(p, failed),
           NEW answered \in BOOLEAN
    PROVE  /\ Judged(p, answered) \in ProxyRecord /\ Judged(p, answered).url = p.url
           /\ FairlyJudged(Judged(p, answered), IF answered THEN 0 ELSE failed + 1)
<1> DEFINE f == p.failures + 1
           d == f >= MaxFailed /\ p.enabled
<1>1. f \in Nat /\ f = failed + 1 /\ d \in BOOLEAN
  BY DEF FairlyJudged, ProxyRecord
<1>2. CASE answered
  <2>1. Judged(p, answered) = [p EXCEPT !.health = "healthy", !.failures = 0]
    BY <1>2 DEF Judged
  <2>2. /\ Judged(p, answered) \in ProxyRecord /\ Judged(p, answered).url = p.url
        /\ Judged(p, answered).failures = 0
    <3>1. [p EXCEPT !.health = "healthy", !.failures = 0] \in ProxyRecord
      BY DEF ProxyRecord
    <3>2. [p EXCEPT !.health = "healthy", !.failures = 0].url = p.url
      BY DEF ProxyRecord
    <3>3. [p EXCEPT !.health = "healthy", !.failures = 0].failures = 0
      BY DEF ProxyRecord
    <3> QED
      BY <2>1, <3>1, <3>2, <3>3
  <2>3. Judged(p, answered).enabled <=> p.enabled
    BY <2>1 DEF ProxyRecord
  <2>4. Judged(p, answered).autoDisabled <=> p.autoDisabled
    BY <2>1 DEF ProxyRecord
  <2>5. FairlyJudged(Judged(p, answered), 0)
    BY <2>2, <2>3, <2>4, ProxyAssumption DEF FairlyJudged
  <2> QED
    BY <1>2, <2>2, <2>5
<1>3. CASE ~answered
  <2>1. Judged(p, answered) = [p EXCEPT !.health = "unhealthy", !.failures = f,
                                        !.enabled = p.enabled /\ ~d,
                                        !.autoDisabled = p.autoDisabled \/ d]
    BY <1>3, Zenon DEF Judged
  <2>2. p.enabled \in BOOLEAN /\ p.autoDisabled \in BOOLEAN
    BY DEF ProxyRecord
  <2>3. (p.enabled /\ ~d) \in BOOLEAN /\ (p.autoDisabled \/ d) \in BOOLEAN
    BY <1>1, <2>2
  <2>4. p.enabled /\ ~d => f < MaxFailed
    BY <1>1, ProxyAssumption
  <2>5. p.autoDisabled \/ d => ~(p.enabled /\ ~d)
    BY DEF FairlyJudged
  <2> HIDE DEF f, d
  <2>6. Judged(p, answered) \in ProxyRecord /\ Judged(p, answered).url = p.url
    BY <1>1, <2>1, <2>3 DEF ProxyRecord
  <2>7. /\ Judged(p, answered).failures = f
        /\ Judged(p, answered).enabled = (p.enabled /\ ~d)
        /\ Judged(p, answered).autoDisabled = (p.autoDisabled \/ d)
    BY <2>1 DEF ProxyRecord
  <2>8. FairlyJudged(Judged(p, answered), f)
    BY <2>4, <2>5, <2>7 DEF FairlyJudged
  <2> QED
    BY <1>1, <1>3, <2>6, <2>8
<1> QED
  BY <1>2, <1>3

(* The verdicts of a check: a URL is the URL of the one proxy that was     *)
(* probed under that id, so each counter moves with its own proxy.         *)
LEMMA FinishCheckKeeps ==
    ASSUME ProxyInv, NEW t \in Checkers, NEW answered \in SUBSET DOMAIN proxies,
           FinishCheck(t, answered)
    PROVE  ProxyInv'
<1> DEFINE there == DOMAIN probing[t] \cap DOMAIN proxies
           probed == {probing[t][i] : i \in there}
           up == {probing[t][i] : i \in there \cap answered}
           next(u) == IF u \in up THEN 0
                      ELSE IF u \in probed THEN failedInARow[u] + 1 ELSE failedInARow[u]
           verdict(i) == IF i \in there THEN Judged(proxies[i], i \in answered) ELSE proxies[i]
<1>1. /\ proxies' = [i \in DOMAIN proxies |-> verdict(i)]
      /\ failedInARow' = [u \in Urls |-> next(u)]
      /\ probing' = [probing EXCEPT ![t] = <<>>] /\ nextProxy' = nextProxy
  BY DEF FinishCheck
<1>2. \A i \in there : i \in DOMAIN proxies /\ probing[t][i] = proxies[i].url
  BY DEF ProxyInv, ProbesCurrent
<1>3. \A u \in Urls : failedInARow[u] \in Nat
  BY DEF ProxyInv, ProxyTypes
<1>4. ASSUME NEW i \in DOMAIN proxies
      PROVE  /\ proxies[i] \in ProxyRecord /\ proxies[i].url \in Urls
             /\ FairlyJudged(proxies[i], failedInARow[proxies[i].url])
             /\ proxies[i].url \in probed <=> i \in there
             /\ proxies[i].url \in up <=> i \in there \cap answered
  <2>1. /\ proxies[i] \in ProxyRecord /\ proxies[i].url \in Urls
        /\ FairlyJudged(proxies[i], failedInARow[proxies[i].url])
    BY JudgedOneByOne DEF ProxyInv, ProxyTypes, ProxyRecord
  <2>2. \A j \in DOMAIN proxies : proxies[j].url = proxies[i].url => j = i
    BY DEF ProxyInv, UrlsDiffer
  <2>3. proxies[i].url \in probed <=> i \in there
    BY <1>2, <2>2
  <2>4. proxies[i].url \in up <=> i \in there \cap answered
    BY <1>2, <2>2
  <2> QED
    BY <2>1, <2>3, <2>4
<1> HIDE DEF there, probed, up
<1>5. ASSUME NEW i \in DOMAIN proxies
      PROVE  /\ verdict(i) \in ProxyRecord /\ verdict(i).url = proxies[i].url
             /\ FairlyJudged(verdict(i), next(proxies[i].url))
  <2>1. CASE i \notin there
    BY <1>4, <2>1
  <2>2. CASE i \in there /\ i \in answered
    <3>1. verdict(i) = Judged(proxies[i], TRUE) /\ next(proxies[i].url) = 0
      BY <1>4, <2>2
    <3> HIDE DEF verdict, next
    <3> QED
      BY <1>3, <1>4, <3>1, JudgedFairly
  <2>3. CASE i \in there /\ i \notin answered
    <3>1. verdict(i) = Judged(proxies[i], FALSE)
      <4>1. (i \in answered) = FALSE
        BY <2>3
      <4> QED
        BY <2>3, <4>1
    <3>2. next(proxies[i].url) = failedInARow[proxies[i].url] + 1
      BY <1>4, <2>3
    <3> HIDE DEF verdict, next
    <3> QED
      BY <1>3, <1>4, <3>1, <3>2, JudgedFairly
  <2> QED
    BY <2>1, <2>2, <2>3
<1>6. \A u \in Urls : next(u) \in Nat
  BY <1>3
<1> HIDE DEF verdict, next
<1>7. /\ proxies' \in [DOMAIN proxies -> ProxyRecord] /\ DOMAIN proxies' = DOMAIN proxies
      /\ \A i \in DOMAIN proxies : proxies'[i] = verdict(i) /\ proxies'[i].url = proxies[i].url
      /\ failedInARow' \in [Urls -> Nat] /\ \A u \in Urls : failedInARow'[u] = next(u)
  BY <1>1, <1>5, <1>6
<1>8. /\ DOMAIN probing' = Checkers /\ DOMAIN probing'[t] = {}
      /\ \A c \in Checkers \ {t} : probing'[c] = probing[c]
  BY <1>1 DEF ProxyInv, ProxyTypes
<1>9. ProxyTypes'
  BY <1>1, <1>7, <1>8 DEF ProxyInv, ProxyTypes
<1>10. UrlsDiffer'
  BY <1>7 DEF ProxyInv, UrlsDiffer
<1>11. ProbesCurrent'
  BY <1>1, <1>7, <1>8 DEF ProxyInv, ProbesCurrent
<1>12. JudgedByItsOwnProbes'
  <2>1. \A i \in DOMAIN proxies : FairlyJudged(proxies'[i], failedInARow'[proxies'[i].url])
    BY <1>4, <1>5, <1>7
  <2> QED
    BY <1>7, <2>1 DEF JudgedByItsOwnProbes, FairlyJudged
<1> QED
  BY <1>9, <1>10, <1>11, <1>12 DEF ProxyInv

(* A restart forgets the probes, so an id may be given again. *)
LEMMA ProxyRestartKeeps ==
    ASSUME ProxyInv, ProxyRestart
    PROVE  ProxyInv'
<1>1. /\ nextProxy' \in AfterIds(proxies) /\ probing' = [t \in Checkers |-> <<>>]
      /\ UNCHANGED <<proxies, failedInARow>>
  BY DEF ProxyRestart
<1>2. nextProxy' \in Nat /\ \A i \in DOMAIN proxies : i < nextProxy'
  BY <1>1 DEF AfterIds, ProxyInv, ProxyTypes
<1>3. DOMAIN probing' = Checkers /\ \A t \in Checkers : DOMAIN probing'[t] = {}
  BY <1>1
<1>4. ProxyTypes'
  BY <1>1, <1>2, <1>3 DEF ProxyInv, ProxyTypes
<1>5. ProbesCurrent'
  BY <1>3 DEF ProbesCurrent
<1> QED
  BY <1>1, <1>4, <1>5 DEF ProxyInv, UrlsDiffer, JudgedByItsOwnProbes

LEMMA AssignmentKeeps ==
    ASSUME ProxyInv, UNCHANGED <<proxies, nextProxy, probing, failedInARow>>
    PROVE  ProxyInv'
BY DEF ProxyInv, ProxyTypes, UrlsDiffer, ProbesCurrent, JudgedByItsOwnProbes

---------------------------------------------------------------------------
(* The theorems.                                                           *)

(* Entries have their types and ids below next_id, no two have one URL,    *)
(* and a probe under way holds the URL its id still has, if it has one.    *)
THEOREM ProxyInvariant == ProxySpec => []ProxyInv
<1>1. ProxyInit => ProxyInv
  BY ProxyInitInv
<1>2. ProxyInv /\ [ProxyNext]_proxyVars => ProxyInv'
  <2> SUFFICES ASSUME ProxyInv, [ProxyNext]_proxyVars PROVE ProxyInv'
    OBVIOUS
  <2>1. ASSUME NEW u \in Urls, AddProxy(u)
        PROVE  ProxyInv'
    BY <2>1, AddProxyKeeps
  <2>2. ASSUME NEW i \in DOMAIN proxies,
               DeleteProxy(i) \/ \E b \in BOOLEAN : SetProxyEnabled(i, b)
        PROVE  ProxyInv'
    BY <2>2, DeleteProxyKeeps, SetProxyEnabledKeeps
  <2>3. ASSUME NEW t \in Checkers, NEW S \in SUBSET DOMAIN proxies,
               StartCheck(t, S) \/ FinishCheck(t, S)
        PROVE  ProxyInv'
    BY <2>3, StartCheckKeeps, FinishCheckKeeps
  <2>4. ASSUME NEW c, NEW u, AssignProxy(c, u)
        PROVE  ProxyInv'
    BY <2>4, AssignmentKeeps DEF AssignProxy
  <2>5. CASE AssignRoundRobin
    BY <2>5, AssignmentKeeps DEF AssignRoundRobin
  <2>6. CASE ProxyRestart
    BY <2>6, ProxyRestartKeeps
  <2>7. CASE UNCHANGED proxyVars
    BY <2>7, AssignmentKeeps DEF proxyVars
  <2> QED
    BY <2>1, <2>2, <2>3, <2>4, <2>5, <2>6, <2>7 DEF ProxyNext
<1> QED
  BY <1>1, <1>2, PTL DEF ProxySpec

(* Whatever is deleted, added, enabled or checked by several checkers at   *)
(* once while probes run without the lock, a proxy's counter is the number *)
(* of probes of its own URL that failed in a row, and the limit disables.  *)
THEOREM ProxyJudgedByItsOwnProbes == ProxySpec => []JudgedByItsOwnProbes
<1>1. ProxyInv => JudgedByItsOwnProbes
  BY DEF ProxyInv
<1> QED
  BY <1>1, ProxyInvariant, PTL

---------------------------------------------------------------------------
(* Logins.                                                                 *)

LoginSpec == LoginInit /\ [][LoginNext]_loginVars

SessionRecord == [kind: {"social", "idc"}, relogin: BOOLEAN, expired: BOOLEAN]
PollerRecord == [pc: {"idle", "discard", "compare", "claim", "exchange", "ask"},
                 login: Sessions \cup {"none"},
                 callback: {"none", "genuine", "foreign"},
                 relogin: BOOLEAN]

LoginTypes ==
    /\ session \in [DOMAIN session -> SessionRecord] /\ DOMAIN session \subseteq Sessions
    /\ listening \subseteq Sessions /\ approved \subseteq Sessions
    /\ channel \in [Sessions -> {"unused", "empty", "genuine", "foreign", "closed", "device"}]
    /\ poller \in [Pollers -> PollerRecord]
    /\ presented \in [Sessions -> Nat] /\ gained \in [Sessions -> Nat]

(* The channel of a login says of which kind it is, for good. *)
Social(s) == channel[s] \in {"empty", "genuine", "foreign", "closed"}
Device(s) == channel[s] = "device"

LoginKinds ==
    /\ \A s \in DOMAIN session : IF session[s].kind = "idc" THEN Device(s) ELSE Social(s)
    /\ \A s \in listening : channel[s] = "empty"
    /\ \A s \in approved : Device(s)
    /\ \A s \in Sessions : channel[s] = "unused" => presented[s] = 0
    /\ \A t \in Pollers :
          /\ poller[t].pc \in {"discard", "compare", "claim", "exchange"} =>
                poller[t].login \in Sessions /\ Social(poller[t].login)
          /\ poller[t].pc = "ask" =>
                poller[t].login \in Sessions /\ Device(poller[t].login)

(* Taking the session out is what allows one request to present its code;  *)
(* the endpoint's memory of a device code is what allows one to have its   *)
(* token.                                                                  *)
Exchanging(t, s) == poller[t].pc = "exchange" /\ poller[t].login = s

SpentOnce ==
    /\ \A s \in Sessions : presented[s] <= 1 /\ gained[s] <= presented[s]
    /\ \A s \in approved : presented[s] = 0
    /\ \A s \in DOMAIN session : Social(s) => presented[s] = 0
    /\ \A t \in Pollers : \A s \in Sessions : Exchanging(t, s) =>
          /\ s \notin DOMAIN session /\ presented[s] = 0
          /\ \A u \in Pollers : Exchanging(u, s) => u = t

PortsHeld ==
    \A s \in listening : s \in DOMAIN session \/ \E t \in Pollers : Exchanging(t, s)

LoginInv == LoginTypes /\ LoginKinds /\ SpentOnce /\ PortsHeld

---------------------------------------------------------------------------
(* What the helpers of the model do.                                       *)

LEMMA OpenedEffect ==
    ASSUME LoginTypes, NEW s \in Sessions, s \notin DOMAIN session,
           NEW kind \in {"social", "idc"}, NEW relogin \in BOOLEAN, Opened(s, kind, relogin)
    PROVE  /\ DOMAIN session' = DOMAIN session \cup {s} /\ session'[s].kind = kind
           /\ session' \in [DOMAIN session' -> SessionRecord]
           /\ DOMAIN session' \subseteq Sessions
           /\ \A x \in DOMAIN session : session'[x] = session[x]
<1> DEFINE r == [kind |-> kind, relogin |-> relogin, expired |-> FALSE]
<1>1. r \in SessionRecord /\ r.kind = kind
  BY DEF SessionRecord
<1>2. session' = [x \in DOMAIN session \cup {s} |-> IF x = s THEN r ELSE session[x]]
  BY DEF Opened
<1> HIDE DEF r
<1>3. /\ DOMAIN session' = DOMAIN session \cup {s} /\ session'[s] = r
      /\ \A x \in DOMAIN session : session'[x] = session[x]
  BY <1>2
<1>4. session' \in [DOMAIN session' -> SessionRecord]
  BY <1>1, <1>2, <1>3 DEF LoginTypes
<1> QED
  BY <1>1, <1>3, <1>4 DEF LoginTypes

LEMMA RestrictEffect ==
    ASSUME LoginTypes, NEW D, session' = Restrict(session, DOMAIN session \ D)
    PROVE  /\ DOMAIN session' = DOMAIN session \ D
           /\ session' \in [DOMAIN session' -> SessionRecord]
           /\ DOMAIN session' \subseteq Sessions
           /\ \A x \in DOMAIN session' : session'[x] = session[x]
BY DEF Restrict, LoginTypes

LEMMA StepEffect ==
    ASSUME LoginTypes, NEW t \in Pollers, NEW r \in PollerRecord, Step(t, r)
    PROVE  /\ poller' \in [Pollers -> PollerRecord] /\ poller'[t] = r
           /\ \A u \in Pollers \ {t} : poller'[u] = poller[u]
BY DEF Step, LoginTypes

LEMMA RestingPoller ==
    Resting \in PollerRecord /\ Resting.pc = "idle"
BY DEF Resting, PollerRecord

(* A request that comes to rest, or moves without claiming a login.        *)
MovesTo(t, pc) ==
    /\ poller' \in [Pollers -> PollerRecord]
    /\ poller'[t].pc = pc
    /\ \A u \in Pollers \ {t} : poller'[u] = poller[u]

LEMMA RestsEffect ==
    ASSUME LoginTypes, NEW t \in Pollers, Step(t, Resting)
    PROVE  MovesTo(t, "idle")
BY StepEffect, RestingPoller DEF MovesTo

(* Where nothing that was spent, claimed or listening changes but a        *)
(* request that neither gives up nor gains a claim, the invariant stays.   *)
LEMMA RequestOnly ==
    ASSUME LoginInv, NEW t \in Pollers, NEW pc, MovesTo(t, pc),
           poller[t].pc # "exchange", pc # "exchange",
           pc \in {"discard", "compare", "claim"} =>
               poller'[t].login \in Sessions /\ Social(poller'[t].login),
           pc = "ask" => poller'[t].login \in Sessions /\ Device(poller'[t].login),
           UNCHANGED <<session, listening, channel, approved, presented, gained>>
    PROVE  LoginInv'
<1>1. \A u \in Pollers : \A s : Exchanging(u, s)' <=> Exchanging(u, s)
  BY DEF Exchanging, MovesTo
<1>2. LoginTypes'
  BY DEF LoginInv, LoginTypes, MovesTo
<1>3. LoginKinds'
  BY DEF LoginInv, LoginKinds, MovesTo, Social, Device
<1>4. SpentOnce'
  BY <1>1 DEF LoginInv, SpentOnce, Social
<1>5. PortsHeld'
  BY <1>1 DEF LoginInv, PortsHeld
<1> QED
  BY <1>2, <1>3, <1>4, <1>5 DEF LoginInv

---------------------------------------------------------------------------
(* The actions.                                                            *)

LEMMA LoginInitInv ==
    ASSUME LoginInit
    PROVE  LoginInv
<1>1. /\ session = <<>> /\ listening = {} /\ approved = {}
      /\ channel = [s \in Sessions |-> "unused"]
      /\ \A t \in Pollers : poller[t] = Resting
      /\ poller = [t \in Pollers |-> Resting]
      /\ presented = [s \in Sessions |-> 0] /\ gained = [s \in Sessions |-> 0]
  BY DEF LoginInit
<1>2. DOMAIN session = {}
  BY <1>1
<1>3. session \in [DOMAIN session -> SessionRecord]
  BY <1>1
<1>4. LoginTypes
  BY <1>1, <1>2, <1>3, RestingPoller DEF LoginTypes
<1>5. LoginKinds
  BY <1>1, <1>2, RestingPoller DEF LoginKinds
<1>6. SpentOnce
  BY <1>1, <1>2, RestingPoller DEF SpentOnce, Exchanging
<1>7. PortsHeld
  BY <1>1 DEF PortsHeld
<1> QED
  BY <1>4, <1>5, <1>6, <1>7 DEF LoginInv

LEMMA StartSocialKeeps ==
    ASSUME LoginInv, NEW s \in Sessions, NEW b \in BOOLEAN, StartSocial(s, b)
    PROVE  LoginInv'
<1>1. /\ s \notin DOMAIN session /\ channel[s] = "unused"
      /\ listening' = listening \cup {s} /\ channel' = [channel EXCEPT ![s] = "empty"]
      /\ UNCHANGED <<approved, poller, presented, gained>>
  BY DEF StartSocial, Unused
<1>2. /\ DOMAIN session' = DOMAIN session \cup {s} /\ session'[s].kind = "social"
      /\ session' \in [DOMAIN session' -> SessionRecord] /\ DOMAIN session' \subseteq Sessions
      /\ \A x \in DOMAIN session : session'[x] = session[x]
  BY <1>1, OpenedEffect DEF StartSocial, LoginInv
<1>3. channel'[s] = "empty" /\ \A x \in Sessions \ {s} : channel'[x] = channel[x]
  BY <1>1 DEF LoginInv, LoginTypes
<1>4. presented[s] = 0 /\ s \notin approved
      /\ \A t \in Pollers : poller[t].pc # "idle" => poller[t].login # s
  BY <1>1 DEF LoginInv, LoginKinds, LoginTypes, PollerRecord, Social, Device
<1>5. LoginTypes'
  BY <1>1, <1>2 DEF LoginInv, LoginTypes
<1>6. LoginKinds'
  <2>1. \A x \in DOMAIN session' : IF session'[x].kind = "idc" THEN Device(x)' ELSE Social(x)'
    BY <1>1, <1>2, <1>3 DEF LoginInv, LoginTypes, LoginKinds, Social, Device
  <2>2. \A x \in listening' : channel'[x] = "empty"
    BY <1>1, <1>3 DEF LoginInv, LoginTypes, LoginKinds
  <2>3. \A x \in approved' : Device(x)'
    BY <1>1, <1>3, <1>4 DEF LoginInv, LoginTypes, LoginKinds, Device
  <2>4. \A x \in Sessions : channel'[x] = "unused" => presented'[x] = 0
    BY <1>1, <1>3 DEF LoginInv, LoginKinds
  <2>5. \A t \in Pollers :
          /\ poller'[t].pc \in {"discard", "compare", "claim", "exchange"} =>
                poller'[t].login \in Sessions /\ Social(poller[t].login)'
          /\ poller'[t].pc = "ask" =>
                poller'[t].login \in Sessions /\ Device(poller[t].login)'
    BY <1>1, <1>3, <1>4 DEF LoginInv, LoginKinds, Social, Device
  <2> QED
    BY <1>1, <2>1, <2>2, <2>3, <2>4, <2>5 DEF LoginKinds, Social, Device
<1>7. SpentOnce'
  BY <1>1, <1>2, <1>3, <1>4 DEF LoginInv, SpentOnce, LoginTypes, Exchanging, Social
<1>8. PortsHeld'
  BY <1>1, <1>2 DEF LoginInv, PortsHeld, Exchanging
<1> QED
  BY <1>5, <1>6, <1>7, <1>8 DEF LoginInv

LEMMA StartIdcKeeps ==
    ASSUME LoginInv, NEW s \in Sessions, NEW b \in BOOLEAN, StartIdc(s, b)
    PROVE  LoginInv'
<1>1. /\ s \notin DOMAIN session /\ channel[s] = "unused"
      /\ channel' = [channel EXCEPT ![s] = "device"]
      /\ UNCHANGED <<listening, approved, poller, presented, gained>>
  BY DEF StartIdc, Unused
<1>2. /\ DOMAIN session' = DOMAIN session \cup {s} /\ session'[s].kind = "idc"
      /\ session' \in [DOMAIN session' -> SessionRecord] /\ DOMAIN session' \subseteq Sessions
      /\ \A x \in DOMAIN session : session'[x] = session[x]
  BY <1>1, OpenedEffect DEF StartIdc, LoginInv
<1>3. channel'[s] = "device" /\ \A x \in Sessions \ {s} : channel'[x] = channel[x]
  BY <1>1 DEF LoginInv, LoginTypes
<1>4. /\ presented[s] = 0 /\ s \notin approved /\ s \notin listening
      /\ \A t \in Pollers : poller[t].pc # "idle" => poller[t].login # s
  BY <1>1 DEF LoginInv, LoginKinds, LoginTypes, PollerRecord, Social, Device
<1>5. LoginTypes'
  BY <1>1, <1>2 DEF LoginInv, LoginTypes
<1>6. LoginKinds'
  <2>1. \A x \in DOMAIN session' : IF session'[x].kind = "idc" THEN Device(x)' ELSE Social(x)'
    BY <1>1, <1>2, <1>3 DEF LoginInv, LoginTypes, LoginKinds, Social, Device
  <2>2. \A x \in listening' : channel'[x] = "empty"
    BY <1>1, <1>3, <1>4 DEF LoginInv, LoginTypes, LoginKinds
  <2>3. \A x \in approved' : Device(x)'
    BY <1>1, <1>3, <1>4 DEF LoginInv, LoginTypes, LoginKinds, Device
  <2>4. \A x \in Sessions : channel'[x] = "unused" => presented'[x] = 0
    BY <1>1, <1>3 DEF LoginInv, LoginKinds
  <2>5. \A t \in Pollers :
          /\ poller'[t].pc \in {"discard", "compare", "claim", "exchange"} =>
                poller'[t].login \in Sessions /\ Social(poller[t].login)'
          /\ poller'[t].pc = "ask" =>
                poller'[t].login \in Sessions /\ Device(poller[t].login)'
    BY <1>1, <1>3, <1>4 DEF LoginInv, LoginKinds, Social, Device
  <2> QED
    BY <1>1, <2>1, <2>2, <2>3, <2>4, <2>5 DEF LoginKinds, Social, Device
<1>7. SpentOnce'
  BY <1>1, <1>2, <1>3, <1>4 DEF LoginInv, SpentOnce, LoginTypes, Exchanging, Social
<1>8. PortsHeld'
  BY <1>1, <1>2 DEF LoginInv, PortsHeld, Exchanging
<1> QED
  BY <1>5, <1>6, <1>7, <1>8 DEF LoginInv

LEMMA CallbackKeeps ==
    ASSUME LoginInv, NEW s \in Sessions, NEW c \in {"genuine", "foreign", "error"}, Callback(s, c)
    PROVE  LoginInv'
<1> DEFINE to == IF c = "error" THEN "closed" ELSE c
<1>1. /\ s \in listening /\ listening' = listening \ {s}
      /\ channel' = [channel EXCEPT ![s] = to] /\ to \in {"genuine", "foreign", "closed"}
      /\ UNCHANGED <<session, approved, poller, presented, gained>>
  BY DEF Callback
<1> HIDE DEF to
<1>2. channel'[s] = to /\ \A x \in Sessions \ {s} : channel'[x] = channel[x]
  BY <1>1 DEF LoginInv, LoginTypes
<1>3. Social(s) /\ \A x \in Sessions : (Social(x)' <=> Social(x)) /\ (Device(x)' <=> Device(x))
  BY <1>1, <1>2 DEF LoginInv, LoginKinds, Social, Device
<1>4. LoginTypes'
  BY <1>1 DEF LoginInv, LoginTypes
<1>5. LoginKinds'
  <2>1. \A x \in DOMAIN session' : IF session'[x].kind = "idc" THEN Device(x)' ELSE Social(x)'
    BY <1>1, <1>3 DEF LoginInv, LoginTypes, LoginKinds
  <2>2. \A x \in listening' : channel'[x] = "empty"
    BY <1>1, <1>2 DEF LoginInv, LoginTypes, LoginKinds
  <2>3. \A x \in approved' : Device(x)'
    BY <1>1, <1>3 DEF LoginInv, LoginTypes, LoginKinds
  <2>4. \A x \in Sessions : channel'[x] = "unused" => presented'[x] = 0
    BY <1>1, <1>2 DEF LoginInv, LoginKinds
  <2>5. \A t \in Pollers :
          /\ poller'[t].pc \in {"discard", "compare", "claim", "exchange"} =>
                poller'[t].login \in Sessions /\ Social(poller[t].login)'
          /\ poller'[t].pc = "ask" =>
                poller'[t].login \in Sessions /\ Device(poller[t].login)'
    BY <1>1, <1>2, <1>3 DEF LoginInv, LoginKinds, Social, Device
  <2> QED
    BY <1>1, <2>1, <2>2, <2>3, <2>4, <2>5 DEF LoginKinds, Social, Device
<1>6. SpentOnce'
  BY <1>1, <1>3 DEF LoginInv, SpentOnce, LoginTypes, Exchanging
<1>7. PortsHeld'
  BY <1>1 DEF LoginInv, PortsHeld, Exchanging
<1> QED
  BY <1>4, <1>5, <1>6, <1>7 DEF LoginInv

LEMMA ExpireLoginKeeps ==
    ASSUME LoginInv, NEW s \in Sessions, ExpireLogin(s)
    PROVE  LoginInv'
<1> DEFINE r == [session[s] EXCEPT !.expired = TRUE]
<1>1. /\ s \in DOMAIN session /\ session' = [session EXCEPT ![s] = r]
      /\ UNCHANGED <<listening, channel, approved, poller, presented, gained>>
  BY DEF ExpireLogin
<1>2. r \in SessionRecord /\ r.kind = session[s].kind
  BY <1>1 DEF LoginInv, LoginTypes, SessionRecord
<1> HIDE DEF r
<1>3. /\ session' \in [DOMAIN session -> SessionRecord] /\ DOMAIN session' = DOMAIN session
      /\ \A x \in DOMAIN session : session'[x].kind = session[x].kind
  BY <1>1, <1>2 DEF LoginInv, LoginTypes
<1>4. LoginTypes'
  BY <1>1, <1>3 DEF LoginInv, LoginTypes
<1>5. LoginKinds'
  BY <1>1, <1>3 DEF LoginInv, LoginKinds, Social, Device
<1>6. SpentOnce'
  BY <1>1, <1>3 DEF LoginInv, SpentOnce, Exchanging, Social
<1>7. PortsHeld'
  BY <1>1, <1>3 DEF LoginInv, PortsHeld, Exchanging
<1> QED
  BY <1>4, <1>5, <1>6, <1>7 DEF LoginInv

LEMMA SweepExpiredKeeps ==
    ASSUME LoginInv, SweepExpired
    PROVE  LoginInv'
<1>0. PICK D : D = {s \in DOMAIN session : session[s].expired}
  OBVIOUS
<1>1. /\ session' = Restrict(session, DOMAIN session \ D) /\ listening' = listening \ D
      /\ UNCHANGED <<channel, approved, poller, presented, gained>>
  BY <1>0 DEF SweepExpired
<1>2. /\ DOMAIN session' = DOMAIN session \ D
      /\ session' \in [DOMAIN session' -> SessionRecord] /\ DOMAIN session' \subseteq Sessions
      /\ \A x \in DOMAIN session' : session'[x] = session[x]
  BY <1>1, RestrictEffect DEF LoginInv
<1>3. LoginTypes'
  BY <1>1, <1>2 DEF LoginInv, LoginTypes
<1>4. LoginKinds'
  <2>1. \A x \in DOMAIN session' : IF session'[x].kind = "idc" THEN Device(x)' ELSE Social(x)'
    BY <1>1, <1>2, ZenonT(30) DEF LoginInv, LoginKinds, Social, Device
  <2> QED
    BY <1>1, <2>1 DEF LoginInv, LoginKinds, Social, Device
<1>5. SpentOnce'
  BY <1>1, <1>2 DEF LoginInv, SpentOnce, Exchanging, Social
<1>6. PortsHeld'
  BY <1>1, <1>2 DEF LoginInv, PortsHeld, Exchanging
<1> QED
  BY <1>3, <1>4, <1>5, <1>6 DEF LoginInv

LEMMA ApproveKeeps ==
    ASSUME LoginInv, NEW s \in Sessions, Approve(s)
    PROVE  LoginInv'
<1>1. /\ channel[s] = "device" /\ presented[s] = 0 /\ approved' = approved \cup {s}
      /\ UNCHANGED <<session, listening, channel, poller, presented, gained>>
  BY DEF Approve
<1>2. LoginTypes'
  BY <1>1 DEF LoginInv, LoginTypes
<1>3. LoginKinds'
  BY <1>1 DEF LoginInv, LoginKinds, Social, Device
<1>4. SpentOnce'
  BY <1>1 DEF LoginInv, SpentOnce, Exchanging, Social
<1>5. PortsHeld'
  BY <1>1 DEF LoginInv, PortsHeld, Exchanging
<1> QED
  BY <1>2, <1>3, <1>4, <1>5 DEF LoginInv

LEMMA PollSocialKeeps ==
    ASSUME LoginInv, NEW t \in Pollers, NEW s \in Sessions, PollSocial(t, s)
    PROVE  LoginInv'
<1>1. /\ poller[t].pc = "idle" /\ s \in DOMAIN session /\ session[s].kind = "social"
      /\ UNCHANGED <<session, listening, approved, presented, gained>>
  BY RestingPoller DEF PollSocial
<1>2. Social(s)
  BY <1>1 DEF LoginInv, LoginKinds
<1>3. CASE Step(t, [Resting EXCEPT !.pc = "discard", !.login = s]) /\ UNCHANGED channel
  <2> DEFINE r == [Resting EXCEPT !.pc = "discard", !.login = s]
  <2>1. r \in PollerRecord /\ r.pc = "discard" /\ r.login = s
    BY DEF Resting, PollerRecord
  <2>2. MovesTo(t, "discard") /\ poller'[t] = r
    BY <1>3, <2>1, StepEffect DEF LoginInv, MovesTo
  <2> HIDE DEF r
  <2> QED
    BY <1>1, <1>2, <1>3, <2>1, <2>2, RequestOnly
<1>4. CASE /\ channel[s] \in {"genuine", "foreign"}
           /\ Step(t, [Resting EXCEPT !.pc = "compare", !.login = s, !.callback = channel[s]])
           /\ channel' = [channel EXCEPT ![s] = "closed"]
  <2> DEFINE r == [Resting EXCEPT !.pc = "compare", !.login = s, !.callback = channel[s]]
  <2>1. r \in PollerRecord /\ r.pc = "compare" /\ r.login = s
    BY <1>4 DEF Resting, PollerRecord
  <2>2. MovesTo(t, "compare") /\ poller'[t] = r
    BY <1>4, <2>1, StepEffect DEF LoginInv, MovesTo
  <2> HIDE DEF r
  <2>3. channel'[s] = "closed" /\ \A x \in Sessions \ {s} : channel'[x] = channel[x]
    BY <1>4 DEF LoginInv, LoginTypes
  <2>4. \A x \in Sessions : (Social(x)' <=> Social(x)) /\ (Device(x)' <=> Device(x))
    BY <1>2, <2>3 DEF Social, Device
  <2>5. s \notin listening
    BY <1>4 DEF LoginInv, LoginKinds
  <2>6. \A u \in Pollers : \A x \in Sessions : Exchanging(u, x)' <=> Exchanging(u, x)
    BY <1>1, <2>1, <2>2 DEF Exchanging, MovesTo
  <2>7. LoginTypes'
    BY <1>1, <1>4, <2>2 DEF LoginInv, LoginTypes, MovesTo
  <2>8. LoginKinds'
    <3>1. \A x \in DOMAIN session' : IF session'[x].kind = "idc" THEN Device(x)' ELSE Social(x)'
      BY <1>1, <2>4 DEF LoginInv, LoginTypes, LoginKinds
    <3>2. \A x \in listening' : channel'[x] = "empty"
      BY <1>1, <2>3, <2>5 DEF LoginInv, LoginTypes, LoginKinds
    <3>3. \A x \in approved' : Device(x)'
      BY <1>1, <2>4 DEF LoginInv, LoginTypes, LoginKinds
    <3>4. \A x \in Sessions : channel'[x] = "unused" => presented'[x] = 0
      BY <1>1, <2>3 DEF LoginInv, LoginKinds
    <3>5. ASSUME NEW u \in Pollers
          PROVE  /\ poller'[u].pc \in {"discard", "compare", "claim", "exchange"} =>
                       poller'[u].login \in Sessions /\ Social(poller[u].login)'
                 /\ poller'[u].pc = "ask" =>
                       poller'[u].login \in Sessions /\ Device(poller[u].login)'
      BY <1>2, <2>1, <2>2, <2>3, <2>4 DEF LoginInv, LoginKinds, MovesTo, Social, Device
    <3> QED
      BY <1>1, <3>1, <3>2, <3>3, <3>4, <3>5 DEF LoginKinds, Social, Device
  <2>9. SpentOnce'
    BY <1>1, <2>4, <2>6 DEF LoginInv, SpentOnce, LoginTypes
  <2>10. PortsHeld'
    BY <1>1, <2>6 DEF LoginInv, PortsHeld, LoginTypes
  <2> QED
    BY <2>7, <2>8, <2>9, <2>10 DEF LoginInv
<1> QED
  BY <1>3, <1>4 DEF PollSocial

LEMMA DiscardKeeps ==
    ASSUME LoginInv, NEW t \in Pollers, Discard(t)
    PROVE  LoginInv'
<1>0. PICK s : s = poller[t].login
  OBVIOUS
<1>1. /\ poller[t].pc = "discard" /\ MovesTo(t, "idle")
      /\ session' = Restrict(session, DOMAIN session \ {s})
      /\ listening' = listening \ ({s} \cap DOMAIN session)
      /\ UNCHANGED <<channel, approved, presented, gained>>
  BY <1>0, RestsEffect DEF Discard, LoginInv, WithoutLogin
<1>2. /\ DOMAIN session' = DOMAIN session \ {s}
      /\ session' \in [DOMAIN session' -> SessionRecord] /\ DOMAIN session' \subseteq Sessions
      /\ \A x \in DOMAIN session' : session'[x] = session[x]
  BY <1>1, RestrictEffect DEF LoginInv
<1>3. \A u \in Pollers : \A x : Exchanging(u, x)' <=> Exchanging(u, x)
  BY <1>1 DEF Exchanging, MovesTo
<1>4. LoginTypes'
  BY <1>1, <1>2 DEF LoginInv, LoginTypes, MovesTo
<1>5. LoginKinds'
  <2>1. channel' = channel /\ listening' \subseteq listening
    BY <1>1
  <2>2. UNCHANGED <<approved, presented>> /\ MovesTo(t, "idle")
    BY <1>1
  <2>3. \A x \in DOMAIN session' : IF session'[x].kind = "idc" THEN Device(x)' ELSE Social(x)'
    BY <1>2, <2>1 DEF LoginInv, LoginKinds, Social, Device
  <2> QED
    BY <2>1, <2>2, <2>3 DEF LoginInv, LoginKinds, MovesTo, Social, Device
<1>6. SpentOnce'
  BY <1>1, <1>2, <1>3 DEF LoginInv, SpentOnce, Social
<1>7. PortsHeld'
  BY <1>1, <1>2, <1>3 DEF LoginInv, PortsHeld
<1> QED
  BY <1>4, <1>5, <1>6, <1>7 DEF LoginInv

LEMMA PasteCallbackKeeps ==
    ASSUME LoginInv, NEW t \in Pollers, NEW s \in Sessions, NEW c \in {"genuine", "foreign"},
           PasteCallback(t, s, c)
    PROVE  LoginInv'
<1> DEFINE r == [Resting EXCEPT !.pc = "compare", !.login = s, !.callback = c]
<1>1. r \in PollerRecord /\ r.pc = "compare" /\ r.login = s
  BY DEF Resting, PollerRecord
<1>2. /\ poller[t].pc = "idle" /\ s \in DOMAIN session /\ session[s].kind = "social"
      /\ Step(t, r)
      /\ UNCHANGED <<session, listening, channel, approved, presented, gained>>
  BY RestingPoller DEF PasteCallback
<1> HIDE DEF r
<1>3. MovesTo(t, "compare") /\ poller'[t] = r
  BY <1>1, <1>2, StepEffect DEF LoginInv, MovesTo
<1>4. Social(s)
  BY <1>2 DEF LoginInv, LoginKinds
<1> QED
  BY <1>1, <1>2, <1>3, <1>4, RequestOnly

LEMMA CompareStateKeeps ==
    ASSUME LoginInv, NEW t \in Pollers, CompareState(t)
    PROVE  LoginInv'
<1>1. /\ poller[t].pc = "compare"
      /\ UNCHANGED <<session, listening, channel, approved, presented, gained>>
      /\ Step(t, [poller[t] EXCEPT !.pc = "claim"]) \/ Step(t, Resting)
  BY DEF CompareState
<1>2. CASE Step(t, [poller[t] EXCEPT !.pc = "claim"])
  <2> DEFINE r == [poller[t] EXCEPT !.pc = "claim"]
  <2>1. r \in PollerRecord /\ r.pc = "claim" /\ r.login = poller[t].login
    BY DEF LoginInv, LoginTypes, PollerRecord
  <2>2. MovesTo(t, "claim") /\ poller'[t] = r
    BY <1>2, <2>1, StepEffect DEF LoginInv, MovesTo
  <2> HIDE DEF r
  <2>3. r.login \in Sessions /\ Social(r.login)
    BY <1>1, <2>1 DEF LoginInv, LoginKinds
  <2> QED
    BY <1>1, <2>2, <2>3, RequestOnly
<1>3. CASE Step(t, Resting)
  <2>1. MovesTo(t, "idle")
    BY <1>3, RestsEffect DEF LoginInv
  <2> QED
    BY <1>1, <2>1, RequestOnly
<1> QED
  BY <1>1, <1>2, <1>3

(* The session is there for one request only: taking it out is the claim. *)
LEMMA ClaimKeeps ==
    ASSUME LoginInv, NEW t \in Pollers, Claim(t)
    PROVE  LoginInv'
<1>0. PICK s : s = poller[t].login
  OBVIOUS
<1>1. /\ poller[t].pc = "claim" /\ s \in Sessions /\ Social(s)
      /\ UNCHANGED <<listening, channel, approved, presented, gained>>
  BY <1>0 DEF Claim, LoginInv, LoginKinds
<1>2. CASE s \notin DOMAIN session
  <2>1. MovesTo(t, "idle") /\ UNCHANGED session
    BY <1>0, <1>2, RestsEffect DEF Claim, LoginInv
  <2> QED
    BY <1>1, <2>1, RequestOnly
<1>3. CASE s \in DOMAIN session
  <2> DEFINE r == [poller[t] EXCEPT !.pc = "exchange", !.relogin = session[s].relogin]
  <2>1. session[s].relogin \in BOOLEAN
    BY <1>3 DEF LoginInv, LoginTypes, SessionRecord
  <2>2. r \in PollerRecord /\ r.pc = "exchange" /\ r.login = s
    BY <1>0, <2>1, ZenonT(30) DEF LoginInv, LoginTypes, PollerRecord
  <2>3. Step(t, r) /\ session' = Restrict(session, DOMAIN session \ {s})
    BY <1>0, <1>3 DEF Claim, SessionTaken, WithoutLogin
  <2> HIDE DEF r
  <2>4. /\ poller' \in [Pollers -> PollerRecord] /\ poller'[t] = r
        /\ \A u \in Pollers \ {t} : poller'[u] = poller[u]
    BY <2>2, <2>3, StepEffect DEF LoginInv
  <2>5. /\ DOMAIN session' = DOMAIN session \ {s}
        /\ session' \in [DOMAIN session' -> SessionRecord] /\ DOMAIN session' \subseteq Sessions
        /\ \A x \in DOMAIN session' : session'[x] = session[x]
    BY <2>3, RestrictEffect DEF LoginInv
  <2>6. presented[s] = 0 /\ \A u \in Pollers : ~Exchanging(u, s)
    BY <1>1, <1>3 DEF LoginInv, SpentOnce
  <2>7. /\ Exchanging(t, s)' /\ \A x : Exchanging(t, x)' => x = s
        /\ \A u \in Pollers \ {t} : \A x : Exchanging(u, x)' <=> Exchanging(u, x)
        /\ \A x : ~Exchanging(t, x)
    BY <1>1, <2>2, <2>4 DEF Exchanging
  <2>8. LoginTypes'
    BY <1>1, <2>4, <2>5 DEF LoginInv, LoginTypes
  <2>9. LoginKinds'
    BY <1>1, <2>2, <2>4, <2>5 DEF LoginInv, LoginKinds, Social, Device
  <2>10. SpentOnce'
    <3>1. ASSUME NEW u \in Pollers, NEW x \in Sessions, Exchanging(u, x)'
          PROVE  /\ x \notin DOMAIN session' /\ presented'[x] = 0
                 /\ \A v \in Pollers : Exchanging(v, x)' => v = u
      BY <1>1, <2>5, <2>6, <2>7, <3>1 DEF LoginInv, SpentOnce
    <3> QED
      BY <1>1, <2>5, <3>1 DEF LoginInv, SpentOnce, Social
  <2>11. PortsHeld'
    BY <1>1, <2>5, <2>7 DEF LoginInv, PortsHeld
  <2> QED
    BY <2>8, <2>9, <2>10, <2>11 DEF LoginInv
<1> QED
  BY <1>2, <1>3

LEMMA ExchangeCodeKeeps ==
    ASSUME LoginInv, NEW t \in Pollers, NEW ok \in BOOLEAN, ExchangeCode(t, ok)
    PROVE  LoginInv'
<1>0. PICK s : s = poller[t].login
  OBVIOUS
<1>1. /\ poller[t].pc = "exchange" /\ MovesTo(t, "idle")
      /\ presented' = [presented EXCEPT ![s] = @ + 1]
      /\ gained' = [gained EXCEPT ![s] = IF ok THEN @ + 1 ELSE @]
      /\ listening' = listening \ {s}
      /\ UNCHANGED <<session, channel, approved>>
  BY <1>0, RestsEffect DEF ExchangeCode, LoginInv
<1>2. /\ s \in Sessions /\ Social(s) /\ Exchanging(t, s)
      /\ presented[s] = 0 /\ gained[s] = 0 /\ s \notin DOMAIN session
      /\ \A u \in Pollers \ {t} : ~Exchanging(u, s)
  <2>1. s \in Sessions /\ Social(s) /\ Exchanging(t, s)
    BY <1>0, <1>1 DEF LoginInv, LoginKinds, Exchanging
  <2>2. /\ presented[s] = 0 /\ s \notin DOMAIN session
        /\ \A u \in Pollers \ {t} : ~Exchanging(u, s)
    BY <2>1 DEF LoginInv, SpentOnce
  <2>3. gained[s] \in Nat /\ gained[s] <= presented[s]
    BY <2>1 DEF LoginInv, SpentOnce, LoginTypes
  <2> QED
    BY <2>1, <2>2, <2>3
<1>3. /\ presented'[s] = 1 /\ gained'[s] \in {0, 1}
      /\ presented' \in [Sessions -> Nat] /\ gained' \in [Sessions -> Nat]
      /\ \A x \in Sessions \ {s} : presented'[x] = presented[x] /\ gained'[x] = gained[x]
  BY <1>1, <1>2 DEF LoginInv, LoginTypes
<1>4. /\ \A x : ~Exchanging(t, x)'
      /\ \A u \in Pollers \ {t} : \A x : Exchanging(u, x)' <=> Exchanging(u, x)
  BY <1>1 DEF Exchanging, MovesTo
<1>5. LoginTypes'
  BY <1>1, <1>3 DEF LoginInv, LoginTypes, MovesTo
<1>6. LoginKinds'
  <2>1. \A x \in Sessions : channel'[x] = "unused" => presented'[x] = 0
    BY <1>1, <1>2, <1>3 DEF LoginInv, LoginKinds, Social
  <2> QED
    BY <1>1, <2>1 DEF LoginInv, LoginKinds, MovesTo, Social, Device
<1>7. SpentOnce'
  <2>1. \A x \in Sessions : presented'[x] <= 1 /\ gained'[x] <= presented'[x]
    BY <1>3 DEF LoginInv, SpentOnce
  <2>2. s \notin approved
    BY <1>2 DEF LoginInv, LoginKinds, Social, Device
  <2>3. \A x \in approved' : presented'[x] = 0
    BY <1>1, <1>3, <2>2 DEF LoginInv, SpentOnce, LoginTypes
  <2>4. \A x \in DOMAIN session' : Social(x)' => presented'[x] = 0
    BY <1>1, <1>2, <1>3 DEF LoginInv, SpentOnce, LoginTypes, Social
  <2>5. ASSUME NEW u \in Pollers, NEW x \in Sessions, Exchanging(u, x)'
        PROVE  /\ x \notin DOMAIN session' /\ presented'[x] = 0
               /\ \A v \in Pollers : Exchanging(v, x)' => v = u
    <3>1. u # t /\ Exchanging(u, x) /\ x # s
      BY <1>2, <1>4, <2>5
    <3> QED
      BY <1>1, <1>3, <1>4, <3>1 DEF LoginInv, SpentOnce
  <2> QED
    BY <2>1, <2>3, <2>4, <2>5 DEF SpentOnce
<1>8. PortsHeld'
  <2>1. ASSUME NEW x \in listening'
        PROVE  x \in DOMAIN session' \/ \E u \in Pollers : Exchanging(u, x)'
    <3>1. x # s /\ x \in listening
      BY <1>1
    <3>2. Exchanging(t, x) => x = s
      BY <1>2 DEF Exchanging
    <3> QED
      BY <1>1, <1>4, <3>1, <3>2 DEF LoginInv, PortsHeld
  <2> QED
    BY <2>1 DEF PortsHeld
<1> QED
  BY <1>5, <1>6, <1>7, <1>8 DEF LoginInv

LEMMA PollIdcKeeps ==
    ASSUME LoginInv, NEW t \in Pollers, NEW s \in Sessions, PollIdc(t, s)
    PROVE  LoginInv'
<1> DEFINE r == [Resting EXCEPT !.pc = "ask", !.login = s, !.relogin = session[s].relogin]
<1>1. /\ poller[t].pc = "idle" /\ s \in DOMAIN session /\ session[s].kind = "idc"
      /\ Step(t, r)
      /\ UNCHANGED <<session, listening, channel, approved, presented, gained>>
  BY RestingPoller DEF PollIdc
<1>2. session[s].relogin \in BOOLEAN
  BY <1>1 DEF LoginInv, LoginTypes, SessionRecord
<1>3. r \in PollerRecord /\ r.pc = "ask" /\ r.login = s
  BY <1>2 DEF Resting, PollerRecord
<1> HIDE DEF r
<1>4. MovesTo(t, "ask") /\ poller'[t] = r
  BY <1>1, <1>3, StepEffect DEF LoginInv, MovesTo
<1>5. Device(s)
  BY <1>1 DEF LoginInv, LoginKinds
<1> QED
  BY <1>1, <1>3, <1>4, <1>5, RequestOnly

(* The endpoint gives a device code's token out once, to one request. *)
LEMMA AskEndpointKeeps ==
    ASSUME LoginInv, NEW t \in Pollers, NEW a, AskEndpoint(t, a)
    PROVE  LoginInv'
<1>0. PICK s : s = poller[t].login
  OBVIOUS
<1>1. poller[t].pc = "ask" /\ MovesTo(t, "idle") /\ UNCHANGED <<listening, channel>>
  BY RestsEffect DEF AskEndpoint, LoginInv
<1>2. s \in Sessions /\ Device(s) /\ s \notin listening
  BY <1>0, <1>1 DEF LoginInv, LoginKinds, Device
<1>3. \A u \in Pollers : \A x : Exchanging(u, x)' <=> Exchanging(u, x)
  BY <1>1 DEF Exchanging, MovesTo
<1>4. CASE UNCHANGED <<session, approved, presented, gained>>
  BY <1>1, <1>4, RequestOnly
<1>5. CASE session' = Restrict(session, DOMAIN session \ {s})
           /\ UNCHANGED <<approved, presented, gained>>
  <2>1. /\ DOMAIN session' = DOMAIN session \ {s}
        /\ session' \in [DOMAIN session' -> SessionRecord] /\ DOMAIN session' \subseteq Sessions
        /\ \A x \in DOMAIN session' : session'[x] = session[x]
    BY <1>5, RestrictEffect DEF LoginInv
  <2>2. LoginTypes'
    BY <1>1, <1>5, <2>1 DEF LoginInv, LoginTypes, MovesTo
  <2>3. LoginKinds'
    <3>1. \A x \in DOMAIN session' : IF session'[x].kind = "idc" THEN Device(x)' ELSE Social(x)'
      BY <1>1, <2>1 DEF LoginInv, LoginKinds, Social, Device
    <3>2. UNCHANGED <<approved, presented>>
      BY <1>5
    <3> QED
      BY <1>1, <3>1, <3>2 DEF LoginInv, LoginKinds, MovesTo, Social, Device
  <2>4. SpentOnce'
    BY <1>1, <1>3, <1>5, <2>1 DEF LoginInv, SpentOnce, Social
  <2>5. PortsHeld'
    BY <1>1, <1>2, <1>3, <2>1 DEF LoginInv, PortsHeld
  <2> QED
    BY <2>2, <2>3, <2>4, <2>5 DEF LoginInv
<1>6. CASE /\ s \in approved /\ approved' = approved \ {s}
           /\ presented' = [presented EXCEPT ![s] = @ + 1]
           /\ \/ UNCHANGED <<session, gained>>
              \/ /\ session' = Restrict(session, DOMAIN session \ {s})
                 /\ gained' = [gained EXCEPT ![s] = @ + 1]
  <2>1. /\ DOMAIN session' \subseteq DOMAIN session
        /\ session' \in [DOMAIN session' -> SessionRecord] /\ DOMAIN session' \subseteq Sessions
        /\ \A x \in DOMAIN session' : session'[x] = session[x]
        /\ \A x \in DOMAIN session \ {s} : x \in DOMAIN session'
    <3>1. CASE UNCHANGED <<session, gained>>
      BY <3>1 DEF LoginInv, LoginTypes
    <3>2. CASE session' = Restrict(session, DOMAIN session \ {s})
      BY <3>2, RestrictEffect DEF LoginInv
    <3> QED
      BY <1>6, <3>1, <3>2
  <2>2. /\ presented[s] = 0 /\ gained[s] = 0 /\ \A u \in Pollers : ~Exchanging(u, s)
    <3>1. presented[s] = 0 /\ gained[s] <= presented[s] /\ gained[s] \in Nat
      BY <1>2, <1>6 DEF LoginInv, SpentOnce, LoginTypes
    <3>2. \A u \in Pollers : ~Exchanging(u, s)
      BY <1>2 DEF LoginInv, LoginKinds, Exchanging, Social, Device
    <3> QED
      BY <3>1, <3>2
  <2>3. /\ presented'[s] = 1 /\ gained'[s] \in {0, 1}
        /\ presented' \in [Sessions -> Nat] /\ gained' \in [Sessions -> Nat]
        /\ \A x \in Sessions \ {s} : presented'[x] = presented[x] /\ gained'[x] = gained[x]
    BY <1>2, <1>6, <2>2 DEF LoginInv, LoginTypes
  <2>4. LoginTypes'
    BY <1>1, <1>6, <2>1, <2>3 DEF LoginInv, LoginTypes, MovesTo
  <2>5. LoginKinds'
    <3>1. \A x \in Sessions : channel'[x] = "unused" => presented'[x] = 0
      BY <1>1, <1>2, <2>3 DEF LoginInv, LoginKinds, Device
    <3>2. \A x \in DOMAIN session' : IF session'[x].kind = "idc" THEN Device(x)' ELSE Social(x)'
      BY <1>1, <2>1 DEF LoginInv, LoginKinds, Social, Device
    <3> QED
      BY <1>1, <1>6, <3>1, <3>2 DEF LoginInv, LoginKinds, MovesTo, Social, Device
  <2>6. SpentOnce'
    <3>1. \A x \in Sessions : presented'[x] <= 1 /\ gained'[x] <= presented'[x]
      BY <2>3 DEF LoginInv, SpentOnce
    <3>2. \A x \in approved' : presented'[x] = 0
      BY <1>6, <2>3 DEF LoginInv, SpentOnce, LoginTypes
    <3>3. ASSUME NEW x \in DOMAIN session', Social(x)'
          PROVE  presented'[x] = 0
      <4>1. x # s /\ x \in DOMAIN session /\ x \in Sessions /\ Social(x)
        BY <1>1, <1>2, <2>1, <3>3 DEF Social, Device
      <4> QED
        BY <2>3, <4>1 DEF LoginInv, SpentOnce
    <3>4. ASSUME NEW u \in Pollers, NEW x \in Sessions, Exchanging(u, x)'
          PROVE  /\ x \notin DOMAIN session' /\ presented'[x] = 0
                 /\ \A v \in Pollers : Exchanging(v, x)' => v = u
      <4>1. Exchanging(u, x) /\ x # s
        BY <1>3, <2>2, <3>4
      <4> QED
        BY <1>3, <2>1, <2>3, <4>1 DEF LoginInv, SpentOnce
    <3> QED
      BY <3>1, <3>2, <3>3, <3>4 DEF SpentOnce
  <2>7. PortsHeld'
    BY <1>1, <1>2, <1>3, <2>1 DEF LoginInv, PortsHeld
  <2> QED
    BY <2>4, <2>5, <2>6, <2>7 DEF LoginInv
<1> QED
  BY <1>0, <1>4, <1>5, <1>6 DEF AskEndpoint, WithoutLogin

---------------------------------------------------------------------------
(* The theorems.                                                           *)

(* Every variable has its type, a login's channel tells its kind, a code   *)
(* or a device token is spent once because one request at most holds the   *)
(* session or the endpoint gives it out once, and a listening server       *)
(* belongs to a session or to the request that took the session out.       *)
THEOREM LoginInvariant == LoginSpec => []LoginInv
<1>1. LoginInit => LoginInv
  BY LoginInitInv
<1>2. LoginInv /\ [LoginNext]_loginVars => LoginInv'
  <2> SUFFICES ASSUME LoginInv, [LoginNext]_loginVars PROVE LoginInv'
    OBVIOUS
  <2>1. ASSUME NEW s \in Sessions, NEW b \in BOOLEAN, StartSocial(s, b) \/ StartIdc(s, b)
        PROVE  LoginInv'
    BY <2>1, StartSocialKeeps, StartIdcKeeps
  <2>2. ASSUME NEW s \in Sessions, NEW c \in {"genuine", "foreign", "error"}, Callback(s, c)
        PROVE  LoginInv'
    BY <2>2, CallbackKeeps
  <2>3. ASSUME NEW s \in Sessions, ExpireLogin(s) \/ Approve(s)
        PROVE  LoginInv'
    BY <2>3, ExpireLoginKeeps, ApproveKeeps
  <2>4. ASSUME NEW s \in Sessions, NEW t \in Pollers, PollSocial(t, s) \/ PollIdc(t, s)
        PROVE  LoginInv'
    BY <2>4, PollSocialKeeps, PollIdcKeeps
  <2>5. ASSUME NEW s \in Sessions, NEW t \in Pollers, NEW c \in {"genuine", "foreign"},
               PasteCallback(t, s, c)
        PROVE  LoginInv'
    BY <2>5, PasteCallbackKeeps
  <2>6. ASSUME NEW t \in Pollers, Discard(t) \/ CompareState(t) \/ Claim(t)
        PROVE  LoginInv'
    BY <2>6, DiscardKeeps, CompareStateKeeps, ClaimKeeps
  <2>7. ASSUME NEW t \in Pollers, NEW ok \in BOOLEAN, ExchangeCode(t, ok)
        PROVE  LoginInv'
    BY <2>7, ExchangeCodeKeeps
  <2>8. ASSUME NEW t \in Pollers, NEW a, AskEndpoint(t, a)
        PROVE  LoginInv'
    BY <2>8, AskEndpointKeeps
  <2>9. CASE SweepExpired
    BY <2>9, SweepExpiredKeeps
  <2>10. CASE UNCHANGED loginVars
    BY <2>10 DEF loginVars, LoginInv, LoginTypes, LoginKinds, SpentOnce, PortsHeld,
                 Social, Device, Exchanging
  <2> QED
    BY <2>1, <2>2, <2>3, <2>4, <2>5, <2>6, <2>7, <2>8, <2>9, <2>10 DEF LoginNext
<1> QED
  BY <1>1, <1>2, PTL DEF LoginSpec

(* However polls, a pasted callback, the expiry and the sweep race, an     *)
(* authorisation is presented to the token endpoint at most once and gains *)
(* at most one credential, and no callback port is held by a login that is *)
(* over.                                                                   *)
THEOREM AuthorisationSpentOnce == LoginSpec => []LoginUsedOnce
<1>1. LoginInv => LoginUsedOnce
  BY DEF LoginInv, SpentOnce, PortsHeld, Exchanging, LoginUsedOnce
<1> QED
  BY <1>1, LoginInvariant, PTL

---------------------------------------------------------------------------
(* Client keys and groups.                                                *)

RegistrySpec == RegistryInit /\ [][RegistryNext]_registryVars

Names == GroupNames \cup {NoGroup}
KeyRecord == [plain: Nat, group: Names, disabled: BOOLEAN, system: BOOLEAN]
Renaming == {"rename_accounts", "save_renamed", "rename_keys", "roll_back"}
Counted == {"count_keys", "save_cleared", "clear_keys", "delete"}
Steps == {"none", "persist_api_key", "save_config", "clear_accounts"} \cup Renaming \cup Counted
JobRecord == [step: Steps, old: Names, new: Names, plain: Nat]

(* Types; ids stay below the counter and plaintexts were drawn. *)
KeyTypes ==
    /\ keys \in [DOMAIN keys -> KeyRecord]
    /\ SystemId \in DOMAIN keys
    /\ nextKey \in Nat /\ drawn \in Nat /\ apiKey \in Nat
    /\ \A i \in DOMAIN keys : i \in Nat /\ i < nextKey /\ keys[i].plain <= drawn
    /\ \A i \in DOMAIN keys : keys[i].system <=> i = SystemId
    /\ \A p \in revoked : p \in Nat /\ p <= drawn

GroupTypes ==
    /\ groups \subseteq Names
    /\ belongs \in [Accounts -> SUBSET Names] /\ savedGroups \in [Accounts -> SUBSET Names]
    /\ jobs \in [Handlers -> JobRecord]
    /\ \A h \in Handlers : jobs[h].step \in Renaming => jobs[h].old # jobs[h].new

(* What byKey says of a set of entries. *)
IsIndex(index, rows) ==
    /\ \A i \in DOMAIN rows : rows[i].plain \in DOMAIN index /\ index[rows[i].plain] = i
    /\ \A p \in DOMAIN index : index[p] \in DOMAIN rows /\ rows[index[p]].plain = p

(* No entry has a revoked plaintext, whether it is disabled or not. *)
NoneRevoked == \A i \in DOMAIN keys : keys[i].plain \notin revoked

(* config.json has the system key, unless a write was lost or is to come.  *)
ApiKeyKept ==
    \/ keyLost \/ apiKey = keys[SystemId].plain
    \/ \E h \in Handlers : jobs[h].step = "persist_api_key"

(* What is named is registered, stray, or still to be renamed; and what a  *)
(* deletion has counted or cleared is named no more, unless it is stray.   *)
Unmoved == OldAt({"rename_accounts"})

Named ==
    /\ AccountNames(belongs) \subseteq groups \cup strays \cup Unmoved
    /\ KeyGroups \subseteq groups \cup strays \cup BeingRenamed

Unnamed ==
    /\ CheckedAccounts \cap AccountNames(belongs) \subseteq strays
    /\ CheckedKeys \cap KeyGroups \subseteq strays

KeyInv == KeyTypes /\ IsIndex(byKey, keys) /\ NoneRevoked
GroupInv == GroupTypes /\ (refused \/ (Named /\ Unnamed))
RegistryInv == KeyInv /\ ApiKeyKept /\ GroupInv

---------------------------------------------------------------------------
(* The keys.                                                               *)

(* A step that gives no key another plaintext. *)
SamePlains ==
    /\ keys' \in [DOMAIN keys -> KeyRecord]
    /\ \A i \in DOMAIN keys : keys'[i].plain = keys[i].plain /\ keys'[i].system = keys[i].system
    /\ UNCHANGED <<byKey, nextKey, drawn, revoked>> /\ apiKey' \in Nat

LEMMA SamePlainsKeeps ==
    ASSUME KeyInv, SamePlains
    PROVE  KeyInv'
<1>1. DOMAIN keys' = DOMAIN keys
  BY DEF SamePlains
<1>2. KeyTypes'
  BY <1>1 DEF KeyInv, KeyTypes, SamePlains
<1>3. IsIndex(byKey, keys)'
  BY <1>1 DEF KeyInv, IsIndex, SamePlains
<1>4. NoneRevoked'
  BY <1>1 DEF KeyInv, NoneRevoked, SamePlains
<1> QED
  BY <1>2, <1>3, <1>4 DEF KeyInv

LEMMA SameKeys ==
    ASSUME KeyInv, UNCHANGED <<keys, byKey, nextKey, drawn, revoked>>, apiKey' \in Nat
    PROVE  KeyInv'
BY SamePlainsKeeps DEF SamePlains, KeyInv, KeyTypes

LEMMA CreateKeyKeeps ==
    ASSUME KeyInv, NEW g \in Names, CreateKey(g)
    PROVE  KeyInv'
<1> DEFINE n == nextKey
           k == Key(drawn + 1, g, FALSE)
<1>1. /\ drawn' = drawn + 1 /\ nextKey' = n + 1 /\ UNCHANGED <<apiKey, revoked>>
      /\ n \in Nat /\ drawn \in Nat /\ n \notin DOMAIN keys /\ n # SystemId
  BY DEF CreateKey, KeyInv, KeyTypes, SystemId
<1>2. k \in KeyRecord /\ k.plain = drawn + 1 /\ ~k.system
  BY <1>1 DEF Key, KeyRecord
<1>3. keys' = [i \in DOMAIN keys \cup {n} |-> IF i = n THEN k ELSE keys[i]]
  BY <1>1 DEF CreateKey
<1>4. byKey' = [p \in DOMAIN byKey \cup {drawn + 1} |-> IF p = drawn + 1 THEN n ELSE byKey[p]]
  BY <1>1 DEF CreateKey
<1> HIDE DEF k
<1>5. /\ DOMAIN keys' = DOMAIN keys \cup {n} /\ keys'[n] = k
      /\ \A i \in DOMAIN keys : keys'[i] = keys[i]
  BY <1>1, <1>3
<1>6. drawn + 1 \notin DOMAIN byKey /\ drawn + 1 \notin revoked
  BY <1>1 DEF KeyInv, KeyTypes, IsIndex
<1>7. KeyTypes'
  <2>1. keys' \in [DOMAIN keys' -> KeyRecord]
    BY <1>2, <1>3, <1>5 DEF KeyInv, KeyTypes
  <2>2. \A i \in DOMAIN keys' : i \in Nat /\ i < nextKey' /\ keys'[i].plain <= drawn'
    BY <1>1, <1>2, <1>5 DEF KeyInv, KeyTypes, KeyRecord
  <2>3. \A i \in DOMAIN keys' : keys'[i].system <=> i = SystemId
    BY <1>1, <1>2, <1>5 DEF KeyInv, KeyTypes
  <2> QED
    BY <1>1, <1>5, <2>1, <2>2, <2>3 DEF KeyInv, KeyTypes
<1>8. IsIndex(byKey, keys)'
  <2>1. /\ DOMAIN byKey' = DOMAIN byKey \cup {drawn + 1} /\ byKey'[drawn + 1] = n
        /\ \A p \in DOMAIN byKey : byKey'[p] = byKey[p]
    BY <1>4, <1>6
  <2>2. IsIndex(byKey', keys')
    BY <1>1, <1>2, <1>5, <2>1 DEF KeyInv, IsIndex
  <2> QED
    BY <2>2
<1>9. NoneRevoked'
  BY <1>1, <1>2, <1>5, <1>6 DEF KeyInv, NoneRevoked
<1> QED
  BY <1>7, <1>8, <1>9 DEF KeyInv

LEMMA DeleteKeyKeeps ==
    ASSUME KeyInv, NEW i \in DOMAIN keys, DeleteKey(i)
    PROVE  KeyInv'
<1>0. PICK p : p = keys[i].plain
  OBVIOUS
<1>1. /\ i # SystemId /\ UNCHANGED <<nextKey, apiKey, drawn>> /\ revoked' = revoked \cup {p}
      /\ p \in Nat /\ p <= drawn
  BY <1>0 DEF DeleteKey, KeyInv, KeyTypes, KeyRecord
<1>2. /\ keys' = [j \in DOMAIN keys \ {i} |-> keys[j]]
      /\ byKey' = [q \in DOMAIN byKey \ {p} |-> byKey[q]]
  BY <1>0 DEF DeleteKey, Restrict
<1>3. \A j \in DOMAIN keys \ {i} : keys[j].plain # p
  BY <1>0 DEF KeyInv, IsIndex
<1>4. KeyTypes'
  <2>1. keys' \in [DOMAIN keys' -> KeyRecord] /\ SystemId \in DOMAIN keys'
    BY <1>1, <1>2 DEF KeyInv, KeyTypes
  <2>2. \A j \in DOMAIN keys' : keys'[j] = keys[j] /\ j \in DOMAIN keys
    BY <1>2
  <2> QED
    BY <1>1, <2>1, <2>2 DEF KeyInv, KeyTypes
<1>5. IsIndex(byKey', keys')
  BY <1>0, <1>2, <1>3 DEF KeyInv, IsIndex
<1>6. NoneRevoked'
  BY <1>1, <1>2, <1>3 DEF KeyInv, NoneRevoked
<1> QED
  BY <1>4, <1>5, <1>6 DEF KeyInv

LEMMA RotateKeyKeeps ==
    ASSUME KeyInv, NEW h, NEW i \in DOMAIN keys, RotateKey(h, i)
    PROVE  KeyInv'
<1>0. PICK p, q : p = keys[i].plain /\ q = drawn + 1
  OBVIOUS
<1> DEFINE k == [keys[i] EXCEPT !.plain = q]
<1>1. /\ drawn' = q /\ UNCHANGED <<nextKey, apiKey>> /\ revoked' = revoked \cup {p}
      /\ p \in Nat /\ p <= drawn /\ drawn \in Nat
  BY <1>0 DEF RotateKey, KeyInv, KeyTypes, KeyRecord
<1>2. k \in KeyRecord /\ k.plain = q /\ k.system = keys[i].system
  BY <1>0, <1>1 DEF KeyInv, KeyTypes, KeyRecord
<1>3. /\ keys' = [keys EXCEPT ![i] = k]
      /\ byKey' = [x \in (DOMAIN byKey \ {p}) \cup {q} |-> IF x = q THEN i ELSE byKey[x]]
  BY <1>0, <1>1 DEF RotateKey, RotatedIndex
<1> HIDE DEF k
<1>4. /\ DOMAIN keys' = DOMAIN keys /\ keys'[i] = k
      /\ \A j \in DOMAIN keys \ {i} : keys'[j] = keys[j]
  BY <1>3 DEF KeyInv, KeyTypes
<1>5. q \notin DOMAIN byKey /\ q \notin revoked /\ p # q
  BY <1>0, <1>1 DEF KeyInv, KeyTypes, IsIndex
<1>6. \A j \in DOMAIN keys \ {i} : keys[j].plain # p /\ keys[j].plain # q
  BY <1>0, <1>5 DEF KeyInv, IsIndex
<1>7. KeyTypes'
  <2>1. keys' \in [DOMAIN keys' -> KeyRecord]
    BY <1>2, <1>3, <1>4 DEF KeyInv, KeyTypes
  <2>2. \A j \in DOMAIN keys' : j \in Nat /\ j < nextKey' /\ keys'[j].plain <= drawn'
    BY <1>0, <1>1, <1>2, <1>4 DEF KeyInv, KeyTypes, KeyRecord
  <2>3. \A j \in DOMAIN keys' : keys'[j].system <=> j = SystemId
    BY <1>2, <1>4 DEF KeyInv, KeyTypes
  <2>4. \A x \in revoked' : x \in Nat /\ x <= drawn'
    BY <1>0, <1>1 DEF KeyInv, KeyTypes
  <2> QED
    BY <1>0, <1>1, <1>4, <2>1, <2>2, <2>3, <2>4 DEF KeyInv, KeyTypes
<1>8. IsIndex(byKey', keys')
  <2>1. /\ DOMAIN byKey' = (DOMAIN byKey \ {p}) \cup {q} /\ byKey'[q] = i
        /\ \A x \in DOMAIN byKey \ {p} : byKey'[x] = byKey[x]
    BY <1>3, <1>5
  <2> QED
    BY <1>0, <1>2, <1>4, <1>6, <2>1 DEF KeyInv, IsIndex
<1>9. NoneRevoked'
  BY <1>1, <1>2, <1>4, <1>5, <1>6 DEF KeyInv, NoneRevoked
<1> QED
  BY <1>7, <1>8, <1>9 DEF KeyInv

(* Where no two entries share a plaintext, Index is their inverse. *)
LEMMA IndexIsIndex ==
    ASSUME NEW rows,
           \A i, j \in DOMAIN rows : rows[i].plain = rows[j].plain => i = j
    PROVE  IsIndex(Index(rows), rows)
<1>1. ASSUME NEW i \in DOMAIN rows
      PROVE  /\ rows[i].plain \in DOMAIN Index(rows)
             /\ Index(rows)[rows[i].plain] = i
  <2>1. rows[i].plain \in DOMAIN Index(rows)
    BY DEF Index
  <2>2. Index(rows)[rows[i].plain] =
            CHOOSE j \in DOMAIN rows : rows[j].plain = rows[i].plain
    BY DEF Index
  <2>3. (CHOOSE j \in DOMAIN rows : rows[j].plain = rows[i].plain) = i
    OBVIOUS
  <2> QED
    BY <2>1, <2>2, <2>3
<1>2. ASSUME NEW p \in DOMAIN Index(rows)
      PROVE  Index(rows)[p] \in DOMAIN rows /\ rows[Index(rows)[p]].plain = p
  <2>1. PICK i \in DOMAIN rows : rows[i].plain = p
    BY DEF Index
  <2> QED
    BY <1>1, <2>1
<1> QED
  BY <1>1, <1>2 DEF IsIndex

(* The boot: the system key takes the plaintext of config.json, and the    *)
(* keys that have it, or the one it had, go.                               *)
LEMMA SyncedEntries ==
    ASSUME KeyInv, NEW p \in Nat
    PROVE  /\ DOMAIN Synced(keys, p) \subseteq DOMAIN keys
           /\ SystemId \in DOMAIN Synced(keys, p)
           /\ Synced(keys, p) \in [DOMAIN Synced(keys, p) -> KeyRecord]
           /\ Synced(keys, p)[SystemId].plain = p
           /\ \A i \in DOMAIN Synced(keys, p) :
                 /\ Synced(keys, p)[i].system = keys[i].system
                 /\ Synced(keys, p)[i].group = keys[i].group
                 /\ i # SystemId =>
                       Synced(keys, p)[i].plain = keys[i].plain /\ keys[i].plain # p
<1> DEFINE s == Synced(keys, p)
           e == [keys[SystemId] EXCEPT !.plain = p, !.disabled = FALSE]
           D == DOMAIN keys \ Conflicts(keys, p)
<1>1. /\ e \in KeyRecord /\ e.plain = p /\ e.system = keys[SystemId].system
      /\ e.group = keys[SystemId].group
  BY DEF KeyInv, KeyTypes, KeyRecord
<1>2. s = [i \in D |-> IF i = SystemId /\ keys[i].plain # p THEN e ELSE keys[i]]
  BY DEF Synced
<1>3. SystemId \in D /\ \A i \in D \ {SystemId} : keys[i].plain # p
  BY DEF Conflicts, KeyInv, KeyTypes
<1> HIDE DEF s, e, D
<1>4. /\ DOMAIN s = D
      /\ s[SystemId] = IF keys[SystemId].plain # p THEN e ELSE keys[SystemId]
      /\ \A i \in D \ {SystemId} : s[i] = keys[i]
  BY <1>2, <1>3
<1>5. D \subseteq DOMAIN keys
  BY DEF D
<1>6. \A i \in D : s[i] \in KeyRecord
  BY <1>1, <1>4, <1>5 DEF KeyInv, KeyTypes
<1>7. s \in [D -> KeyRecord]
  BY <1>2, <1>6
<1> QED
  BY <1>1, <1>3, <1>4, <1>5, <1>7 DEF s

LEMMA RebootKeys ==
    ASSUME KeyInv, ApiKeyKept, NEW p \in Nat, Reboot(p)
    PROVE  KeyInv'
<1> DEFINE s == Synced(keys, p)
<1>1. /\ keys' = s /\ byKey' = Index(keys') /\ apiKey' = p
      /\ drawn' = IF p > drawn THEN p ELSE drawn
      /\ \/ revoked' = revoked /\ p = apiKey /\ apiKey = keys[SystemId].plain
         \/ revoked' = (revoked \cup {keys[i].plain : i \in DOMAIN keys})
                         \ {keys'[i].plain : i \in DOMAIN keys'}
      /\ nextKey' \in NextIds(keys)
  BY DEF Reboot, ApiKeyKept
<1>2. /\ DOMAIN s \subseteq DOMAIN keys /\ SystemId \in DOMAIN s
      /\ s \in [DOMAIN s -> KeyRecord] /\ s[SystemId].plain = p
      /\ \A i \in DOMAIN s :
            /\ s[i].system = keys[i].system
            /\ i # SystemId => s[i].plain = keys[i].plain /\ keys[i].plain # p
  BY SyncedEntries
<1> HIDE DEF s
<1>3. drawn \in Nat /\ drawn' \in Nat /\ drawn <= drawn' /\ p <= drawn'
  BY <1>1 DEF KeyInv, KeyTypes
<1>4. nextKey' \in Nat /\ \A i \in DOMAIN keys : i < nextKey'
  BY <1>1 DEF NextIds, KeyInv, KeyTypes
<1>5. KeyTypes'
  <2>1. \A i \in DOMAIN keys : i \in Nat /\ keys[i].plain \in Nat /\ keys[i].plain <= drawn
    BY DEF KeyInv, KeyTypes, KeyRecord
  <2>2. \A i \in DOMAIN s : i \in Nat /\ i < nextKey' /\ s[i].plain <= drawn'
    BY <1>2, <1>3, <1>4, <2>1
  <2>3. \A x \in revoked' : x \in Nat /\ x <= drawn'
    BY <1>1, <1>3, <2>1 DEF KeyInv, KeyTypes
  <2>4. \A i \in DOMAIN s : s[i].system <=> i = SystemId
    BY <1>2 DEF KeyInv, KeyTypes
  <2> QED
    BY <1>1, <1>2, <1>3, <1>4, <2>2, <2>3, <2>4 DEF KeyTypes
<1>6. IsIndex(byKey', keys')
  <2>1. \A i, j \in DOMAIN s : s[i].plain = s[j].plain => i = j
    BY <1>2 DEF KeyInv, IsIndex
  <2> QED
    BY <1>1, <2>1, IndexIsIndex
<1>7. NoneRevoked'
  <2>1. CASE revoked' = revoked /\ p = keys[SystemId].plain
    <3>1. SystemId \in DOMAIN keys /\ \A i \in DOMAIN s : s[i].plain = keys[i].plain
      BY <1>2, <2>1 DEF KeyInv, KeyTypes
    <3> QED
      BY <1>1, <1>2, <2>1, <3>1 DEF KeyInv, NoneRevoked
  <2>2. CASE revoked' = (revoked \cup {keys[i].plain : i \in DOMAIN keys})
                          \ {keys'[i].plain : i \in DOMAIN keys'}
    BY <2>2 DEF NoneRevoked
  <2> QED
    BY <1>1, <2>1, <2>2
<1> QED
  BY <1>5, <1>6, <1>7 DEF KeyInv

(* A step that gives a key another group, or disables one. *)
LEMMA MetaKeeps ==
    ASSUME KeyInv, NEW i \in DOMAIN keys, NEW k \in KeyRecord,
           k.plain = keys[i].plain, k.system = keys[i].system,
           keys' = [keys EXCEPT ![i] = k],
           UNCHANGED <<byKey, nextKey, apiKey, drawn, revoked>>
    PROVE  KeyInv'
<1>1. keys' \in [DOMAIN keys -> KeyRecord]
  BY DEF KeyInv, KeyTypes
<1>2. /\ keys'[i] = k
      /\ \A j \in DOMAIN keys \ {i} : keys'[j] = keys[j]
  BY DEF KeyInv, KeyTypes
<1>3. \A j \in DOMAIN keys : keys'[j].plain = keys[j].plain /\ keys'[j].system = keys[j].system
  BY <1>2
<1>4. apiKey' \in Nat
  BY DEF KeyInv, KeyTypes
<1> QED
  BY <1>1, <1>3, <1>4, SamePlainsKeeps DEF SamePlains

LEMMA EditKeyKeeps ==
    ASSUME KeyInv, NEW i \in DOMAIN keys, NEW g \in Names, EditKey(i, g)
    PROVE  KeyInv'
<1> DEFINE k == [keys[i] EXCEPT !.group = g]
<1>1. k \in KeyRecord /\ k.plain = keys[i].plain /\ k.system = keys[i].system
  BY DEF KeyInv, KeyTypes, KeyRecord
<1>2. keys' = [keys EXCEPT ![i] = k] /\ UNCHANGED <<byKey, nextKey, apiKey, drawn, revoked>>
  BY DEF EditKey, KeyInv, KeyTypes, KeyRecord
<1> HIDE DEF k
<1> QED
  BY <1>1, <1>2, MetaKeeps

LEMMA DisableKeyKeeps ==
    ASSUME KeyInv, NEW i \in DOMAIN keys, NEW b \in BOOLEAN, DisableKey(i, b)
    PROVE  KeyInv'
<1> DEFINE k == [keys[i] EXCEPT !.disabled = b]
<1>1. k \in KeyRecord /\ k.plain = keys[i].plain /\ k.system = keys[i].system
  BY DEF KeyInv, KeyTypes, KeyRecord
<1>2. keys' = [keys EXCEPT ![i] = k] /\ UNCHANGED <<byKey, nextKey, apiKey, drawn, revoked>>
  BY DEF DisableKey, KeyInv, KeyTypes, KeyRecord
<1> HIDE DEF k
<1> QED
  BY <1>1, <1>2, MetaKeeps

LEMMA RegroupKeeps ==
    ASSUME KeyInv, NEW from, NEW to \in Names, keys' = Regrouped(from, to),
           UNCHANGED <<byKey, nextKey, apiKey, drawn, revoked>>
    PROVE  KeyInv'
<1>1. \A i \in DOMAIN keys :
         /\ [keys[i] EXCEPT !.group = to] \in KeyRecord
         /\ [keys[i] EXCEPT !.group = to].plain = keys[i].plain
         /\ [keys[i] EXCEPT !.group = to].system = keys[i].system
  BY DEF KeyInv, KeyTypes, KeyRecord
<1>2. keys' \in [DOMAIN keys -> KeyRecord]
  BY <1>1 DEF KeyInv, KeyTypes, Regrouped
<1>3. \A i \in DOMAIN keys : keys'[i].plain = keys[i].plain /\ keys'[i].system = keys[i].system
  BY <1>1 DEF Regrouped
<1>4. apiKey' \in Nat
  BY DEF KeyInv, KeyTypes
<1> QED
  BY <1>2, <1>3, <1>4, SamePlainsKeeps DEF SamePlains

LEMMA ConfigKeeps ==
    ASSUME KeyInv, GroupTypes, NEW h \in Handlers, NEW ok \in BOOLEAN,
           PersistApiKey(h, ok) \/ LoadConfig(h) \/ SaveConfig(h)
    PROVE  KeyInv'
<1>1. jobs[h].plain \in Nat /\ apiKey \in Nat
  BY DEF KeyInv, KeyTypes, GroupTypes, JobRecord
<1>2. UNCHANGED <<keys, byKey, nextKey, drawn, revoked>> /\ apiKey' \in Nat
  BY <1>1 DEF PersistApiKey, WrittenApiKey, LoadConfig, SaveConfig, keyVars
<1> QED
  BY <1>2, SameKeys

LEMMA KeysKept ==
    ASSUME KeyInv, UNCHANGED keyVars
    PROVE  KeyInv'
<1>1. apiKey' \in Nat
  BY DEF keyVars, KeyInv, KeyTypes
<1> QED
  BY <1>1, SameKeys DEF keyVars

LEMMA KeyInit ==
    ASSUME RegistryInit
    PROVE  KeyInv
<1> DEFINE k == Key(1, NoGroup, TRUE)
<1>1. k \in KeyRecord /\ k.plain = 1 /\ k.system
  BY DEF Key, KeyRecord, Names
<1>2. /\ keys = [i \in {SystemId} |-> k] /\ byKey = Index(keys)
      /\ nextKey = 1 /\ apiKey = 1 /\ drawn = 1 /\ revoked = {}
  BY DEF RegistryInit
<1> HIDE DEF k
<1>3. DOMAIN keys = {SystemId} /\ keys[SystemId] = k
  BY <1>2
<1>4. KeyTypes
  BY <1>1, <1>2, <1>3 DEF KeyTypes, SystemId
<1>5. IsIndex(byKey, keys)
  <2>1. \A i, j \in DOMAIN keys : keys[i].plain = keys[j].plain => i = j
    BY <1>3
  <2> QED
    BY <1>2, <2>1, IndexIsIndex
<1>6. NoneRevoked
  BY <1>2 DEF NoneRevoked
<1> QED
  BY <1>4, <1>5, <1>6 DEF KeyInv

(* What a boot may find in config.json is a plaintext. *)
LEMMA BootPlain ==
    ASSUME KeyInv, NEW p \in BootTexts
    PROVE  p \in Nat
BY DEF BootTexts, KeyInv, KeyTypes

LEMMA KeyStep ==
    ASSUME KeyInv, ApiKeyKept, GroupTypes, [RegistryNext]_registryVars
    PROVE  KeyInv'
<1>1. CASE KeyNext
  <2>1. ASSUME NEW g \in Names, CreateKey(g)
        PROVE  KeyInv'
    BY <2>1, CreateKeyKeeps
  <2>2. ASSUME NEW i \in DOMAIN keys, DeleteKey(i) \/ \E b \in BOOLEAN : DisableKey(i, b)
        PROVE  KeyInv'
    BY <2>2, DeleteKeyKeeps, DisableKeyKeeps
  <2>3. ASSUME NEW h \in Handlers, NEW i \in DOMAIN keys, RotateKey(h, i)
        PROVE  KeyInv'
    BY <2>3, RotateKeyKeeps
  <2>4. ASSUME NEW h \in Handlers, NEW b \in BOOLEAN,
               PersistApiKey(h, b) \/ LoadConfig(h) \/ SaveConfig(h)
        PROVE  KeyInv'
    BY <2>4, ConfigKeeps
  <2>5. TRUE \in BOOLEAN
    OBVIOUS
  <2> QED
    BY <1>1, <2>1, <2>2, <2>3, <2>4, <2>5 DEF KeyNext, Names
<1>2. CASE GroupNext
  <2>1. ASSUME NEW i \in DOMAIN keys, NEW g \in Names, EditKey(i, g)
        PROVE  KeyInv'
    BY <2>1, EditKeyKeeps
  <2>2. ASSUME UNCHANGED keyVars
        PROVE  KeyInv'
    BY <2>2, KeysKept
  <2>3. ASSUME NEW h \in Handlers, RenameKeys(h)
        PROVE  KeyInv'
    <3>1. jobs[h].new \in Names
      BY DEF GroupTypes, JobRecord
    <3> QED
      BY <2>3, <3>1, RegroupKeeps DEF RenameKeys
  <2>4. ASSUME NEW h \in Handlers, ClearKeys(h)
        PROVE  KeyInv'
    <3>1. NoGroup \in Names
      BY DEF Names
    <3> QED
      BY <2>4, <3>1, RegroupKeeps DEF ClearKeys
  <2>5. ASSUME NEW h \in Handlers, NEW b,
               \/ SaveRenamed(h, b) \/ SaveCleared(h, b) \/ RenameAccounts(h) \/ RollBack(h)
               \/ CountKeys(h) \/ ClearAccounts(h) \/ RemoveGroup(h)
        PROVE  UNCHANGED keyVars
    BY <2>5 DEF SaveRenamed, SaveCleared, RenameAccounts, RollBack, CountKeys, ClearAccounts,
                RemoveGroup
  <2>6. ASSUME NEW h \in Handlers, NEW n,
               (\E m : RenameGroup(h, n, m)) \/ (\E b : DeleteGroup(h, n, b))
        PROVE  UNCHANGED keyVars
    BY <2>6 DEF RenameGroup, DeleteGroup
  <2>7. ASSUME (\E n : CreateGroup(n)) \/ (\E a, S : AssignGroups(a, S)) \/ SaveAccounts
        PROVE  UNCHANGED keyVars
    BY <2>7 DEF CreateGroup, AssignGroups, SaveAccounts
  <2> QED
    BY <1>2, <2>1, <2>2, <2>3, <2>4, <2>5, <2>6, <2>7 DEF GroupNext, Names
<1>3. ASSUME NEW p \in BootTexts, Reboot(p)
      PROVE  KeyInv'
  BY <1>3, BootPlain, RebootKeys
<1>4. CASE UNCHANGED registryVars
  BY <1>4, KeysKept DEF registryVars
<1> QED
  BY <1>1, <1>2, <1>3, <1>4 DEF RegistryNext

---------------------------------------------------------------------------
(* The handlers under way.                                                 *)

(* A step of one handler: where it is then, and the group it is about.     *)
Moved(h, step, old) ==
    \E j \in JobRecord :
        /\ jobs' = [jobs EXCEPT ![h] = j] /\ j.step = step /\ j.old = old
        /\ step \in Renaming => j.old # j.new

LEMMA GoesMoves ==
    ASSUME GroupTypes, NEW h \in Handlers, NEW step \in Steps, Goes(h, step),
           step \in Renaming => jobs[h].step \in Renaming
    PROVE  Moved(h, step, jobs[h].old)
<1> DEFINE j == [jobs[h] EXCEPT !.step = step]
<1>1. /\ j \in JobRecord /\ j.step = step /\ j.old = jobs[h].old /\ j.new = jobs[h].new
  BY DEF GroupTypes, JobRecord
<1>2. jobs' = [jobs EXCEPT ![h] = j]
  BY DEF Goes, GroupTypes, JobRecord
<1>3. step \in Renaming => j.old # j.new
  BY <1>1 DEF GroupTypes
<1> HIDE DEF j
<1> QED
  BY <1>1, <1>2, <1>3 DEF Moved

LEMMA NoJobIs == NoJob \in JobRecord /\ NoJob.step = "none" /\ NoJob.old = NoGroup
BY DEF NoJob, JobRecord, Steps, Names

LEMMA EndsMoves ==
    ASSUME NEW h \in Handlers, Ends(h)
    PROVE  Moved(h, "none", NoGroup)
BY NoJobIs DEF Ends, Moved, Renaming

LEMMA MovedSets ==
    ASSUME GroupTypes, NEW h \in Handlers, NEW step \in Steps, NEW old, Moved(h, step, old)
    PROVE  /\ jobs' \in [Handlers -> JobRecord]
           /\ \A k \in Handlers : jobs'[k].step \in Renaming => jobs'[k].old # jobs'[k].new
           /\ Unmoved \subseteq Unmoved' \cup
                 (IF jobs[h].step = "rename_accounts" THEN {jobs[h].old} ELSE {})
           /\ BeingRenamed \subseteq BeingRenamed' \cup
                 (IF jobs[h].step \in Renaming THEN {jobs[h].old} ELSE {})
           /\ CheckedAccounts' \subseteq CheckedAccounts \cup
                 (IF step \in Counted THEN {old} ELSE {})
           /\ CheckedKeys' \subseteq CheckedKeys \cup (IF step = "delete" THEN {old} ELSE {})
           /\ step = "rename_accounts" => old \in Unmoved'
           /\ step \in Renaming => old \in BeingRenamed'
           /\ jobs[h].step \in Counted => jobs[h].old \in CheckedAccounts
           /\ jobs[h].step = "delete" => jobs[h].old \in CheckedKeys
<1>1. PICK j \in JobRecord : /\ jobs' = [jobs EXCEPT ![h] = j] /\ j.step = step /\ j.old = old
                             /\ step \in Renaming => j.old # j.new
  BY DEF Moved
<1>2. jobs'[h] = j /\ \A k \in Handlers \ {h} : jobs'[k] = jobs[k]
  BY <1>1 DEF GroupTypes
<1>3. /\ jobs' \in [Handlers -> JobRecord]
      /\ \A k \in Handlers : jobs'[k].step \in Renaming => jobs'[k].old # jobs'[k].new
  BY <1>1, <1>2 DEF GroupTypes
<1>4. ASSUME NEW S
      PROVE  /\ OldAt(S)' \subseteq OldAt(S) \cup (IF step \in S THEN {old} ELSE {})
             /\ OldAt(S) \subseteq OldAt(S)' \cup (IF jobs[h].step \in S THEN {jobs[h].old} ELSE {})
             /\ step \in S => old \in OldAt(S)'
             /\ jobs[h].step \in S => jobs[h].old \in OldAt(S)
  BY <1>1, <1>2 DEF OldAt
<1>5. /\ Unmoved = OldAt({"rename_accounts"}) /\ BeingRenamed = OldAt(Renaming)
      /\ CheckedAccounts = OldAt(Counted) /\ CheckedKeys = OldAt({"delete"})
  BY DEF Unmoved, BeingRenamed, CheckedAccounts, CheckedKeys, Renaming, Counted
<1>6. /\ Unmoved' = OldAt({"rename_accounts"})' /\ BeingRenamed' = OldAt(Renaming)'
      /\ CheckedAccounts' = OldAt(Counted)' /\ CheckedKeys' = OldAt({"delete"})'
  BY DEF Unmoved, BeingRenamed, CheckedAccounts, CheckedKeys, Renaming, Counted
<1>7. /\ Unmoved \subseteq Unmoved' \cup
             (IF jobs[h].step = "rename_accounts" THEN {jobs[h].old} ELSE {})
      /\ step = "rename_accounts" => old \in Unmoved'
  BY <1>4, <1>5, <1>6
<1>8. /\ BeingRenamed \subseteq BeingRenamed' \cup
             (IF jobs[h].step \in Renaming THEN {jobs[h].old} ELSE {})
      /\ step \in Renaming => old \in BeingRenamed'
  BY <1>4, <1>5, <1>6
<1>9. /\ CheckedAccounts' \subseteq CheckedAccounts \cup (IF step \in Counted THEN {old} ELSE {})
      /\ jobs[h].step \in Counted => jobs[h].old \in CheckedAccounts
  BY <1>4, <1>5, <1>6
<1>10. /\ CheckedKeys' \subseteq CheckedKeys \cup (IF step = "delete" THEN {old} ELSE {})
       /\ jobs[h].step = "delete" => jobs[h].old \in CheckedKeys
  BY <1>4, <1>5, <1>6
<1> QED
  BY <1>3, <1>7, <1>8, <1>9, <1>10

(* The sets of names that the handlers under way are about.                *)
JobSets == <<Unmoved, BeingRenamed, CheckedAccounts, CheckedKeys>>

LEMMA JobsRest ==
    ASSUME GroupTypes, UNCHANGED jobs
    PROVE  /\ UNCHANGED JobSets /\ jobs' \in [Handlers -> JobRecord]
           /\ \A k \in Handlers : jobs'[k].step \in Renaming => jobs'[k].old # jobs'[k].new
BY DEF GroupTypes, JobSets, Unmoved, BeingRenamed, CheckedAccounts, CheckedKeys, OldAt

LEMMA DeletedIsCounted == CheckedKeys \subseteq CheckedAccounts
BY DEF CheckedKeys, CheckedAccounts, OldAt

(* A handler that writes config.json is in no cascade.                     *)
LEMMA ConfigMoves ==
    ASSUME GroupTypes, KeyInv, NEW h \in Handlers, NEW i, NEW ok \in BOOLEAN,
           \/ RotateKey(h, i) /\ i \in DOMAIN keys
           \/ PersistApiKey(h, ok) \/ LoadConfig(h) \/ SaveConfig(h)
    PROVE  /\ jobs' \in [Handlers -> JobRecord]
           /\ \A k \in Handlers : jobs'[k].step \in Renaming => jobs'[k].old # jobs'[k].new
           /\ Unmoved \subseteq Unmoved' /\ BeingRenamed \subseteq BeingRenamed'
           /\ CheckedAccounts' \subseteq CheckedAccounts /\ CheckedKeys' \subseteq CheckedKeys
<1>1. jobs[h].step \in {"none", "persist_api_key", "save_config"}
  BY DEF RotateKey, PersistApiKey, LoadConfig, SaveConfig, Free
<1>2. jobs[h].step \notin Renaming /\ jobs[h].step # "rename_accounts"
  BY <1>1 DEF Renaming
<1>3. CASE UNCHANGED jobs
  BY <1>3, JobsRest DEF JobSets
<1>4. CASE \E step \in {"none", "persist_api_key", "save_config"} : \E old : Moved(h, step, old)
  <2>1. PICK step \in {"none", "persist_api_key", "save_config"} : \E old : Moved(h, step, old)
    BY <1>4
  <2>3. PICK old : Moved(h, step, old)
    BY <2>1
  <2>2. step \in Steps /\ step \notin Counted /\ step # "delete"
    BY DEF Steps, Counted
  <2> QED
    BY <1>2, <2>2, <2>3, MovedSets
<1>5. ASSUME NEW step \in {"persist_api_key", "save_config"}, NEW p \in Nat,
             jobs' = [jobs EXCEPT ![h].step = step, ![h].plain = p]
      PROVE  Moved(h, step, jobs[h].old)
  <2> DEFINE j == [jobs[h] EXCEPT !.step = step, !.plain = p]
  <2>1. j \in JobRecord /\ j.step = step /\ j.old = jobs[h].old
    BY DEF GroupTypes, JobRecord, Steps
  <2>2. jobs' = [jobs EXCEPT ![h] = j]
    BY <1>5 DEF GroupTypes, JobRecord
  <2>3. step \notin Renaming
    BY DEF Renaming
  <2> HIDE DEF j
  <2> QED
    BY <2>1, <2>2, <2>3 DEF Moved
<1>6. CASE RotateKey(h, i)
  <2>1. drawn + 1 \in Nat
    BY DEF KeyInv, KeyTypes
  <2>2. \/ jobs' = [jobs EXCEPT ![h].step = "persist_api_key", ![h].plain = drawn + 1]
        \/ UNCHANGED jobs
    BY <1>6 DEF RotateKey
  <2> QED
    BY <1>3, <1>4, <1>5, <2>1, <2>2
<1>7. CASE LoadConfig(h)
  <2>1. apiKey \in Nat
    BY DEF KeyInv, KeyTypes
  <2> QED
    BY <1>4, <1>5, <1>7, <2>1 DEF LoadConfig
<1>8. CASE PersistApiKey(h, ok) \/ SaveConfig(h)
  BY <1>4, <1>8, EndsMoves DEF PersistApiKey, SaveConfig
<1> QED
  BY <1>6, <1>7, <1>8

---------------------------------------------------------------------------
(* config.json and the system key.                                         *)

LEMMA SystemKeyKept ==
    ASSUME ApiKeyKept, keys'[SystemId].plain = keys[SystemId].plain, UNCHANGED <<apiKey, keyLost>>,
           \A h \in Handlers : jobs[h].step = "persist_api_key" => jobs'[h].step = "persist_api_key"
    PROVE  ApiKeyKept'
BY DEF ApiKeyKept

LEMMA KeyNextApiKey ==
    ASSUME KeyInv, GroupTypes, ApiKeyKept, KeyNext
    PROVE  ApiKeyKept'
<1>1. ASSUME NEW g, CreateKey(g)
      PROVE  ApiKeyKept'
  <2>1. UNCHANGED <<apiKey, keyLost, jobs>> /\ nextKey # SystemId
    BY <1>1 DEF CreateKey, KeyInv, KeyTypes
  <2>2. keys'[SystemId] = keys[SystemId]
    BY <1>1, <2>1 DEF CreateKey, KeyInv, KeyTypes
  <2> QED
    BY <2>1, <2>2, SystemKeyKept
<1>2. ASSUME NEW i \in DOMAIN keys, DeleteKey(i)
      PROVE  ApiKeyKept'
  <2>1. UNCHANGED <<apiKey, keyLost, jobs>> /\ i # SystemId
    BY <1>2 DEF DeleteKey, KeyInv, KeyTypes
  <2>2. keys'[SystemId] = keys[SystemId]
    BY <1>2, <2>1 DEF DeleteKey, Restrict, KeyInv, KeyTypes
  <2> QED
    BY <2>1, <2>2, SystemKeyKept
<1>3. ASSUME NEW i \in DOMAIN keys, NEW b \in BOOLEAN, DisableKey(i, b)
      PROVE  ApiKeyKept'
  <2>1. UNCHANGED <<apiKey, keyLost, jobs>>
    BY <1>3 DEF DisableKey
  <2>2. keys'[SystemId].plain = keys[SystemId].plain
    BY <1>3 DEF DisableKey, KeyInv, KeyTypes, KeyRecord
  <2> QED
    BY <2>1, <2>2, SystemKeyKept
<1>4. ASSUME NEW h \in Handlers, NEW i \in DOMAIN keys, RotateKey(h, i)
      PROVE  ApiKeyKept'
  <2>1. UNCHANGED <<apiKey, keyLost>> /\ keys' = [keys EXCEPT ![i].plain = drawn + 1]
    BY <1>4 DEF RotateKey
  <2>2. CASE keys[i].system
    <3>1. jobs'[h].step = "persist_api_key"
      BY <1>4, <2>2 DEF RotateKey, GroupTypes, JobRecord
    <3> QED
      BY <3>1 DEF ApiKeyKept
  <2>3. CASE ~keys[i].system
    <3>1. i # SystemId /\ UNCHANGED jobs
      BY <1>4, <2>3 DEF RotateKey, KeyInv, KeyTypes
    <3>2. keys'[SystemId].plain = keys[SystemId].plain
      BY <2>1, <3>1 DEF KeyInv, KeyTypes
    <3> QED
      BY <2>1, <3>1, <3>2, SystemKeyKept
  <2> QED
    BY <2>2, <2>3
<1>5. ASSUME NEW h \in Handlers, NEW ok \in BOOLEAN, PersistApiKey(h, ok)
      PROVE  ApiKeyKept'
  <2>1. UNCHANGED keys /\ keyLost' = ~(ok /\ jobs[h].plain = keys[SystemId].plain)
        /\ (ok => apiKey' = jobs[h].plain)
    BY <1>5 DEF PersistApiKey, WrittenApiKey
  <2> QED
    BY <2>1 DEF ApiKeyKept
<1>6. ASSUME NEW h \in Handlers, LoadConfig(h) \/ SaveConfig(h)
      PROVE  ApiKeyKept'
  <2>1. UNCHANGED keys /\ jobs[h].step # "persist_api_key"
        /\ \A k \in Handlers \ {h} : jobs'[k] = jobs[k]
    BY <1>6 DEF LoadConfig, SaveConfig, Free, Ends, keyVars, GroupTypes
  <2>2. keyLost => keyLost'
    BY <1>6 DEF LoadConfig, SaveConfig, keyVars
  <2>3. keyLost' \/ UNCHANGED apiKey
    BY <1>6 DEF LoadConfig, SaveConfig, keyVars
  <2> QED
    BY <2>1, <2>2, <2>3 DEF ApiKeyKept
<1> QED
  BY <1>1, <1>2, <1>3, <1>4, <1>5, <1>6 DEF KeyNext

(* A handler in a cascade writes no config.json.                           *)
LEMMA CascadeApiKey ==
    ASSUME GroupTypes, ApiKeyKept, NEW h \in Handlers, jobs[h].step # "persist_api_key",
           \A k \in Handlers \ {h} : jobs'[k] = jobs[k],
           keys'[SystemId].plain = keys[SystemId].plain, UNCHANGED <<apiKey, keyLost>>
    PROVE  ApiKeyKept'
BY SystemKeyKept

LEMMA GroupNextApiKey ==
    ASSUME KeyInv, GroupTypes, ApiKeyKept, GroupNext
    PROVE  ApiKeyKept'
<1>1. ASSUME NEW i \in DOMAIN keys, NEW g, EditKey(i, g)
      PROVE  ApiKeyKept'
  <2>1. UNCHANGED <<apiKey, keyLost, jobs>>
    BY <1>1 DEF EditKey
  <2>2. keys'[SystemId].plain = keys[SystemId].plain
    BY <1>1 DEF EditKey, KeyInv, KeyTypes, KeyRecord
  <2> QED
    BY <2>1, <2>2, SystemKeyKept
<1>2. ASSUME (\E n : CreateGroup(n)) \/ (\E a, S : AssignGroups(a, S)) \/ SaveAccounts
      PROVE  ApiKeyKept'
  <2>1. UNCHANGED <<apiKey, keyLost, jobs, keys>>
    BY <1>2 DEF CreateGroup, AssignGroups, SaveAccounts, keyVars
  <2> QED
    BY <2>1, SystemKeyKept
<1>3. ASSUME NEW h \in Handlers,
             \/ \E n, m : RenameGroup(h, n, m)
             \/ \E n, b : DeleteGroup(h, n, b)
             \/ \E b : SaveRenamed(h, b) \/ SaveCleared(h, b)
             \/ RenameAccounts(h) \/ RollBack(h) \/ CountKeys(h) \/ ClearAccounts(h)
             \/ RemoveGroup(h)
      PROVE  ApiKeyKept'
  <2>1. /\ UNCHANGED keyVars /\ jobs[h].step # "persist_api_key"
        /\ \E j : jobs' = [jobs EXCEPT ![h] = j]
    <3>1. \A step : Goes(h, step) => \E j : jobs' = [jobs EXCEPT ![h] = j]
      BY DEF Goes
    <3>2. Ends(h) => \E j : jobs' = [jobs EXCEPT ![h] = j]
      BY DEF Ends
    <3> QED
      BY <1>3, <3>1, <3>2 DEF RenameGroup, DeleteGroup, SaveRenamed, SaveCleared, RenameAccounts,
         RollBack, CountKeys, ClearAccounts, RemoveGroup, Free
  <2>2. \A k \in Handlers \ {h} : jobs'[k] = jobs[k]
    BY <2>1 DEF GroupTypes
  <2>3. UNCHANGED <<keys, apiKey, keyLost>>
    BY <2>1 DEF keyVars
  <2> QED
    BY <2>1, <2>2, <2>3, CascadeApiKey
<1>4. ASSUME NEW h \in Handlers, RenameKeys(h) \/ ClearKeys(h)
      PROVE  ApiKeyKept'
  <2>1. /\ UNCHANGED <<apiKey, keyLost>> /\ jobs[h].step # "persist_api_key"
        /\ \E from, to : keys' = Regrouped(from, to)
    BY <1>4 DEF RenameKeys, ClearKeys
  <2>2. \A k \in Handlers \ {h} : jobs'[k] = jobs[k]
    BY <1>4 DEF RenameKeys, ClearKeys, Goes, Ends, GroupTypes
  <2>3. keys'[SystemId].plain = keys[SystemId].plain
    BY <2>1 DEF Regrouped, KeyInv, KeyTypes, KeyRecord
  <2> QED
    BY <2>1, <2>2, <2>3, CascadeApiKey
<1> QED
  BY <1>1, <1>2, <1>3, <1>4 DEF GroupNext

LEMMA ApiKeyStep ==
    ASSUME KeyInv, GroupTypes, ApiKeyKept, [RegistryNext]_registryVars
    PROVE  ApiKeyKept'
<1>1. ASSUME NEW p \in BootTexts, Reboot(p)
      PROVE  ApiKeyKept'
  <2>1. p \in Nat /\ apiKey' = p /\ keys' = Synced(keys, p)
    BY <1>1, BootPlain DEF Reboot
  <2> QED
    BY <2>1, SyncedEntries DEF ApiKeyKept
<1>2. CASE UNCHANGED registryVars
  BY <1>2 DEF registryVars, keyVars, ApiKeyKept
<1> QED
  BY <1>1, <1>2, KeyNextApiKey, GroupNextApiKey DEF RegistryNext

---------------------------------------------------------------------------
(* The groups: what a step does to the names in use, to the registry and   *)
(* to the handlers under way decides.                                      *)

(* A step that names no group anew, registers none and drops none.         *)
LEMMA NothingNamed ==
    ASSUME GroupInv, GroupTypes', UNCHANGED <<groups, strays, refused>>,
           AccountNames(belongs)' \subseteq AccountNames(belongs), KeyGroups' \subseteq KeyGroups,
           Unmoved \subseteq Unmoved', BeingRenamed \subseteq BeingRenamed',
           CheckedAccounts' \subseteq CheckedAccounts, CheckedKeys' \subseteq CheckedKeys
    PROVE  GroupInv'
BY DEF GroupInv, Named, Unnamed

LEMMA CreateKeyGroups ==
    ASSUME KeyInv, GroupInv, NEW g \in Names, CreateKey(g)
    PROVE  GroupInv'
<1> DEFINE k == Key(drawn + 1, g, FALSE)
<1>1. /\ keys' = [i \in DOMAIN keys \cup {nextKey} |-> IF i = nextKey THEN k ELSE keys[i]]
      /\ strays' = strays \cup Astray({g} \ {NoGroup}, CheckedKeys)
      /\ UNCHANGED <<jobs, groups, belongs, savedGroups, refused>>
  BY DEF CreateKey
<1>2. k.group = g
  BY DEF Key
<1> HIDE DEF k
<1>3. DOMAIN keys' = DOMAIN keys \cup {nextKey} /\ keys'[nextKey] = k
      /\ \A i \in DOMAIN keys \ {nextKey} : keys'[i] = keys[i]
  BY <1>1
<1>4. \A i \in DOMAIN keys' : keys'[i].group = g \/ (i \in DOMAIN keys /\ keys'[i] = keys[i])
  BY <1>2, <1>3
<1>5. KeyGroups' \subseteq KeyGroups \cup ({g} \ {NoGroup})
  BY <1>1, <1>4 DEF KeyGroups
<1>6. AccountNames(belongs)' = AccountNames(belongs)
  BY <1>1 DEF AccountNames
<1>7. UNCHANGED JobSets /\ GroupTypes'
  BY <1>1, JobsRest DEF GroupInv, GroupTypes
<1> QED
  BY <1>1, <1>5, <1>6, <1>7 DEF GroupInv, Named, Unnamed, Astray, JobSets

LEMMA EditKeyGroups ==
    ASSUME KeyInv, GroupInv, NEW i \in DOMAIN keys, NEW g \in Names, EditKey(i, g)
    PROVE  GroupInv'
<1> DEFINE k == [keys[i] EXCEPT !.group = g]
           new == {g} \ {NoGroup, keys[i].group}
<1>1. /\ keys' = [keys EXCEPT ![i] = k]
      /\ strays' = strays \cup Astray(new, CheckedKeys)
      /\ UNCHANGED <<jobs, groups, belongs, savedGroups, refused>>
  BY DEF EditKey, KeyInv, KeyTypes, KeyRecord
<1>2. k.group = g
  BY DEF KeyInv, KeyTypes, KeyRecord
<1> HIDE DEF k
<1>3. DOMAIN keys' = DOMAIN keys
      /\ \A j \in DOMAIN keys : (j = i /\ keys'[j].group = g) \/ keys'[j] = keys[j]
  BY <1>1, <1>2 DEF KeyInv, KeyTypes
<1>4. KeyGroups' \subseteq KeyGroups \cup new
  BY <1>3 DEF KeyGroups
<1>5. AccountNames(belongs)' = AccountNames(belongs)
  BY <1>1 DEF AccountNames
<1>6. UNCHANGED JobSets /\ GroupTypes'
  BY <1>1, JobsRest DEF GroupInv, GroupTypes
<1> HIDE DEF new
<1> QED
  BY <1>1, <1>4, <1>5, <1>6 DEF GroupInv, Named, Unnamed, Astray, JobSets

LEMMA DeleteKeyGroups ==
    ASSUME KeyInv, GroupInv, NEW i \in DOMAIN keys, DeleteKey(i)
    PROVE  GroupInv'
<1>1. /\ keys' = [j \in DOMAIN keys \ {i} |-> keys[j]]
      /\ UNCHANGED <<jobs, groups, belongs, savedGroups, strays, refused>>
  BY DEF DeleteKey, Restrict, groupVars
<1>2. KeyGroups' \subseteq KeyGroups
  BY <1>1 DEF KeyGroups
<1>3. AccountNames(belongs)' = AccountNames(belongs)
  BY <1>1 DEF AccountNames
<1>4. UNCHANGED JobSets /\ GroupTypes'
  BY <1>1, JobsRest DEF GroupInv, GroupTypes
<1> QED
  BY <1>1, <1>2, <1>3, <1>4, NothingNamed DEF JobSets

LEMMA DisableKeyGroups ==
    ASSUME KeyInv, GroupInv, NEW i \in DOMAIN keys, NEW b \in BOOLEAN, DisableKey(i, b)
    PROVE  GroupInv'
<1>1. /\ keys' = [keys EXCEPT ![i].disabled = b]
      /\ UNCHANGED <<jobs, groups, belongs, savedGroups, strays, refused>>
  BY DEF DisableKey, groupVars
<1>2. DOMAIN keys' = DOMAIN keys /\ \A j \in DOMAIN keys : keys'[j].group = keys[j].group
  BY <1>1 DEF KeyInv, KeyTypes, KeyRecord
<1>3. KeyGroups' = KeyGroups
  BY <1>2 DEF KeyGroups
<1>4. AccountNames(belongs)' = AccountNames(belongs)
  BY <1>1 DEF AccountNames
<1>5. UNCHANGED JobSets /\ GroupTypes'
  BY <1>1, JobsRest DEF GroupInv, GroupTypes
<1> QED
  BY <1>1, <1>3, <1>4, <1>5, NothingNamed DEF JobSets

LEMMA ConfigGroups ==
    ASSUME KeyInv, GroupInv, NEW h \in Handlers, NEW i, NEW ok \in BOOLEAN,
           \/ RotateKey(h, i) /\ i \in DOMAIN keys
           \/ PersistApiKey(h, ok) \/ LoadConfig(h) \/ SaveConfig(h)
    PROVE  GroupInv'
<1>1. UNCHANGED <<groups, belongs, savedGroups, strays, refused>>
  BY DEF RotateKey, PersistApiKey, LoadConfig, SaveConfig, groupVars
<1>2. DOMAIN keys' = DOMAIN keys /\ \A j \in DOMAIN keys : keys'[j].group = keys[j].group
  <2>1. CASE RotateKey(h, i) /\ i \in DOMAIN keys
    BY <2>1 DEF RotateKey, KeyInv, KeyTypes, KeyRecord
  <2>2. CASE PersistApiKey(h, ok) \/ LoadConfig(h) \/ SaveConfig(h)
    BY <2>2 DEF PersistApiKey, LoadConfig, SaveConfig, keyVars
  <2> QED
    BY <2>1, <2>2
<1>3. KeyGroups' = KeyGroups
  BY <1>2 DEF KeyGroups
<1>4. AccountNames(belongs)' = AccountNames(belongs)
  BY <1>1 DEF AccountNames
<1>5. GroupTypes
  BY DEF GroupInv
<1>6. /\ GroupTypes' /\ Unmoved \subseteq Unmoved' /\ BeingRenamed \subseteq BeingRenamed'
      /\ CheckedAccounts' \subseteq CheckedAccounts /\ CheckedKeys' \subseteq CheckedKeys
  BY <1>1, <1>5, ConfigMoves DEF GroupTypes
<1> QED
  BY <1>1, <1>3, <1>4, <1>6, NothingNamed

LEMMA CreateGroupGroups ==
    ASSUME GroupInv, NEW n \in GroupNames, CreateGroup(n)
    PROVE  GroupInv'
<1>1. /\ UNCHANGED <<keys, belongs, savedGroups, jobs, refused>>
      /\ groups' = groups \cup {n} /\ strays' = strays \ ({n} \ CheckedAccounts)
  BY DEF CreateGroup, Registered, keyVars
<1>2. KeyGroups' = KeyGroups /\ AccountNames(belongs)' = AccountNames(belongs)
  BY <1>1 DEF KeyGroups, AccountNames
<1>3. UNCHANGED JobSets /\ GroupTypes'
  BY <1>1, JobsRest DEF GroupInv, GroupTypes, Names
<1> QED
  BY <1>1, <1>2, <1>3, DeletedIsCounted DEF GroupInv, Named, Unnamed, JobSets

LEMMA AssignGroupsGroups ==
    ASSUME GroupInv, NEW a \in Accounts, NEW S \in SUBSET GroupNames, AssignGroups(a, S)
    PROVE  GroupInv'
<1>1. /\ UNCHANGED <<keys, groups, savedGroups, jobs, refused>>
      /\ belongs' = [belongs EXCEPT ![a] = S]
      /\ strays' = strays \cup Astray(S \ belongs[a], CheckedAccounts)
  BY DEF AssignGroups, keyVars
<1>2. belongs' \in [Accounts -> SUBSET Names]
      /\ \A c \in Accounts : (c = a /\ belongs'[c] = S) \/ belongs'[c] = belongs[c]
  BY <1>1 DEF GroupInv, GroupTypes, Names
<1>3. AccountNames(belongs)' \subseteq AccountNames(belongs) \cup (S \ belongs[a])
  BY <1>1, <1>2 DEF AccountNames
<1>4. KeyGroups' = KeyGroups
  BY <1>1 DEF KeyGroups
<1>5. UNCHANGED JobSets /\ GroupTypes'
  BY <1>1, <1>2, JobsRest DEF GroupInv, GroupTypes
<1> QED
  BY <1>1, <1>3, <1>4, <1>5 DEF GroupInv, Named, Unnamed, Astray, JobSets

LEMMA SaveAccountsGroups ==
    ASSUME GroupInv, SaveAccounts
    PROVE  GroupInv'
<1>1. UNCHANGED <<keys, groups, belongs, jobs, strays, refused>> /\ savedGroups' = belongs
  BY DEF SaveAccounts, keyVars
<1>2. KeyGroups' = KeyGroups /\ AccountNames(belongs)' = AccountNames(belongs)
  BY <1>1 DEF KeyGroups, AccountNames
<1>3. UNCHANGED JobSets /\ GroupTypes'
  BY <1>1, JobsRest DEF GroupInv, GroupTypes
<1> QED
  BY <1>1, <1>2, <1>3, NothingNamed DEF JobSets

---------------------------------------------------------------------------
(* A rename, step by step.                                                 *)

LEMMA RenameGroupGroups ==
    ASSUME GroupInv, NEW h \in Handlers, NEW n \in GroupNames, NEW m \in GroupNames,
           RenameGroup(h, n, m)
    PROVE  GroupInv'
<1> DEFINE j == [NoJob EXCEPT !.step = "rename_accounts", !.old = n, !.new = m]
<1>1. /\ UNCHANGED <<keys, belongs, savedGroups, refused>> /\ jobs[h].step = "none" /\ n # m
      /\ groups' = (groups \ {n}) \cup {m} /\ strays' = strays \ ({m} \ CheckedAccounts)
      /\ jobs' = [jobs EXCEPT ![h] = j]
  BY DEF RenameGroup, Registered, Free, keyVars
<1>2. j \in JobRecord /\ j.step = "rename_accounts" /\ j.old = n /\ j.new = m
  BY DEF NoJob, JobRecord, Steps, Renaming, Names
<1> HIDE DEF j
<1>3. Moved(h, "rename_accounts", n) /\ "rename_accounts" \in Steps
  BY <1>1, <1>2 DEF Moved, Steps, Renaming
<1>4. GroupTypes /\ jobs[h].step \notin Renaming /\ "rename_accounts" \notin Counted
  BY <1>1 DEF GroupInv, Renaming, Counted
<1>5. /\ jobs' \in [Handlers -> JobRecord]
      /\ \A k \in Handlers : jobs'[k].step \in Renaming => jobs'[k].old # jobs'[k].new
      /\ Unmoved \subseteq Unmoved' /\ BeingRenamed \subseteq BeingRenamed'
      /\ n \in Unmoved' /\ n \in BeingRenamed'
      /\ CheckedAccounts' \subseteq CheckedAccounts /\ CheckedKeys' \subseteq CheckedKeys
  BY <1>1, <1>3, <1>4, MovedSets DEF Renaming
<1>6. KeyGroups' = KeyGroups /\ AccountNames(belongs)' = AccountNames(belongs)
  BY <1>1 DEF KeyGroups, AccountNames
<1>7. GroupTypes'
  BY <1>1, <1>4, <1>5 DEF GroupTypes, Names
<1> QED
  BY <1>1, <1>5, <1>6, <1>7, DeletedIsCounted DEF GroupInv, Named, Unnamed

LEMMA RenameAccountsGroups ==
    ASSUME GroupInv, NEW h \in Handlers, RenameAccounts(h)
    PROVE  GroupInv'
<1>0. PICK old, new : old = jobs[h].old /\ new = jobs[h].new
  OBVIOUS
<1> DEFINE renamed == [a \in Accounts |-> RenamedIn(belongs[a], old, new)]
           step == IF renamed = belongs THEN "rename_keys" ELSE "save_renamed"
<1>1. /\ UNCHANGED <<keys, groups, savedGroups, refused>> /\ jobs[h].step = "rename_accounts"
      /\ belongs' = renamed /\ Goes(h, step)
      /\ strays' = strays \cup (IF renamed = belongs THEN {} ELSE Astray({new}, CheckedAccounts))
  BY <1>0 DEF RenameAccounts, keyVars
<1>2. GroupTypes /\ old \in Names /\ new \in Names /\ old # new
  BY <1>0, <1>1 DEF GroupInv, GroupTypes, JobRecord, Renaming
<1>3. renamed \in [Accounts -> SUBSET Names]
  BY <1>2 DEF RenamedIn, GroupTypes
<1>4. \A a \in Accounts : renamed[a] \subseteq (belongs[a] \ {old}) \cup {new}
  BY DEF RenamedIn
<1> HIDE DEF renamed
<1>5. step \in Steps /\ step \in Renaming /\ step # "rename_accounts" /\ step \notin Counted
  BY DEF Steps, Renaming, Counted
<1> HIDE DEF step
<1>6. Moved(h, step, old)
  BY <1>0, <1>1, <1>2, <1>5, GoesMoves DEF Renaming
<1>7. /\ jobs' \in [Handlers -> JobRecord]
      /\ \A k \in Handlers : jobs'[k].step \in Renaming => jobs'[k].old # jobs'[k].new
      /\ Unmoved \subseteq Unmoved' \cup {old}
      /\ BeingRenamed \subseteq BeingRenamed' \cup {old} /\ old \in BeingRenamed'
      /\ CheckedAccounts' \subseteq CheckedAccounts /\ CheckedKeys' \subseteq CheckedKeys
  <2>1. step # "delete"
    BY <1>5 DEF Counted
  <2> QED
    BY <1>0, <1>2, <1>5, <1>6, <2>1, MovedSets
<1>8. /\ AccountNames(belongs)' \subseteq (AccountNames(belongs) \ {old}) \cup {new}
      /\ renamed = belongs => AccountNames(belongs)' = AccountNames(belongs)
  BY <1>1, <1>4 DEF AccountNames
<1>9. KeyGroups' = KeyGroups
  BY <1>1 DEF KeyGroups
<1>10. GroupTypes'
  BY <1>1, <1>2, <1>3, <1>7 DEF GroupTypes
<1> QED
  BY <1>1, <1>2, <1>7, <1>8, <1>9, <1>10 DEF GroupInv, Named, Unnamed, Astray

LEMMA SaveRenamedGroups ==
    ASSUME GroupInv, NEW h \in Handlers, NEW ok \in BOOLEAN, SaveRenamed(h, ok)
    PROVE  GroupInv'
<1> DEFINE step == IF ok THEN "rename_keys" ELSE "roll_back"
<1>1. /\ UNCHANGED <<keys, groups, belongs, strays, refused>> /\ jobs[h].step = "save_renamed"
      /\ savedGroups' \in {belongs, savedGroups} /\ Goes(h, step)
  BY DEF SaveRenamed, keyVars
<1>2. GroupTypes /\ jobs[h].step \in Renaming
  BY <1>1 DEF GroupInv, Renaming
<1>3. step \in Steps /\ step \in Renaming /\ step \notin Counted /\ step # "delete"
  BY DEF Steps, Renaming, Counted
<1> HIDE DEF step
<1>4. Moved(h, step, jobs[h].old)
  BY <1>1, <1>2, <1>3, GoesMoves
<1>5. /\ jobs' \in [Handlers -> JobRecord]
      /\ \A k \in Handlers : jobs'[k].step \in Renaming => jobs'[k].old # jobs'[k].new
      /\ Unmoved \subseteq Unmoved' /\ BeingRenamed \subseteq BeingRenamed'
      /\ CheckedAccounts' \subseteq CheckedAccounts /\ CheckedKeys' \subseteq CheckedKeys
  BY <1>1, <1>2, <1>3, <1>4, MovedSets
<1>6. KeyGroups' = KeyGroups /\ AccountNames(belongs)' = AccountNames(belongs)
  BY <1>1 DEF KeyGroups, AccountNames
<1>7. GroupTypes'
  BY <1>1, <1>2, <1>5 DEF GroupTypes
<1> QED
  BY <1>1, <1>5, <1>6, <1>7, NothingNamed

LEMMA RollBackGroups ==
    ASSUME GroupInv, NEW h \in Handlers, RollBack(h)
    PROVE  GroupInv'
<1>1. GroupTypes /\ Moved(h, "none", NoGroup) /\ "none" \in Steps
  BY EndsMoves DEF RollBack, GroupInv, Steps
<1>2. /\ jobs' \in [Handlers -> JobRecord]
      /\ \A k \in Handlers : jobs'[k].step \in Renaming => jobs'[k].old # jobs'[k].new
  BY <1>1, MovedSets
<1>3. jobs[h].old \in Names
  BY <1>1 DEF GroupTypes, JobRecord
<1>4. GroupTypes'
  BY <1>1, <1>2, <1>3 DEF RollBack, GroupTypes
<1> QED
  BY <1>4 DEF RollBack, GroupInv

(* The keys that named a group name another. *)
LEMMA RegroupGroups ==
    ASSUME KeyInv, NEW from, NEW to, keys' = Regrouped(from, to)
    PROVE  KeyGroups' \subseteq (KeyGroups \ {from}) \cup ({to} \ {NoGroup})
<1>1. \A i \in DOMAIN keys : [keys[i] EXCEPT !.group = to].group = to
  BY DEF KeyInv, KeyTypes, KeyRecord
<1>2. \A i \in DOMAIN keys :
         \/ keys'[i].group = to
         \/ keys'[i].group = keys[i].group /\ keys[i].group # from
  BY <1>1 DEF Regrouped
<1>3. DOMAIN keys' = DOMAIN keys
  BY DEF Regrouped
<1> QED
  BY <1>2, <1>3 DEF KeyGroups

LEMMA RenameKeysGroups ==
    ASSUME KeyInv, GroupInv, NEW h \in Handlers, RenameKeys(h)
    PROVE  GroupInv'
<1>0. PICK old, new : old = jobs[h].old /\ new = jobs[h].new
  OBVIOUS
<1>1. /\ UNCHANGED <<groups, belongs, savedGroups, refused>>
      /\ jobs[h].step = "rename_keys" /\ Ends(h) /\ keys' = Regrouped(old, new)
      /\ strays' = strays \cup (IF keys' = keys THEN {} ELSE Astray({new}, CheckedKeys))
  BY <1>0 DEF RenameKeys
<1>2. GroupTypes /\ old # new /\ jobs[h].step \in Renaming /\ jobs[h].step # "rename_accounts"
  BY <1>0, <1>1 DEF GroupInv, GroupTypes, Renaming
<1>3. KeyGroups' \subseteq (KeyGroups \ {old}) \cup {new}
      /\ (keys' = keys => KeyGroups' = KeyGroups)
  BY <1>1, RegroupGroups DEF KeyGroups
<1>4. Moved(h, "none", NoGroup) /\ "none" \in Steps /\ "none" \notin Counted
  BY <1>1, EndsMoves DEF Steps, Counted
<1>5. /\ jobs' \in [Handlers -> JobRecord]
      /\ \A k \in Handlers : jobs'[k].step \in Renaming => jobs'[k].old # jobs'[k].new
      /\ Unmoved \subseteq Unmoved' /\ BeingRenamed \subseteq BeingRenamed' \cup {old}
      /\ CheckedAccounts' \subseteq CheckedAccounts /\ CheckedKeys' \subseteq CheckedKeys
  BY <1>0, <1>2, <1>4, MovedSets
<1>6. AccountNames(belongs)' = AccountNames(belongs)
  BY <1>1 DEF AccountNames
<1>7. GroupTypes'
  BY <1>1, <1>2, <1>5 DEF GroupTypes
<1> QED
  BY <1>1, <1>2, <1>3, <1>5, <1>6, <1>7 DEF GroupInv, Named, Unnamed, Astray

---------------------------------------------------------------------------
(* A deletion, step by step.                                               *)

LEMMA DeleteGroupGroups ==
    ASSUME GroupInv, NEW h \in Handlers, NEW n \in GroupNames, NEW force \in BOOLEAN,
           DeleteGroup(h, n, force)
    PROVE  GroupInv'
<1> DEFINE step == IF force THEN "clear_accounts" ELSE "count_keys"
           j == [NoJob EXCEPT !.step = step, !.old = n]
<1>1. /\ UNCHANGED <<keys, groups, belongs, savedGroups, strays, refused>>
      /\ jobs[h].step = "none" /\ jobs' = [jobs EXCEPT ![h] = j]
      /\ step = "clear_accounts" \/ n \notin AccountNames(belongs)
  BY DEF DeleteGroup, Free, groupVars, keyVars
<1>2. step \in Steps /\ step \notin Renaming /\ step # "delete" /\ step # "rename_accounts"
      /\ (step = "clear_accounts" => step \notin Counted)
  BY DEF Steps, Renaming, Counted
<1>3. j \in JobRecord /\ j.step = step /\ j.old = n
  BY <1>2 DEF NoJob, JobRecord, Names
<1> HIDE DEF j, step
<1>4. Moved(h, step, n)
  BY <1>1, <1>2, <1>3 DEF Moved
<1>5. GroupTypes /\ jobs[h].step \notin Renaming
  BY <1>1 DEF GroupInv, Renaming
<1>6. /\ jobs' \in [Handlers -> JobRecord]
      /\ \A k \in Handlers : jobs'[k].step \in Renaming => jobs'[k].old # jobs'[k].new
      /\ Unmoved \subseteq Unmoved' /\ BeingRenamed \subseteq BeingRenamed'
      /\ CheckedAccounts' \subseteq CheckedAccounts \cup (IF step \in Counted THEN {n} ELSE {})
      /\ CheckedKeys' \subseteq CheckedKeys
  BY <1>1, <1>2, <1>4, <1>5, MovedSets
<1>7. KeyGroups' = KeyGroups /\ AccountNames(belongs)' = AccountNames(belongs)
  BY <1>1 DEF KeyGroups, AccountNames
<1>8. GroupTypes'
  BY <1>1, <1>5, <1>6 DEF GroupTypes
<1> QED
  BY <1>1, <1>2, <1>6, <1>7, <1>8 DEF GroupInv, Named, Unnamed

LEMMA CountKeysGroups ==
    ASSUME GroupInv, NEW h \in Handlers, CountKeys(h)
    PROVE  GroupInv'
<1>1. /\ UNCHANGED <<keys, groups, belongs, savedGroups, strays, refused>>
      /\ jobs[h].step = "count_keys"
      /\ Ends(h) \/ (Goes(h, "delete") /\ jobs[h].old \notin KeyGroups)
  BY DEF CountKeys, groupVars, keyVars
<1>2. GroupTypes /\ jobs[h].step \notin Renaming /\ jobs[h].step \in Counted
  BY <1>1 DEF GroupInv, Renaming, Counted
<1>3. \/ Moved(h, "none", NoGroup)
      \/ Moved(h, "delete", jobs[h].old) /\ jobs[h].old \notin KeyGroups
  BY <1>1, <1>2, EndsMoves, GoesMoves DEF Steps, Renaming, Counted
<1>4. /\ jobs' \in [Handlers -> JobRecord]
      /\ \A k \in Handlers : jobs'[k].step \in Renaming => jobs'[k].old # jobs'[k].new
      /\ Unmoved \subseteq Unmoved' /\ BeingRenamed \subseteq BeingRenamed'
      /\ CheckedAccounts' \subseteq CheckedAccounts
      /\ \A n \in CheckedKeys' : n \in CheckedKeys \/ n \notin KeyGroups
  BY <1>1, <1>2, <1>3, MovedSets DEF Steps, Counted
<1>5. KeyGroups' = KeyGroups /\ AccountNames(belongs)' = AccountNames(belongs)
  BY <1>1 DEF KeyGroups, AccountNames
<1>6. GroupTypes'
  BY <1>1, <1>2, <1>4 DEF GroupTypes
<1> QED
  BY <1>1, <1>4, <1>5, <1>6 DEF GroupInv, Named, Unnamed

LEMMA ClearAccountsGroups ==
    ASSUME GroupInv, NEW h \in Handlers, ClearAccounts(h)
    PROVE  GroupInv'
<1>0. PICK old : old = jobs[h].old
  OBVIOUS
<1> DEFINE step == IF belongs' = belongs THEN "clear_keys" ELSE "save_cleared"
<1>1. /\ UNCHANGED <<keys, groups, savedGroups, strays, refused>>
      /\ jobs[h].step = "clear_accounts" /\ Goes(h, step)
      /\ belongs' = [a \in Accounts |-> belongs[a] \ {old}]
  BY <1>0 DEF ClearAccounts, keyVars
<1>2. GroupTypes /\ jobs[h].step \notin Renaming /\ jobs[h].step # "rename_accounts"
  BY <1>1 DEF GroupInv, Renaming
<1>3. step \in Steps /\ step \notin Renaming /\ step # "delete"
  BY DEF Steps, Renaming, Counted
<1> HIDE DEF step
<1>4. Moved(h, step, old)
  BY <1>0, <1>1, <1>2, <1>3, GoesMoves
<1>5. /\ jobs' \in [Handlers -> JobRecord]
      /\ \A k \in Handlers : jobs'[k].step \in Renaming => jobs'[k].old # jobs'[k].new
      /\ Unmoved \subseteq Unmoved' /\ BeingRenamed \subseteq BeingRenamed'
      /\ CheckedAccounts' \subseteq CheckedAccounts \cup {old}
      /\ CheckedKeys' \subseteq CheckedKeys
  BY <1>2, <1>3, <1>4, MovedSets
<1>6. belongs' \in [Accounts -> SUBSET Names]
  BY <1>1, <1>2 DEF GroupTypes
<1>7. KeyGroups' = KeyGroups
  BY <1>1 DEF KeyGroups
<1>8. AccountNames(belongs)' \subseteq AccountNames(belongs) \ {old}
  BY <1>1 DEF AccountNames
<1>9. GroupTypes'
  BY <1>1, <1>2, <1>5, <1>6 DEF GroupTypes
<1> QED
  BY <1>1, <1>5, <1>7, <1>8, <1>9 DEF GroupInv, Named, Unnamed

LEMMA SaveClearedGroups ==
    ASSUME GroupInv, NEW h \in Handlers, NEW ok \in BOOLEAN, SaveCleared(h, ok)
    PROVE  GroupInv'
<1>1. /\ UNCHANGED <<keys, groups, belongs, strays, refused>> /\ jobs[h].step = "save_cleared"
      /\ savedGroups' \in {belongs, savedGroups} /\ (Goes(h, "clear_keys") \/ Ends(h))
  BY DEF SaveCleared, keyVars
<1>2. GroupTypes /\ jobs[h].step \notin Renaming /\ jobs[h].step \in Counted
  BY <1>1 DEF GroupInv, Renaming, Counted
<1>3. Moved(h, "none", NoGroup) \/ Moved(h, "clear_keys", jobs[h].old)
  BY <1>1, <1>2, EndsMoves, GoesMoves DEF Steps, Renaming, Counted
<1>4. /\ jobs' \in [Handlers -> JobRecord]
      /\ \A k \in Handlers : jobs'[k].step \in Renaming => jobs'[k].old # jobs'[k].new
      /\ Unmoved \subseteq Unmoved' /\ BeingRenamed \subseteq BeingRenamed'
      /\ CheckedAccounts' \subseteq CheckedAccounts /\ CheckedKeys' \subseteq CheckedKeys
  BY <1>1, <1>2, <1>3, MovedSets DEF Steps, Counted
<1>5. KeyGroups' = KeyGroups /\ AccountNames(belongs)' = AccountNames(belongs)
  BY <1>1 DEF KeyGroups, AccountNames
<1>6. GroupTypes'
  BY <1>1, <1>2, <1>4 DEF GroupTypes
<1> QED
  BY <1>1, <1>4, <1>5, <1>6, NothingNamed

LEMMA ClearKeysGroups ==
    ASSUME KeyInv, GroupInv, NEW h \in Handlers, ClearKeys(h)
    PROVE  GroupInv'
<1>0. PICK old : old = jobs[h].old
  OBVIOUS
<1>1. /\ UNCHANGED <<groups, belongs, savedGroups, strays, refused>>
      /\ jobs[h].step = "clear_keys" /\ Goes(h, "delete") /\ keys' = Regrouped(old, NoGroup)
  BY <1>0 DEF ClearKeys, groupVars
<1>2. GroupTypes /\ jobs[h].step \notin Renaming /\ jobs[h].step \in Counted
  BY <1>1 DEF GroupInv, Renaming, Counted
<1>3. KeyGroups' \subseteq KeyGroups \ {old}
  BY <1>1, RegroupGroups
<1>4. Moved(h, "delete", old)
  BY <1>0, <1>1, <1>2, GoesMoves DEF Steps, Renaming, Counted
<1>5. /\ jobs' \in [Handlers -> JobRecord]
      /\ \A k \in Handlers : jobs'[k].step \in Renaming => jobs'[k].old # jobs'[k].new
      /\ Unmoved \subseteq Unmoved' /\ BeingRenamed \subseteq BeingRenamed'
      /\ CheckedAccounts' \subseteq CheckedAccounts /\ CheckedKeys' \subseteq CheckedKeys \cup {old}
  BY <1>0, <1>1, <1>2, <1>4, MovedSets DEF Steps, Counted
<1>6. AccountNames(belongs)' = AccountNames(belongs)
  BY <1>1 DEF AccountNames
<1>7. GroupTypes'
  BY <1>1, <1>2, <1>5 DEF GroupTypes
<1> QED
  BY <1>1, <1>3, <1>5, <1>6, <1>7 DEF GroupInv, Named, Unnamed

LEMMA RemoveGroupGroups ==
    ASSUME GroupInv, NEW h \in Handlers, RemoveGroup(h)
    PROVE  GroupInv'
<1>0. PICK old : old = jobs[h].old
  OBVIOUS
<1>1. /\ UNCHANGED <<keys, belongs, savedGroups, strays, refused>>
      /\ jobs[h].step = "delete" /\ Ends(h) /\ groups' = groups \ {old}
  BY <1>0 DEF RemoveGroup, keyVars
<1>2. GroupTypes /\ jobs[h].step \notin Renaming /\ jobs[h].step \in Counted
  BY <1>1 DEF GroupInv, Renaming, Counted
<1>3. Moved(h, "none", NoGroup)
  BY <1>1, EndsMoves
<1>4. /\ jobs' \in [Handlers -> JobRecord]
      /\ \A k \in Handlers : jobs'[k].step \in Renaming => jobs'[k].old # jobs'[k].new
      /\ Unmoved \subseteq Unmoved' /\ BeingRenamed \subseteq BeingRenamed'
      /\ CheckedAccounts' \subseteq CheckedAccounts /\ CheckedKeys' \subseteq CheckedKeys
      /\ old \in CheckedAccounts /\ old \in CheckedKeys
  BY <1>0, <1>1, <1>2, <1>3, MovedSets DEF Steps, Counted
<1>5. KeyGroups' = KeyGroups /\ AccountNames(belongs)' = AccountNames(belongs)
  BY <1>1 DEF KeyGroups, AccountNames
<1>6. GroupTypes'
  BY <1>1, <1>2, <1>4 DEF GroupTypes
<1> QED
  BY <1>1, <1>4, <1>5, <1>6 DEF GroupInv, Named, Unnamed

(* The boot registers every name the saved credentials and the keys carry. *)
LEMMA RebootGroups ==
    ASSUME KeyInv, GroupInv, NEW p \in Nat, Reboot(p)
    PROVE  GroupInv'
<1> DEFINE s == Synced(keys, p)
<1>1. /\ keys' = s /\ jobs' = [h \in Handlers |-> NoJob]
      /\ belongs' = savedGroups /\ UNCHANGED savedGroups
      /\ groups' = groups \cup NamesInUse(savedGroups)
  BY DEF Reboot, BootNames
<1>2. /\ DOMAIN s \subseteq DOMAIN keys
      /\ \A i \in DOMAIN s : s[i].group = keys[i].group
  BY SyncedEntries
<1> HIDE DEF s
<1>3. KeyGroups' \subseteq KeyGroups
  BY <1>1, <1>2 DEF KeyGroups
<1>4. AccountNames(belongs)' = AccountNames(savedGroups)
  BY <1>1 DEF AccountNames
<1>5. (AccountNames(belongs) \cup KeyGroups)' \subseteq groups'
  BY <1>1, <1>3, <1>4 DEF NamesInUse
<1>6. /\ jobs' \in [Handlers -> JobRecord] /\ \A h \in Handlers : jobs'[h].step = "none"
  BY <1>1, NoJobIs
<1>7. CheckedAccounts' = {} /\ CheckedKeys' = {}
  BY <1>6 DEF CheckedAccounts, CheckedKeys, OldAt
<1>8. KeyGroups \subseteq Names /\ AccountNames(savedGroups) \subseteq Names
  BY DEF KeyGroups, AccountNames, KeyInv, KeyTypes, KeyRecord, GroupInv, GroupTypes
<1>9. groups' \subseteq Names
  BY <1>1, <1>8 DEF NamesInUse, GroupInv, GroupTypes
<1>10. GroupTypes'
  BY <1>1, <1>6, <1>9 DEF GroupInv, GroupTypes, Renaming
<1> QED
  BY <1>5, <1>7, <1>10 DEF GroupInv, Named, Unnamed

LEMMA RegistryInitInv ==
    ASSUME RegistryInit
    PROVE  RegistryInv
<1>1. /\ groups \subseteq GroupNames /\ belongs \in [Accounts -> SUBSET groups]
      /\ savedGroups = belongs /\ jobs = [h \in Handlers |-> NoJob] /\ strays = {}
      /\ keys = [i \in {SystemId} |-> Key(1, NoGroup, TRUE)] /\ apiKey = 1
  BY DEF RegistryInit
<1>2. \A i \in DOMAIN keys : keys[i].group = NoGroup
  BY <1>1 DEF Key
<1>3. KeyGroups = {} /\ AccountNames(belongs) \subseteq groups
  BY <1>1, <1>2 DEF KeyGroups, AccountNames
<1>4. jobs \in [Handlers -> JobRecord] /\ \A h \in Handlers : jobs[h].step = "none"
  BY <1>1, NoJobIs
<1>5. CheckedAccounts = {} /\ CheckedKeys = {}
  BY <1>4 DEF CheckedAccounts, CheckedKeys, OldAt
<1>6. GroupTypes
  BY <1>1, <1>4 DEF GroupTypes, Names, Renaming
<1>7. GroupInv
  BY <1>3, <1>5, <1>6 DEF GroupInv, Named, Unnamed
<1>8. ApiKeyKept
  BY <1>1 DEF ApiKeyKept, Key
<1> QED
  BY <1>7, <1>8, KeyInit DEF RegistryInv

LEMMA GroupStep ==
    ASSUME KeyInv, GroupInv, [RegistryNext]_registryVars
    PROVE  GroupInv'
<1>1. CASE KeyNext
  <2>1. ASSUME NEW g \in Names, CreateKey(g)
        PROVE  GroupInv'
    BY <2>1, CreateKeyGroups
  <2>2. ASSUME NEW i \in DOMAIN keys, DeleteKey(i) \/ \E b \in BOOLEAN : DisableKey(i, b)
        PROVE  GroupInv'
    BY <2>2, DeleteKeyGroups, DisableKeyGroups
  <2>3. ASSUME NEW h \in Handlers, NEW i \in DOMAIN keys, RotateKey(h, i)
        PROVE  GroupInv'
    BY <2>3, ConfigGroups
  <2>4. ASSUME NEW h \in Handlers, NEW b \in BOOLEAN,
               PersistApiKey(h, b) \/ LoadConfig(h) \/ SaveConfig(h)
        PROVE  GroupInv'
    BY <2>4, ConfigGroups
  <2>5. TRUE \in BOOLEAN
    OBVIOUS
  <2> QED
    BY <1>1, <2>1, <2>2, <2>3, <2>4, <2>5 DEF KeyNext, Names
<1>2. CASE GroupNext
  <2>1. ASSUME NEW n \in GroupNames, CreateGroup(n)
        PROVE  GroupInv'
    BY <2>1, CreateGroupGroups
  <2>2. ASSUME NEW i \in DOMAIN keys, NEW g \in Names, EditKey(i, g)
        PROVE  GroupInv'
    BY <2>2, EditKeyGroups
  <2>3. ASSUME NEW a \in Accounts, NEW S \in SUBSET GroupNames, AssignGroups(a, S)
        PROVE  GroupInv'
    BY <2>3, AssignGroupsGroups
  <2>4. ASSUME NEW h \in Handlers, NEW n \in GroupNames, NEW m \in GroupNames,
               RenameGroup(h, n, m)
        PROVE  GroupInv'
    BY <2>4, RenameGroupGroups
  <2>5. ASSUME NEW h \in Handlers, NEW n \in GroupNames, NEW b \in BOOLEAN, DeleteGroup(h, n, b)
        PROVE  GroupInv'
    BY <2>5, DeleteGroupGroups
  <2>6. ASSUME NEW h \in Handlers, NEW b \in BOOLEAN, SaveRenamed(h, b) \/ SaveCleared(h, b)
        PROVE  GroupInv'
    BY <2>6, SaveRenamedGroups, SaveClearedGroups
  <2>7. ASSUME NEW h \in Handlers,
               \/ RenameAccounts(h) \/ RollBack(h) \/ RenameKeys(h)
               \/ CountKeys(h) \/ ClearAccounts(h) \/ ClearKeys(h) \/ RemoveGroup(h)
        PROVE  GroupInv'
    BY <2>7, RenameAccountsGroups, RollBackGroups, RenameKeysGroups, CountKeysGroups,
       ClearAccountsGroups, ClearKeysGroups, RemoveGroupGroups
  <2> QED
    BY <1>2, <2>1, <2>2, <2>3, <2>4, <2>5, <2>6, <2>7, SaveAccountsGroups DEF GroupNext, Names
<1>3. ASSUME NEW p \in BootTexts, Reboot(p)
      PROVE  GroupInv'
  BY <1>3, BootPlain, RebootGroups
<1>4. CASE UNCHANGED registryVars
  <2>1. UNCHANGED <<groups, belongs, savedGroups, keys, jobs, strays, refused>>
    BY <1>4 DEF registryVars, groupVars, keyVars
  <2>2. KeyGroups' = KeyGroups /\ AccountNames(belongs)' = AccountNames(belongs)
    BY <2>1 DEF KeyGroups, AccountNames
  <2>3. UNCHANGED JobSets /\ GroupTypes'
    BY <2>1, JobsRest DEF GroupInv, GroupTypes
  <2> QED
    BY <2>1, <2>2, <2>3, NothingNamed DEF JobSets
<1> QED
  BY <1>1, <1>2, <1>3, <1>4 DEF RegistryNext

---------------------------------------------------------------------------
(* The theorems.                                                           *)

(* Keys and groups have their types, ids and plaintexts are below their    *)
(* counters, byKey is the inverse of the entries, no entry holds a revoked *)
(* plaintext, config.json has the system key unless a write was lost or is *)
(* to come, every name in use is registered, stray or still to be renamed, *)
(* and no deletion is about to remove a name that is in use and not stray; *)
(* with any number of handlers under way at once.                          *)
THEOREM RegistryInvariant == RegistrySpec => []RegistryInv
<1>1. RegistryInit => RegistryInv
  BY RegistryInitInv
<1>2. RegistryInv /\ [RegistryNext]_registryVars => RegistryInv'
  BY KeyStep, ApiKeyStep, GroupStep DEF RegistryInv, GroupInv
<1> QED
  BY <1>1, <1>2, PTL DEF RegistrySpec

(* by_key and the entries are inverse to each other through every create,  *)
(* delete, rotate, edit and boot, so create_with_key's expect never fires  *)
(* and no two keys share a plaintext.                                      *)
THEOREM IndexAndEntriesAgree == RegistrySpec => []KeyIndexExact
<1>1. RegistryInv => KeyIndexExact
  BY DEF RegistryInv, KeyInv, IsIndex, KeyIndexExact
<1> QED
  BY <1>1, RegistryInvariant, PTL

(* A plaintext that was rotated out, deleted or replaced by config.json    *)
(* authenticates nobody, over restarts too, until an operator writes it    *)
(* into config.json, or a boot follows a write of the system key that was  *)
(* lost or overtaken or did not come before the process died.              *)
THEOREM RevokedNeverAuthenticates == RegistrySpec => []RevokedStaysDead
<1>1. RegistryInv => RevokedStaysDead
  BY DEF RegistryInv, KeyInv, NoneRevoked, RevokedStaysDead, Authenticates
<1> QED
  BY <1>1, RegistryInvariant, PTL

(* At every moment, whichever handlers run at once, every group a key or a *)
(* credential names is registered or is being renamed; but for the names   *)
(* that were given unregistered since boot, or when a deletion of them had *)
(* counted or cleared, and up to a rename that was refused.                *)
THEOREM NamedGroupsAreRegistered == RegistrySpec => []RegistryConsistent
<1>1. Unmoved \subseteq BeingRenamed
  BY DEF Unmoved, BeingRenamed, OldAt
<1>2. RegistryInv => RegistryConsistent
  BY <1>1 DEF RegistryInv, GroupInv, Named, RegistryConsistent, NamesInUse
<1> QED
  BY <1>2, RegistryInvariant, PTL

==============================================================================
