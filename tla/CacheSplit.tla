----------------------------- MODULE CacheSplit -----------------------------
(***************************************************************************)
(* How the tokens of a prompt are told apart in a bill: as fresh input, as *)
(* written to the prompt cache and as read from it                         *)
(* (src/anthropic/cache_force.rs; split_against_total of                   *)
(* src/anthropic/cache_metering.rs).  The ratios are percentages here, and *)
(* f64 arithmetic is exact on the numbers a run uses.                      *)
(***************************************************************************)
EXTENDS Integers, FiniteSetsExt

\* round() of n / d, halves away from zero, for n >= 0 and d > 0.
Rounded(n, d) == (2 * n + d) \div (2 * d)
AtMost(n, cap) == IF n > cap THEN cap ELSE n
AtLeast(n, low) == IF n < low THEN low ELSE n

Split(input, creation, read) == [input |-> input, creation |-> creation, read |-> read]
AllInput(total) == Split(total, 0, 0)

\* clamped: what load and update let through.
Clamped(s) ==
    [s EXCEPT !.creation = AtMost(AtLeast(@, 0), 100), !.hit = AtMost(AtLeast(@, 0), 100),
              !.cacheable = AtMost(AtLeast(@, 0), 100)]

\* split_against_total: usage is in the units of the estimate, total is not.
SplitAgainstTotal(usage, total) ==
    IF usage.covered <= 0 \/ usage.prompt <= 0 THEN AllInput(total)
    ELSE LET cached == AtMost(Rounded(total * AtMost(usage.covered, usage.prompt), usage.prompt), total)
             read == AtMost(Rounded(cached * usage.read, usage.covered), cached)
         IN  Split(total - cached, cached - read, read)

\* simulate: what creation leaves of the cap; one token stays fresh input.
ReadUncapped(creation, read, cap) == read                       \* mutant
ReadCapped(creation, read, cap) ==
    IF creation + read > cap THEN AtLeast(cap - creation, 0) ELSE read

Simulate(s, total) ==
    IF total <= 1 THEN AllInput(total)
    ELSE LET base == AtMost(Rounded(total * s.cacheable, 100), total - 1)
             creation0 == Rounded(base * s.creation, 100)
             read0 == Rounded(base * s.hit, 100)
             sum == creation0 + read0
             creation1 == IF sum > base THEN Rounded(creation0 * base, sum) ELSE creation0
             read1 == IF sum > base THEN Rounded(read0 * base, sum) ELSE read0
             creation == AtMost(creation1, total - 1)
             read == ReadCapped(creation, read1, total - 1)
         IN  Split(AtLeast(total - creation - read, 1), creation, read)

\* resolve: the four modes; official is what the upstream reported, or a
\* record of zeros, which counts as absent.
Resolve(s, usage, total, official) ==
    CASE s.mode = "off" -> AllInput(total)
      [] s.mode = "auto" -> SplitAgainstTotal(usage, total)
      [] s.mode = "force" -> Simulate(s, total)
      [] s.mode = "official" ->
            IF official.input + official.creation + official.read > 0 THEN official
            ELSE AllInput(total)

\* The two buckets of cache_creation, by the longest ttl of the request.
Buckets(creation, long) == [fiveMinutes |-> IF long THEN 0 ELSE creation,
                            oneHour |-> IF long THEN creation ELSE 0]
=============================================================================
