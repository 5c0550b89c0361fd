-------------------------- MODULE RegistryDocument --------------------------
(***************************************************************************)
(* What a verifier makes of one registry document: the threshold of pinned *)
(* signatures, the timestamps, and the validity window                     *)
(* (quiethop-crypto/src/registry.rs), against the documents the authority  *)
(* writes (authority/internal/registry/document.go).  The authority's      *)
(* clock walks the calendar one day at a time, both ways from the epoch;   *)
(* on chosen days an envelope reaches a verifier, whose clock differs.     *)
(*                                                                         *)
(* A time in Unix seconds is the pair of its day and its second of the     *)
(* day, the form in which it fits TLC's integers.                          *)
(***************************************************************************)
EXTENDS Integers, Sequences, FiniteSets

CONSTANTS
    Keys,          \* registry signing keys, each with its key id
    Pinned,        \* the keys the verifier pinned
    Threshold,     \* signatures from pinned keys it asks for
    FirstDay,      \* the walk stays in FirstDay..LastDay
    LastDay,
    DeliveryDays,  \* days on which envelopes are delivered
    Hours,         \* hours of publication tried on those days
    Offsets,       \* seconds from the hour's start to the verifier's clock
    MaxEntries     \* signature entries of an envelope at most

ASSUME DocumentAssumption ==
    /\ IsFiniteSet(Keys) /\ Pinned \subseteq Keys
    /\ Threshold \in Nat
    /\ FirstDay \in Int /\ LastDay \in Int
    /\ FirstDay <= 0 /\ LastDay >= 0
    /\ DeliveryDays \subseteq Int /\ Hours \subseteq 0..23 /\ Offsets \subseteq Int
    /\ MaxEntries \in Nat

VARIABLES
    date,        \* today in the calendar: year, month and day
    day,         \* days since 1970-01-01
    delivered    \* the last delivery: {} or its envelope, clock and outcome

calendarVars == <<date, day, delivered>>

(***************************************************************************)
(* Instants.                                                               *)
(***************************************************************************)
Unix(d, s) == <<d + s \div 86400, s % 86400>>
Plus(t, s) == Unix(t[1], t[2] + s)
Before(a, b) == a[1] < b[1] \/ (a[1] = b[1] /\ a[2] < b[2])

(***************************************************************************)
(* The Gregorian calendar, as Go's time package and everyone else has it.  *)
(***************************************************************************)
LeapYear(y) == y % (IF y % 100 = 0 THEN 400 ELSE 4) = 0
MonthLength(y, m) ==
    <<31, IF LeapYear(y) THEN 29 ELSE 28, 31, 30, 31, 30, 31, 31, 30, 31, 30, 31>>[m]

Ymd(y, m, d) == [y |-> y, mo |-> m, d |-> d]
Following(c) ==
    IF c.d < MonthLength(c.y, c.mo) THEN Ymd(c.y, c.mo, c.d + 1)
    ELSE IF c.mo < 12 THEN Ymd(c.y, c.mo + 1, 1)
    ELSE Ymd(c.y + 1, 1, 1)
Preceding(c) ==
    IF c.d > 1 THEN Ymd(c.y, c.mo, c.d - 1)
    ELSE IF c.mo > 1 THEN Ymd(c.y, c.mo - 1, MonthLength(c.y, c.mo - 1))
    ELSE Ymd(c.y - 1, 12, 31)

(***************************************************************************)
(* Timestamps.  A text is the numbers in its six fields; `shape` is false  *)
(* when the separators are wrong or a field is no number.                  *)
(***************************************************************************)
Text(c, h, mi, s) ==
    [shape |-> TRUE, y |-> c.y, mo |-> c.mo, d |-> c.d, h |-> h, mi |-> mi, sec |-> s]

\* Mutant: every fourth year, centuries included.
is_leap_year_Julian(y) == y % 4 = 0

is_leap_year(y) == (y % 4 = 0 /\ y % 100 # 0) \/ y % 400 = 0

days_in_month(y, m) ==
    IF m \in {1, 3, 5, 7, 8, 10, 12} THEN 31
    ELSE IF m \in {4, 6, 9, 11} THEN 30
    ELSE IF m # 2 THEN 0
    ELSE IF is_leap_year(y) THEN 29 ELSE 28

\* Mutant: February is not counted with the year before.
days_from_civil_JanuaryOnly(yr, m, d) ==
    LET y   == IF m < 2 THEN yr - 1 ELSE yr
        era == y \div 400
        yoe == y - era * 400
    IN  era * 146097 + yoe * 365 + yoe \div 4 - yoe \div 100
            + (153 * ((m + 9) % 12) + 2) \div 5 + d - 1 - 719468

\* Days since 1970-01-01.  The code's truncating division rounds down too:
\* it subtracts 399 from a negative year first.
days_from_civil(yr, m, d) ==
    LET y   == IF m <= 2 THEN yr - 1 ELSE yr
        era == y \div 400
        yoe == y - era * 400
        mp  == (m + 9) % 12
        doy == (153 * mp + 2) \div 5 + d - 1
        doe == yoe * 365 + yoe \div 4 - yoe \div 100 + doy
    IN  era * 146097 + doe - 719468

\* The instants a text stands for: none or one.
parse_rfc3339(s) ==
    IF /\ s.shape
       /\ s.mo \in 1..12 /\ s.h <= 23 /\ s.mi <= 59 /\ s.sec <= 60
       /\ s.d >= 1 /\ s.d <= days_in_month(s.y, s.mo)
    THEN {Unix(days_from_civil(s.y, s.mo, s.d), s.h * 3600 + s.mi * 60 + s.sec)}
    ELSE {}

(***************************************************************************)
(* Verification.                                                           *)
(***************************************************************************)
SkewAllowance == 60

is_usable_at(doc, now) ==
    \E after \in parse_rfc3339(doc.valid_after), until \in parse_rfc3339(doc.valid_until) :
        /\ ~Before(Plus(now, SkewAllowance), after)
        /\ Before(now, until)

\* Mutant: no allowance for a clock behind the authority's.
check_validity_NoSkew(doc, now) ==
    \E after \in parse_rfc3339(doc.valid_after), until \in parse_rfc3339(doc.valid_until) :
        /\ Before(after, until)
        /\ after[2] % 3600 = 0
        /\ doc.version = after[1] * 24 + after[2] \div 3600
        /\ ~Before(now, after)
        /\ Before(now, until)

check_validity(doc, now) ==
    \E after \in parse_rfc3339(doc.valid_after), until \in parse_rfc3339(doc.valid_until) :
        /\ Before(after, until)
        /\ after[2] % 3600 = 0
        /\ doc.version = after[1] * 24 + after[2] \div 3600
        /\ ~Before(Plus(now, SkewAllowance), after)
        /\ Before(now, until)

\* Mutant: every good entry counts, so that one key can sign twice.
Signatures_ByEntry(entries) ==
    Cardinality({i \in DOMAIN entries : entries[i].key \in Pinned /\ entries[i].good})

\* verify's set of accepted key ids: entries of other keys and entries that
\* do not decode or verify are passed over.
Signatures(entries) ==
    Cardinality({k \in Pinned : \E i \in DOMAIN entries :
                                    entries[i].key = k /\ entries[i].good})

verify(env, now) ==
    /\ Threshold # 0
    /\ Threshold <= Signatures(env.signatures)
    /\ check_validity(env.document, now)

(***************************************************************************)
(* The authority's side: HourOf, VersionFor and stamp.                     *)
(***************************************************************************)
Published(h) ==
    [version |-> day * 24 + h,
     valid_after |-> Text(date, h, 0, 0),
     valid_until |-> IF h + 6 < 24 THEN Text(date, h + 6, 0, 0)
                     ELSE Text(Following(date), h - 18, 0, 0)]

\* The documents a verifier may be shown: the published one, and signed ones
\* no authority of this code writes.
Documents(h) ==
    LET doc == Published(h)
    IN  {doc,
         [doc EXCEPT !.version = @ + 24],
         [doc EXCEPT !.valid_after.mi = 30],
         [doc EXCEPT !.valid_until = doc.valid_after],
         [doc EXCEPT !.valid_until.shape = FALSE],
         [doc EXCEPT !.valid_after.d = MonthLength(date.y, date.mo) + 1]}

Entries == UNION {[1..n -> [key : Keys, good : BOOLEAN]] : n \in 0..MaxEntries}

CalendarInit ==
    /\ date = Ymd(1970, 1, 1)
    /\ day = 0
    /\ delivered = {}

Tomorrow ==
    /\ day < LastDay
    /\ date' = Following(date) /\ day' = day + 1
    /\ delivered' = {}

Yesterday ==
    /\ day > FirstDay
    /\ date' = Preceding(date) /\ day' = day - 1
    /\ delivered' = {}

Deliver(h, off, doc, entries) ==
    LET env == [document |-> doc, signatures |-> entries]
        now == Unix(day, h * 3600 + off)
    IN  /\ delivered' = {[hour |-> h, env |-> env, now |-> now, ok |-> verify(env, now)]}
        /\ UNCHANGED <<date, day>>

\* One envelope a day; verify keeps nothing between two of them.
DeliverToday ==
    /\ day \in DeliveryDays /\ delivered = {}
    /\ \E h \in Hours, off \in Offsets, entries \in Entries :
           \E doc \in Documents(h) : Deliver(h, off, doc, entries)

CalendarNext == Tomorrow \/ Yesterday \/ DeliverToday

CalendarSpec == CalendarInit /\ [][CalendarNext]_calendarVars

(***************************************************************************)
(* Properties.                                                             *)
(***************************************************************************)

\* days_from_civil counts days: whatever date the calendar shows, the text of
\* an instant of that day parses to the days and seconds that have passed
\* since the epoch, across leap days, centuries and years before 1970.
CountsDays ==
    \A h \in 0..23, mi \in {0, 59}, s \in {0, 59} :
        parse_rfc3339(Text(date, h, mi, s)) = {<<day, h * 3600 + mi * 60 + s>>}

\* parse_rfc3339 knows the length of this month: it takes the last day and
\* refuses the one after it, instead of rolling into the next month.
KnowsMonthEnd ==
    LET n == MonthLength(date.y, date.mo)
    IN  /\ parse_rfc3339(Text([date EXCEPT !.d = n], 0, 0, 0)) # {}
        /\ parse_rfc3339(Text([date EXCEPT !.d = n + 1], 0, 0, 0)) = {}
        /\ parse_rfc3339(Text([date EXCEPT !.d = 0], 0, 0, 0)) = {}

\* A clock at most a minute behind the start of hour h, or less than six
\* hours after it.
Timely(now, h) ==
    /\ ~Before(now, Plus(<<day, h * 3600>>, -60))
    /\ Before(now, Plus(<<day, h * 3600>>, 21600))

\* As many good entries of different pinned keys as the verifier asks for.
SignedEnough(entries) ==
    /\ Threshold > 0
    /\ Threshold <= Cardinality({k \in Pinned :
                        [key |-> k, good |-> TRUE] \in {entries[i] : i \in DOMAIN entries}})

\* What the authority publishes for an hour, signed by enough pinned keys, is
\* verified by every verifier whose clock is at most a minute behind the hour
\* or within six hours after it: Go's calendar and the client's agree.
AuthorityVerifies ==
    \A x \in delivered :
        /\ x.env.document = Published(x.hour)
        /\ SignedEnough(x.env.signatures)
        /\ Timely(x.now, x.hour)
        => x.ok

\* What is verified may be used then: a threshold of different pinned keys
\* signed it, its version is the hour its timestamp names, and is_usable_at,
\* which every later use repeats, agrees with the check made on receipt.
VerifiedIsUsable ==
    \A x \in delivered : x.ok =>
        /\ \E ks \in SUBSET Pinned :
               /\ Cardinality(ks) = Threshold /\ ks # {}
               /\ \A k \in ks : \E i \in DOMAIN x.env.signatures :
                      x.env.signatures[i] = [key |-> k, good |-> TRUE]
        /\ x.env.document.version = day * 24 + x.hour
        /\ is_usable_at(x.env.document, x.now)
=============================================================================
