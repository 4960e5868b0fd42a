----------------------------- MODULE NativeCard -----------------------------
(***************************************************************************)
(* The native card renderer (splash-native: fetch.rs, lib.rs, node.rs and  *)
(* its Java side).                                                         *)
(*                                                                         *)
(* Evaluating a card reads fields of live sources, one request after the   *)
(* other, through a cache of responses that is consulted under its lock    *)
(* and filled after the request; the tree it yields is encoded into one    *)
(* buffer that Java decodes.  Every creation of the activity starts a      *)
(* thread that does all of it, so evaluations overlap.                     *)
(*                                                                         *)
(* Two parts that share no state: the evaluations, and a walk over the     *)
(* calendar for the weekday of a forecast's date.  The trees that cross    *)
(* the buffer are NodeBuffer's.                                            *)
(***************************************************************************)
EXTENDS Integers, Sequences, FiniteSets, SequencesExt

CONSTANTS Renders,     \* evaluations
          Forecasts,   \* what the weather service answers, version after version
          Symbols,     \* the universe of a movers list, best first
          Fields,      \* the fields cards read
          MaxReads,    \* bound: reads of one evaluation
          FirstDay, LastDay  \* bounds: the dates walked, <<year, month, day>>

ASSUME NativeCardAssumption ==
    /\ Forecasts \in Seq([code : 0 .. 99, lo : Seq(Int), hi : Seq(Int), date : Int \X Int \X Int])
    /\ Forecasts # <<>> /\ MaxReads \in Nat
    /\ Symbols \in Seq(ToSet(Symbols)) /\ ToSet(Symbols) \cap {"forecast", "none"} = {}
    /\ Fields \subseteq {"cond", "word", "day", "min", "max", "dayname", "leader", "price"}

VARIABLES service,  \* the version the weather service answers now
          cache,    \* CACHE: URL -> version of the response, 0: none
          evals,    \* per evaluation: the read under way, what was read, its stage
          clash,    \* URLs two evaluations asked for at once
          buffer,   \* whose tree BUF holds
          date      \* the day the calendar walk has reached, and its weekday

cardReads == <<service, cache, evals, clash, buffer>>
nativeVars == <<service, cache, evals, clash, buffer, date>>

(***************************************************************************)
(* Pure helpers.                                                           *)
(***************************************************************************)
CondOf(code) ==
    CASE code = 0 -> "clear"
      [] code \in {1, 2} -> "partly"
      [] code = 3 -> "cloudy"
      [] code \in {45, 48} -> "fog"
      [] code \in 51 .. 57 \cup 61 .. 67 \cup 80 .. 82 -> "rain"
      [] code \in 71 .. 77 \cup {85, 86} -> "snow"
      [] code \in 95 .. 99 -> "storm"
      [] OTHER -> "partly"

WordOf(code) ==
    CASE code = 0 -> "Clear"
      [] code = 1 -> "Mainly Clear"
      [] code = 2 -> "Partly Cloudy"
      [] code = 3 -> "Overcast"
      [] code \in {45, 48} -> "Fog"
      [] code \in 51 .. 57 -> "Drizzle"
      [] code \in 61 .. 67 -> "Rain"
      [] code \in 71 .. 77 -> "Snow"
      [] code \in 80 .. 82 -> "Showers"
      [] code \in {85, 86} -> "Snow Showers"
      [] code \in 95 .. 99 -> "Thunderstorm"
      [] OTHER -> "dash"

\* Mutant: every fourth year is a leap year.
DaysNoCentury(y0, m, d) ==
    LET y == IF m <= 2 THEN y0 - 1 ELSE y0
        era == y \div 400
        yoe == y - era * 400
        mp == IF m > 2 THEN m - 3 ELSE m + 9
        doy == (153 * mp + 2) \div 5 + d - 1 IN
    era * 146097 + (yoe * 365 + yoe \div 4 + doy) - 719468

(* Days since 1970-01-01 in the proleptic Gregorian calendar, by 400-year  *)
(* eras that start in March.                                               *)
DaysFromCivil(y0, m, d) ==
    LET y == IF m <= 2 THEN y0 - 1 ELSE y0
        era == y \div 400
        yoe == y - era * 400
        mp == IF m > 2 THEN m - 3 ELSE m + 9
        doy == (153 * mp + 2) \div 5 + d - 1 IN
    era * 146097 + (yoe * 365 + yoe \div 4 - yoe \div 100 + doy) - 719468

DayName(d) == <<"Sun", "Mon", "Tue", "Wed", "Thu", "Fri", "Sat">>
                 [((DaysFromCivil(d[1], d[2], d[3]) + 4) % 7) + 1]

Extent(q, wantMax) ==
    CHOOSE t \in ToSet(q) : \A u \in ToSet(q) : IF wantMax THEN u <= t ELSE u >= t

(***************************************************************************)
(* A field is answered from the responses it needs, in order; while one is *)
(* missing the field has its default.                                      *)
(***************************************************************************)
Weather == Fields \ {"leader", "price"}
Needs(f) == IF f \in Weather THEN <<"forecast">> ELSE Symbols

(* The rows of a movers list are those whose quote answered, best first;   *)
(* each field of a row is a read of its own over a list of its own.        *)
Rows(have) == SelectSeq(Symbols, LAMBDA s : have[s] # 0)

Value(f, have) ==
    LET v == have["forecast"]
        w == Forecasts[v] IN
    CASE f = "cond" -> IF v = 0 THEN "partly" ELSE CondOf(w.code)
      [] f = "word" -> IF v = 0 THEN "dash" ELSE WordOf(w.code)
      [] f = "day" -> IF v = 0 THEN -9999 ELSE w.lo[Len(w.lo)]
      [] f = "min" -> IF v = 0 THEN 0 ELSE Extent(w.lo, FALSE)
      [] f = "max" -> IF v = 0 THEN 30 ELSE Extent(w.hi, TRUE)
      [] f = "dayname" -> IF v = 0 THEN "dash" ELSE DayName(w.date)
      [] OTHER -> IF Rows(have) = <<>> THEN "dash" ELSE Rows(have)[1]

Urls == {"forecast"} \cup ToSet(Symbols)
NoAnswers == [u \in Urls |-> 0]
Start == [stage |-> "new", field |-> "none", todo |-> <<>>, asks |-> "none",
          have |-> NoAnswers, got |-> <<>>, failed |-> FALSE]

NativeInit ==
    /\ service = 1
    /\ cache = NoAnswers
    /\ evals = [r \in Renders |-> Start]
    /\ clash = {}
    /\ buffer = "none"
    /\ date = FirstDay

(* onCreate: a thread evaluates the card. *)
CreateView(r) ==
    /\ evals[r].stage = "new"
    /\ evals' = [evals EXCEPT ![r].stage = "eval"]
    /\ UNCHANGED <<service, cache, clash, buffer>>

ReadField(r, f) ==
    /\ evals[r].stage = "eval" /\ evals[r].field = "none"
    /\ Len(evals[r].got) < MaxReads
    /\ evals' = [evals EXCEPT ![r].field = f, ![r].todo = Needs(f), ![r].have = NoAnswers]
    /\ UNCHANGED <<service, cache, clash, buffer>>

Next1(r) == Head(evals[r].todo)
Ready(r) == evals[r].field # "none" /\ evals[r].asks = "none" /\ evals[r].todo # <<>>

Hit(r) ==
    /\ Ready(r) /\ cache[Next1(r)] # 0
    /\ evals' = [evals EXCEPT ![r].todo = Tail(@), ![r].have[Next1(r)] = cache[Next1(r)]]
    /\ UNCHANGED <<service, cache, clash, buffer>>

(* A miss is asked for with the lock released. *)
AskFor(r) ==
    /\ Ready(r) /\ cache[Next1(r)] = 0
    /\ evals' = [evals EXCEPT ![r].asks = Next1(r)]
    /\ clash' = IF \E q \in Renders : evals[q].asks = Next1(r)
                  THEN clash \cup {Next1(r)} ELSE clash
    /\ UNCHANGED <<service, cache, buffer>>

Version(u) == IF u = "forecast" THEN service ELSE 1

Answers(r, u, v) ==
    [evals EXCEPT ![r].asks = "none", ![r].todo = Tail(@), ![r].have[u] = v]

\* Mutant: the answer is not kept.
InsertNothing(u, v) == cache

Insert(u, v) == [cache EXCEPT ![u] = v]

Answered(r) ==
    LET u == evals[r].asks IN
    /\ u # "none"
    /\ cache' = Insert(u, Version(u))
    /\ evals' = Answers(r, u, Version(u))
    /\ UNCHANGED <<service, clash, buffer>>

(* A request that fails or times out is not remembered. *)
FailedRead(r) ==
    /\ evals[r].asks # "none"
    /\ evals' = [Answers(r, evals[r].asks, 0) EXCEPT ![r].failed = TRUE]
    /\ UNCHANGED <<service, cache, clash, buffer>>

ReadEnds(r) ==
    /\ evals[r].field # "none" /\ evals[r].todo = <<>> /\ evals[r].asks = "none"
    /\ evals' = [evals EXCEPT ![r].field = "none",
                  ![r].got = Append(@, [field |-> evals[r].field,
                                        value |-> Value(evals[r].field, evals[r].have)])]
    /\ UNCHANGED <<service, cache, clash, buffer>>

(* renderCard encodes into BUF, dropping the buffer of the one before;     *)
(* Java decodes it later, on its UI thread.                                *)
Encode(r) ==
    /\ evals[r].stage = "eval" /\ evals[r].field = "none"
    /\ buffer' = r
    /\ evals' = [evals EXCEPT ![r].stage = "encoded"]
    /\ UNCHANGED <<service, cache, clash>>

ShowTree(r) ==
    /\ evals[r].stage = "encoded"
    /\ evals' = [evals EXCEPT ![r].stage = IF buffer = r THEN "shown" ELSE "freed"]
    /\ UNCHANGED <<service, cache, clash, buffer>>

ServiceMoves ==
    /\ service < Len(Forecasts)
    /\ service' = service + 1
    /\ UNCHANGED <<cache, evals, clash, buffer>>

CardNext ==
    \/ ServiceMoves
    \/ \E r \in Renders :
         \/ CreateView(r) \/ Hit(r) \/ AskFor(r) \/ Answered(r) \/ FailedRead(r) \/ ReadEnds(r)
         \/ Encode(r) \/ ShowTree(r)
         \/ \E f \in Fields : ReadField(r, f)

(***************************************************************************)
(* The calendar: the day after a date, by the rule everyone knows.         *)
(***************************************************************************)
Leap(y) == (y % 4 = 0 /\ y % 100 # 0) \/ y % 400 = 0
LastOf(y, m) == CASE m = 2 -> IF Leap(y) THEN 29 ELSE 28
                  [] m \in {4, 6, 9, 11} -> 30
                  [] OTHER -> 31

Dates == {d \in Int \X (1 .. 12) \X (1 .. 31) : d[3] <= LastOf(d[1], d[2])}
ASSUME CalendarAssumption == FirstDay \in Dates

Tomorrow(d) ==
    IF d[3] < LastOf(d[1], d[2]) THEN <<d[1], d[2], d[3] + 1>>
    ELSE IF d[2] < 12 THEN <<d[1], d[2] + 1, 1>> ELSE <<d[1] + 1, 1, 1>>

DayPasses == date # LastDay /\ date' = Tomorrow(date)

NativeNext ==
    \/ CardNext /\ UNCHANGED date
    \/ DayPasses /\ UNCHANGED cardReads

-----------------------------------------------------------------------------
(* The types. *)
NativeTypeOK ==
    /\ service \in 1 .. Len(Forecasts)
    /\ cache \in [Urls -> 0 .. Len(Forecasts)]
    /\ clash \subseteq Urls
    /\ \A r \in Renders : Len(evals[r].got) <= MaxReads
                          /\ evals[r].asks \in Urls \cup {"none"}

(* However the service changes meanwhile, what one card shows of the sky   *)
(* and of the week is of one forecast: unless a request failed, or another *)
(* evaluation asked for it at the same time (the cache of fetch.rs).       *)
ReadsAgree ==
    \A r \in Renders : (~evals[r].failed /\ "forecast" \notin clash) =>
      \E v \in 1 .. Len(Forecasts) :
         \A i \in DOMAIN evals[r].got :
            evals[r].got[i].field \in Weather =>
               evals[r].got[i].value = Value(evals[r].got[i].field, [NoAnswers EXCEPT !["forecast"] = v])

(* The weekday of a forecast's date moves on by one from each day to the   *)
(* next, over month ends, leap days and centuries (days_from_civil).       *)
CalendarAgrees ==
    [][DaysFromCivil(date'[1], date'[2], date'[3])
         = DaysFromCivil(date[1], date[2], date[3]) + 1]_date

=============================================================================
