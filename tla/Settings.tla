------------------------------ MODULE Settings ------------------------------
(***************************************************************************)
(* What a run is started with: the checks of Config.Validate (config.go),  *)
(* ParseGCSURL (state_gcs.go), the choice of the mode and of the exit code *)
(* (main.go) and the numbers derived from --workers and --max-retries      *)
(* (clients.go, transfer.go), with the theorems that the validated values  *)
(* are those the other modules assume and that the numbers derived from    *)
(* them stay in range.  A string is an empty or a non-empty one, a URL a   *)
(* scheme and the pieces between its slashes.                              *)
(***************************************************************************)
EXTENDS Integers, Sequences, SequenceTheorems, TLAPS

CONSTANTS Piece,  \* the texts between two slashes of a URL
          Empty   \* the empty one

Required == {"WasabiEndpoint", "WasabiRegion", "WasabiAccessKey",
             "WasabiSecretKey", "WasabiBucket", "GCSBucket"}

(* gs says that the URL starts with gs://; pieces is the rest of it, split *)
(* at every slash.                                                         *)
URLs == [gs : BOOLEAN, pieces : Seq(Piece) \ {<<>>}]

Configs == [given : SUBSET Required, Workers : Int, MaxRetries : Int,
            endpointParses : BOOLEAN,
            hasStateGCS : BOOLEAN, StateGCS : URLs,
            hasStateDir : BOOLEAN, stateDirWritable : BOOLEAN,
            DryRun : BOOLEAN, Speedtest : BOOLEAN, Compare : BOOLEAN]

-----------------------------------------------------------------------------
(* ParseGCSURL: an error, or the bucket and a prefix that is empty or ends *)
(* in a slash, which is to say in an empty piece.                          *)
URLAccepted(url) == url.gs /\ url.pieces[1] # Empty

EndsInSlash(pieces) == pieces[Len(pieces)] = Empty

NormalPrefix(pieces) ==
    IF pieces = <<>> \/ pieces = <<Empty>> THEN <<>>
    ELSE IF EndsInSlash(pieces) THEN pieces ELSE Append(pieces, Empty)

ParseGCSURL(url) == [bucket |-> url.pieces[1],
                     prefix |-> NormalPrefix(Tail(url.pieces))]

(* Config.Validate: the errors, all of them joined.  The state directory   *)
(* is created and tried only in the modes that use it.                     *)
Validate(c) ==
    (Required \ c.given)
    \cup (IF c.Workers < 1 \/ c.Workers > 128 THEN {"workers"} ELSE {})
    \cup (IF c.MaxRetries < 0 \/ c.MaxRetries > 10 THEN {"max-retries"} ELSE {})
    \cup (IF "WasabiEndpoint" \in c.given /\ ~c.endpointParses
          THEN {"invalid endpoint"} ELSE {})
    \cup (IF c.hasStateGCS /\ ~URLAccepted(c.StateGCS)
          THEN {"state-gcs"} ELSE {})
    \cup (IF /\ c.hasStateDir /\ ~c.Compare /\ ~c.Speedtest
             /\ ~c.stateDirWritable
          THEN {"state-dir"} ELSE {})

Valid(c) == Validate(c) = {}

(* RunE: the mode; --speedtest comes before --compare, and both before the *)
(* migration, of which --dry-run is a variant.                             *)
Mode(c) ==
    IF ~Valid(c) THEN "invalid"
    ELSE IF c.Speedtest THEN "speedtest"
    ELSE IF c.Compare THEN "compare"
    ELSE IF c.DryRun THEN "dry-run" ELSE "migration"

(* main: the exit code, from the mode and from how the mode returned.      *)
ExitCode(c, returned) ==
    IF Mode(c) = "invalid" THEN 2
    ELSE IF returned \in {"nil", "already complete"} THEN 0 ELSE 1

-----------------------------------------------------------------------------
(* Durations are 64-bit counts of nanoseconds.                             *)
Second == 1000000000
baseBackoff == Second
maxBackoff == 30 * Second

ToInt64(n) ==
    ((n + 9223372036854775808) % 18446744073709551616) - 9223372036854775808

(* 1 << uint(attempt-1), for the attempts that Validate admits.            *)
Doubled == <<1, 2, 4, 8, 16, 32, 64, 128, 256, 512>>

(* calculateBackoff: the argument of rand.Int63n, which panics unless it   *)
(* is positive; the backoff is drawn from below it.                        *)
BackoffLimit(attempt) ==
    LET backoff == ToInt64(baseBackoff * Doubled[attempt])
    IN  IF backoff > maxBackoff THEN maxBackoff ELSE backoff

(* newWasabiHTTPClient and gcsConnectionPool.                              *)
MaxIdleConns(workers) == IF workers * 2 < 100 THEN 100 ELSE workers * 2
ConnectionPool(workers) == IF workers \div 8 < 4 THEN 4 ELSE workers \div 8

-----------------------------------------------------------------------------
(* Every mode but "invalid" runs with the values that Migration and        *)
(* TransferEngine assume of Workers and maxRetries, all the required       *)
(* fields and a usable location of the remote state: nothing after         *)
(* Validate tests them again (config.go:55-108, main.go:202-215).          *)
THEOREM ValidatedIsAssumed ==
    ASSUME NEW c \in Configs, Mode(c) # "invalid"
    PROVE  /\ c.Workers \in Nat \ {0} /\ c.Workers <= 128
           /\ c.MaxRetries \in 0 .. 10
           /\ c.given = Required
           /\ c.hasStateGCS => ParseGCSURL(c.StateGCS).bucket # Empty
           /\ Mode(c) \in {"migration", "dry-run"} /\ c.hasStateDir
                 => c.stateDirWritable
<1>1. Validate(c) = {}
  BY DEF Mode, Valid
<1>2. /\ c.given \subseteq Required
      /\ c.Workers \in Int /\ c.MaxRetries \in Int
  BY DEF Configs
<1>3. Required \ c.given = {}
  BY <1>1 DEF Validate
<1>4. ~(c.Workers < 1 \/ c.Workers > 128)
  <2>1. SUFFICES ASSUME c.Workers < 1 \/ c.Workers > 128 PROVE FALSE
    OBVIOUS
  <2>2. "workers" \in Validate(c)
    BY <2>1 DEF Validate
  <2> QED BY <1>1, <2>2
<1>5. ~(c.MaxRetries < 0 \/ c.MaxRetries > 10)
  <2>1. SUFFICES ASSUME c.MaxRetries < 0 \/ c.MaxRetries > 10 PROVE FALSE
    OBVIOUS
  <2>2. "max-retries" \in Validate(c)
    BY <2>1 DEF Validate
  <2> QED BY <1>1, <2>2
<1>6. c.hasStateGCS => URLAccepted(c.StateGCS)
  <2>1. SUFFICES ASSUME c.hasStateGCS, ~URLAccepted(c.StateGCS) PROVE FALSE
    OBVIOUS
  <2>2. "state-gcs" \in Validate(c)
    BY <2>1 DEF Validate
  <2> QED BY <1>1, <2>2
<1>7. c.hasStateDir /\ ~c.Compare /\ ~c.Speedtest => c.stateDirWritable
  <2>1. SUFFICES ASSUME c.hasStateDir, ~c.Compare, ~c.Speedtest,
                        ~c.stateDirWritable
                 PROVE  FALSE
    OBVIOUS
  <2>2. "state-dir" \in Validate(c)
    BY <2>1 DEF Validate
  <2> QED BY <1>1, <2>2
<1>8. Mode(c) \in {"migration", "dry-run"} => ~c.Compare /\ ~c.Speedtest
  BY DEF Mode
<1>9. c.hasStateGCS => ParseGCSURL(c.StateGCS).bucket # Empty
  BY <1>6 DEF URLAccepted, ParseGCSURL
<1> QED
  BY <1>2, <1>3, <1>4, <1>5, <1>7, <1>8, <1>9

(* What a slash at the end of a URL adds to its pieces.                    *)
LEMMA SlashAppended ==
    ASSUME Empty \in Piece, NEW p \in Seq(Piece)
    PROVE  /\ Append(p, Empty) \in Seq(Piece)
           /\ Append(p, Empty) # <<>>
           /\ p # <<>> => Append(p, Empty) # <<Empty>>
           /\ EndsInSlash(Append(p, Empty))
           /\ p # <<>> => /\ Append(p, Empty)[1] = p[1]
                         /\ Tail(Append(p, Empty)) = Append(Tail(p), Empty)
<1>1. /\ Append(p, Empty) \in Seq(Piece)
      /\ Len(Append(p, Empty)) = Len(p) + 1
      /\ \A i \in 1 .. Len(p) : Append(p, Empty)[i] = p[i]
      /\ Append(p, Empty)[Len(p) + 1] = Empty
  BY AppendProperties
<1>2. Len(p) \in Nat /\ (p # <<>> => Len(p) > 0)
  BY EmptySeq
<1>3. Append(p, Empty) # <<>>
  BY <1>1, <1>2, Len(<<>>) = 0
<1>4. p # <<>> => Append(p, Empty) # <<Empty>>
  BY <1>1, <1>2, Len(<<Empty>>) = 1
<1>5. EndsInSlash(Append(p, Empty))
  BY <1>1 DEF EndsInSlash
<1>6. p # <<>> => /\ Append(p, Empty)[1] = p[1]
                  /\ Tail(Append(p, Empty)) = Append(Tail(p), Empty)
  BY <1>1, <1>2
<1> QED BY <1>1, <1>3, <1>4, <1>5, <1>6

(* The prefix of the remote state is empty or ends in a slash, so that     *)
(* prefix + "completed.log" and prefix + "manifest.json" are objects of    *)
(* that folder (state_gcs.go:52-57, 77-79).                                *)
THEOREM PrefixIsFolder ==
    ASSUME Empty \in Piece, NEW pieces \in Seq(Piece),
           NormalPrefix(pieces) # <<>>
    PROVE  EndsInSlash(NormalPrefix(pieces))
BY SlashAppended DEF NormalPrefix

(* gs://bucket/prefix and gs://bucket/prefix/ are the same location, so    *)
(* that a run started with the one resumes what a run started with the     *)
(* other recorded (state_gcs.go:52-55).                                    *)
THEOREM SlashMakesNoDifference ==
    ASSUME Empty \in Piece, NEW url \in URLs,
           Len(url.pieces) > 1, ~EndsInSlash(url.pieces)
    PROVE  ParseGCSURL([gs |-> url.gs, pieces |-> Append(url.pieces, Empty)])
              = ParseGCSURL(url)
<1>1. PICK p \in Seq(Piece) : p = url.pieces
  BY DEF URLs
<1> DEFINE t == Tail(p)
           q == Append(p, Empty)
<1>2. Len(p) \in Nat /\ Len(p) > 1 /\ p # <<>> /\ ~EndsInSlash(p)
  BY <1>1
<1>3. t \in Seq(Piece) /\ Len(t) = Len(p) - 1 /\ t[Len(t)] = p[Len(p)]
  <2>1. /\ t \in Seq(Piece) /\ Len(t) = Len(p) - 1
        /\ \A i \in 1 .. Len(t) : t[i] = p[i + 1]
    BY <1>2, HeadTailProperties
  <2>2. t[Len(p) - 1] = p[(Len(p) - 1) + 1]
    BY <1>2, <2>1
  <2> QED BY <1>2, <2>1, <2>2
<1>4. ~EndsInSlash(t) /\ t # <<>>
  BY <1>2, <1>3 DEF EndsInSlash
<1>5. t # <<Empty>>
  BY <1>4, Len(<<Empty>>) = 1, <<Empty>>[1] = Empty DEF EndsInSlash
<1>6. q[1] = p[1] /\ Tail(q) = Append(t, Empty)
  BY <1>2, SlashAppended
<1> HIDE DEF t
<1>7. NormalPrefix(t) = Append(t, Empty)
  BY <1>4, <1>5 DEF NormalPrefix
<1>8. NormalPrefix(Append(t, Empty)) = Append(t, Empty)
  BY <1>3, <1>4, SlashAppended DEF NormalPrefix
<1>9. ParseGCSURL([gs |-> url.gs, pieces |-> q])
         = [bucket |-> p[1], prefix |-> Append(t, Empty)]
  BY <1>6, <1>8 DEF ParseGCSURL
<1>10. ParseGCSURL(url) = [bucket |-> p[1], prefix |-> Append(t, Empty)]
  BY <1>1, <1>7 DEF ParseGCSURL, t
<1> QED
  BY <1>1, <1>9, <1>10

(* For every number of retries that Validate admits, the argument of       *)
(* rand.Int63n is positive, the 64-bit product does not wrap around, and   *)
(* no backoff exceeds thirty seconds (transfer.go:106-113).                *)
THEOREM BackoffInRange ==
    ASSUME NEW c \in Configs, Valid(c), NEW attempt \in 1 .. c.MaxRetries
    PROVE  /\ BackoffLimit(attempt) \in baseBackoff .. maxBackoff
           /\ ToInt64(baseBackoff * Doubled[attempt])
                 = baseBackoff * Doubled[attempt]
<1> DEFINE d == Doubled[attempt]
<1>1. attempt \in 1 .. 10
  <2>1. Mode(c) # "invalid"
    BY DEF Mode
  <2>2. c.MaxRetries \in 0 .. 10
    BY <2>1, ValidatedIsAssumed
  <2> QED BY <2>2
<1>2. d \in Int /\ 1 <= d /\ d <= 512
  BY <1>1 DEF Doubled
<1> HIDE DEF d
<1>3. /\ baseBackoff * d \in Int
      /\ baseBackoff <= baseBackoff * d /\ baseBackoff * d <= 512 * Second
  BY <1>2, SMT DEF baseBackoff, Second
<1>4. ToInt64(baseBackoff * d) = baseBackoff * d
  BY <1>3, SMT DEF ToInt64, baseBackoff, Second
<1>5. /\ baseBackoff \in Int /\ maxBackoff \in Int
      /\ baseBackoff <= maxBackoff
  BY SMT DEF baseBackoff, maxBackoff, Second
<1>6. BackoffLimit(attempt) = IF baseBackoff * d > maxBackoff
                              THEN maxBackoff ELSE baseBackoff * d
  BY <1>4 DEF BackoffLimit, d
<1>7. BackoffLimit(attempt) \in baseBackoff .. maxBackoff
  BY <1>3, <1>5, <1>6
<1> QED
  BY <1>4, <1>7 DEF d

(* The HTTP client keeps two idle connections for each worker, and no GCS  *)
(* connection is shared by more than ten of them, for every number of      *)
(* workers that Validate admits (clients.go:18-45, 74-82: "1 connection    *)
(* per ~8 workers is sufficient").                                         *)
THEOREM ConnectionsSuffice ==
    ASSUME NEW c \in Configs, Valid(c)
    PROVE  /\ 2 * c.Workers <= MaxIdleConns(c.Workers)
           /\ c.Workers <= 10 * ConnectionPool(c.Workers)
           /\ ConnectionPool(c.Workers) \in 4 .. 16
<1> DEFINE w == c.Workers
<1>1. w \in Int /\ 1 <= w /\ w <= 128
  <2>1. Mode(c) # "invalid"
    BY DEF Mode
  <2>2. w \in Nat \ {0} /\ w <= 128
    BY <2>1, ValidatedIsAssumed
  <2> QED BY <2>2
<1> HIDE DEF w
<1>2. /\ 2 * w <= MaxIdleConns(w)
      /\ w <= 10 * ConnectionPool(w)
      /\ ConnectionPool(w) \in 4 .. 16
  BY <1>1, SMT DEF MaxIdleConns, ConnectionPool
<1> QED BY <1>2 DEF w
=============================================================================
