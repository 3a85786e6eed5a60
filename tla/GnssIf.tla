---------------------------------- MODULE GnssIf ----------------------------------
(***************************************************************************)
(* The position receiver (GnssIf.c): sentences are assembled from a serial *)
(* line that loses and damages characters, checked, decoded, and adopted   *)
(* if the vehicle could have got there.  The storage task copies the       *)
(* position without a lock.                                                *)
(*                                                                         *)
(* A sentence is sent in four parts: its start, its text, its check sum    *)
(* and its end of line.  The check sum is taken to find every damage.      *)
(* Coordinates are whole minutes of arc, and the vehicle moves along a     *)
(* diagonal, so that one number is its place.  Speed, heading, altitude,   *)
(* the receiver's clock and the counters are left out.                     *)
(***************************************************************************)
EXTENDS Integers, Sequences, SequencesExt

CONSTANTS
    Places,          \* where the vehicle may be
    PartSize,        \* the characters of each part of a sentence
    BufferSize,      \* GNSSIF_SENTENCE_BUFFER_SIZE
    Sentences,       \* bound: the sentences the receiver sends in a cycle
    MaxSpeed,        \* GNSSIF_MAX_SPEED_MM_PER_SEC, in minutes of arc per tick
    MinInterval,     \* GNSSIF_MIN_PLAUSIBILITY_INTERVAL_MS
    FixTimeout,      \* GNSSIF_FIX_TIMEOUT_MS
    NoFixLimit,      \* GNSSIF_NO_FIX_REPORT_THRESHOLD
    MaxFixAge,       \* bound: the longest age of a fix told apart
    Patience         \* the good cycles after which the position must be right

Distance(a, b) == IF a < b THEN b - a ELSE a - b

ASSUME GnssIfAssumption ==
    /\ Places \subseteq Int /\ Places # {}
    /\ PartSize \in [{"start", "text", "sum"} -> Nat \ {0}]
    /\ {BufferSize, Sentences, MaxSpeed, FixTimeout, NoFixLimit, Patience} \subseteq Nat \ {0}
    /\ MinInterval \in Nat
    /\ MaxFixAge \in Nat /\ MaxFixAge >= FixTimeout
    /\ \A a, b \in Places : 2 * Distance(a, b) <= MaxSpeed * Patience /\ MaxFixAge >= Patience

VARIABLES
    receiver,  \* where the vehicle is, the sentences left in this cycle
    gnss,      \* GnssIf_Buffer, _Overflowed, _Position, _CyclesWithoutFix;
               \* history: what this cycle's sentences told
    taker,     \* the storage task's copy and what it published last
    sky        \* history: the cycles in a row with true positions only

gnssVars == <<receiver, gnss, taker, sky>>

NoFix == [valid |-> FALSE, lat |-> 0, lon |-> 0, age |-> 0, genuine |-> TRUE]
Nothing == [at |-> "idle", lat |-> NoFix, lon |-> NoFix, moved |-> FALSE]

GnssTypeOK ==
    /\ receiver.place \in Places /\ receiver.left \in 0 .. Sentences
    /\ gnss.at \in {"off", "read", "idle"}
    /\ gnss.pos \in [valid : BOOLEAN, lat : Places \cup {0}, lon : Places \cup {0},
                     age : 0 .. MaxFixAge, genuine : BOOLEAN]
    /\ gnss.cycles \in 0 .. NoFixLimit + 1
    /\ taker.at \in {"idle", "copy", "judge", "published"}
    /\ sky \in 0 .. Patience
    /\ gnss.told \in {"nothing", "the place", "another"}

(* GnssIf_Init, and a line that cannot be opened. *)
GnssInit ==
    /\ \E p \in Places : receiver = [place |-> p, left |-> 0]
    /\ \E opened \in BOOLEAN :
           gnss = [at |-> IF opened THEN "idle" ELSE "off", buffer |-> <<>>, over |-> FALSE,
                   pos |-> NoFix, cycles |-> 0, accepted |-> FALSE, told |-> "nothing"]
    /\ taker = Nothing
    /\ sky = 0

-----------------------------------------------------------------------------
(* The receiver.  It sends a position where the vehicle is or, at times,   *)
(* another, a sentence without a fix, or one that is not used.             *)

Field(p) == [degrees |-> Distance(p, 0) \div 60, minutes |-> Distance(p, 0) % 60,
             side |-> IF p < 0 THEN "minus" ELSE "plus"]

Kinds == {"RMC", "GGA", "other"}
Sentence(kind, fix, p) == [kind |-> kind, fix |-> fix, lat |-> Field(p), lon |-> Field(p)]

Spoken == {Sentence(k, TRUE, p) : k \in {"RMC", "GGA"}, p \in Places}
          \cup {Sentence(k, k = "other", receiver.place) : k \in Kinds}

Part(name, s, ok) == [name |-> name, of |-> s, ok |-> ok]
Intact(s) == <<Part("start", s, TRUE), Part("text", s, TRUE), Part("sum", s, TRUE), Part("end", s, TRUE)>>

(* At most one part is lost or damaged. *)
Transmissions(s) ==
    {Intact(s)}
    \cup {SubSeq(Intact(s), 1, i - 1) \o SubSeq(Intact(s), i + 1, 4) : i \in 1 .. 4}
    \cup {[Intact(s) EXCEPT ![i].ok = FALSE] : i \in {2, 3}}

-----------------------------------------------------------------------------
(* Decoding.                                                               *)

(* Bug: a damaged sentence is found only if its check sum is missing. *)
VerifyChecksumPresent(buffer) ==
    Len(buffer) >= 3 /\ buffer[1].name = "start" /\ buffer[2].name = "text" /\ buffer[3].name = "sum"

(* GnssIf_VerifyChecksum: the text up to the first check sum. *)
VerifyChecksum(buffer) ==
    /\ Len(buffer) >= 3
    /\ buffer[1].name = "start" /\ buffer[2].name = "text" /\ buffer[3].name = "sum"
    /\ buffer[2].ok /\ buffer[3].ok /\ buffer[2].of = buffer[3].of

Genuine(buffer) == buffer[2].ok /\ buffer[3] = Part("sum", buffer[2].of, TRUE)

(* GnssIf_ParseCoordinate. *)
InRange(f) == f.degrees <= 180 /\ f.degrees * 60 + f.minutes <= 180 * 60
ParseCoordinate(f) == (IF f.side = "minus" THEN 0 - 1 ELSE 1) * (f.degrees * 60 + f.minutes)

(* GnssIf_ParseSentence.  An RMC that is not active and a GGA without      *)
(* measured quality carry no fix. *)
CarriesRmc(s) == s.kind = "RMC" /\ s.fix /\ InRange(s.lat) /\ InRange(s.lon)
CarriesGga(s) == s.kind = "GGA" /\ s.fix /\ InRange(s.lat) /\ InRange(s.lon)

Candidate(buffer) ==
    [valid |-> TRUE, lat |-> ParseCoordinate(buffer[2].of.lat),
     lon |-> ParseCoordinate(buffer[2].of.lon), age |-> 0, genuine |-> Genuine(buffer)]

(* GnssIf_IsTransitionPlausible. *)
IsTransitionPlausible(from, to, delta) ==
    \/ ~from.valid
    \/ delta < MinInterval
    \/ Distance(from.lat, to.lat) + Distance(from.lon, to.lon) <= MaxSpeed * delta

HasFix(buffer) == VerifyChecksum(buffer) /\ (CarriesRmc(buffer[2].of) \/ CarriesGga(buffer[2].of))

Told(g) ==
    IF g.told # "another" /\ Candidate(g.buffer).lat = receiver.place THEN "the place" ELSE "another"

(* GnssIf_ConsumeSentence: what the position becomes. *)
ConsumeSentence(g) ==
    IF ~HasFix(g.buffer) THEN g
    ELSE IF ~IsTransitionPlausible(g.pos, Candidate(g.buffer), g.pos.age) THEN [g EXCEPT !.told = Told(g)]
    ELSE [g EXCEPT !.pos = Candidate(g.buffer), !.accepted = TRUE, !.told = Told(g)]

-----------------------------------------------------------------------------
(* GnssIf_MainFunction.  The parts of one sentence are read together:      *)
(* only the end of a line has an effect outside of the buffer. *)

Held(buffer) == FoldLeft(LAMBDA n, part : n + PartSize[part.name], 0, buffer)

(* A part that does not fit is dropped, and the sentence with it. *)
Assembled(g, part) ==
    IF g.buffer = <<>> THEN g
    ELSE IF Held(g.buffer) + PartSize[part.name] > BufferSize - 1 THEN [g EXCEPT !.over = TRUE]
    ELSE [g EXCEPT !.buffer = Append(@, part)]

Restarted(g, part) == [g EXCEPT !.buffer = <<part>>, !.over = FALSE]

Completed(g) ==
    [(IF g.buffer # <<>> /\ ~g.over THEN ConsumeSentence(g) ELSE g)
     EXCEPT !.buffer = <<>>, !.over = FALSE]

ReadPart(g, part) ==
    CASE part.name = "start" -> Restarted(g, part)
      [] part.name = "end" -> Completed(g)
      [] OTHER -> Assembled(g, part)

ReadParts(g, t) ==
    LET read[i \in 0 .. Len(t)] == IF i = 0 THEN g ELSE ReadPart(read[i - 1], t[i])
    IN read[Len(t)]

ReadSentence(s) ==
    /\ gnss.at = "read" /\ receiver.left > 0
    /\ \E t \in Transmissions(s) : gnss' = ReadParts(gnss, t)
    /\ receiver' = [receiver EXCEPT !.left = @ - 1]
    /\ taker' = IF gnss'.pos # gnss.pos /\ taker.at # "idle" THEN [taker EXCEPT !.moved = TRUE] ELSE taker
    /\ UNCHANGED sky

(* The end of a cycle: GNSS_NO_FIX is reported once per outage. *)
EndCycle(status) ==
    /\ gnss.at = "read"
    /\ gnss' = [gnss EXCEPT !.at = "idle", !.accepted = FALSE, !.told = "nothing",
                   !.cycles = IF gnss.accepted THEN 0 ELSE IF @ <= NoFixLimit THEN @ + 1 ELSE @]
    /\ status = IF gnss.accepted /\ gnss.cycles >= NoFixLimit THEN "passed"
                ELSE IF ~gnss.accepted /\ gnss.cycles + 1 = NoFixLimit THEN "failed"
                ELSE "nothing"
    /\ sky' = IF gnss.told # "the place" THEN 0 ELSE IF sky < Patience THEN sky + 1 ELSE sky
    /\ UNCHANGED <<receiver, taker>>

-----------------------------------------------------------------------------
(* GnssIf_GetPosition and GnssIf_IsFixFresh in the storage task: the copy  *)
(* is not atomic, and the position, not the copy, is judged.               *)

CopyLatitude ==
    /\ taker.at = "idle"
    /\ taker' = [Nothing EXCEPT !.at = "copy", !.lat = gnss.pos]
    /\ UNCHANGED <<receiver, gnss, sky>>

CopyLongitude ==
    /\ taker.at = "copy"
    /\ taker' = [taker EXCEPT !.at = "judge", !.lon = gnss.pos]
    /\ UNCHANGED <<receiver, gnss, sky>>

IsFixFresh == gnss.pos.valid /\ gnss.pos.age < FixTimeout

Publish ==
    /\ taker.at = "judge"
    /\ taker' = IF IsFixFresh /\ taker.lon.valid THEN [taker EXCEPT !.at = "published"] ELSE Nothing
    /\ UNCHANGED <<receiver, gnss, sky>>

Recorded ==
    /\ taker.at = "published"
    /\ taker' = Nothing
    /\ UNCHANGED <<receiver, gnss, sky>>

-----------------------------------------------------------------------------
(* A tick of the clock starts the next cycle; the vehicle moves as far as  *)
(* it can within one. *)
GnssTick ==
    /\ gnss.at = "idle" /\ taker.at = "idle"
    /\ \E p \in Places : 2 * Distance(p, receiver.place) <= MaxSpeed
                         /\ receiver' = [place |-> p, left |-> Sentences]
    /\ gnss' = [gnss EXCEPT !.at = "read",
                   !.pos.age = IF gnss.pos.valid /\ @ < MaxFixAge THEN @ + 1 ELSE @]
    /\ UNCHANGED <<taker, sky>>

=============================================================================
