------------------------------ MODULE Algorithms ------------------------------
(***************************************************************************)
(* The pure algorithms of the system (WsWire, Inputs, Analysis) on inputs  *)
(* that cover their boundaries, each compared with what it is to compute.  *)
(* A behavior picks one input.                                             *)
(***************************************************************************)
EXTENDS WsWire, Inputs, Analysis

CONSTANTS KeyLengths,     \* lengths of the client's key
          FrameLengths,   \* lengths of a frame's payload
          Masks,          \* masking keys
          Numbers,        \* numbers on the command line, and from rand()
          Tenths,         \* what is typed into Last N, in tenths
          Steps,          \* usual steps of a log's sequence numbers
          Published,      \* bound: samples published
          Repeats         \* bound: times that the page gets one sample

\* a key fits the 255 bytes of compute_accept_key with the GUID
ASSUME KeysAssumption == KeyLengths \subseteq 0..219
\* four bytes hold a length
MaxLength == 2147483647
ASSUME FramesAssumption == /\ FrameLengths \subseteq Nat
                           /\ \A n \in FrameLengths : n <= MaxLength
                           /\ Masks \subseteq [1..4 -> 0..255]
ASSUME NumbersAssumption == Numbers \subseteq Int /\ Tenths \subseteq Int
ASSUME LogAssumption == /\ Steps \subseteq Nat \ {0}
                        /\ Published \in Nat /\ Repeats \in Nat

VARIABLE input

Init == input = [kind |-> "none"]

Pick(i) == input.kind = "none" /\ input' = i

PickKey == \E n \in KeyLengths, d \in 0..31 :
    Pick([kind |-> "key", length |-> n,
          digest |-> [i \in 1..20 |-> (8 * d + 37 * i) % 256]])

PickFrame == \E n \in FrameLengths, mask \in Masks, op \in {1, 8, 9, 10} :
    Pick([kind |-> "frame", length |-> n, mask |-> mask, opcode |-> op])

PickOption == \E o \in Options, v \in Numbers :
    Pick([kind |-> "option", option |-> o, value |-> v])

PickDelay == \E d, j \in Numbers, r \in Numbers \cap Nat :
    Pick([kind |-> "delay", delay |-> d, jitter |-> j, r |-> r])

PickLast == \E v \in Tenths, negative, finite \in BOOLEAN :
    Pick([kind |-> "last", tenths |-> v, negative |-> negative, finite |-> finite])

Never == [i \in 1..Published |-> 0]

(* Samples are missing, or repeated, and the page asks for a window.         *)
PickEvenLog == \E step \in Steps, from \in 1..(Published + 1) :
    \E times \in [1..Published -> 0..Repeats] :
        Pick([kind |-> "log", step |-> step, off |-> Never, times |-> times,
              from |-> from])

(* The sensors and the publisher drift by less than a quarter of a step.     *)
PickUnevenLog == \E step \in {s \in Steps : s > 4} :
    \E off \in [1..Published -> -1..1], times \in [1..Published -> 0..1] :
        Pick([kind |-> "log", step |-> step, off |-> off, times |-> times,
              from |-> 1])

Next == \/ PickKey \/ PickFrame \/ PickOption \/ PickDelay \/ PickLast
        \/ PickEvenLog \/ PickUnevenLog

Spec == Init /\ [][Next]_input

-----------------------------------------------------------------------------
(* References *)

Key(n) == [i \in 1..n |-> 1000 + i]
Guid == [i \in 1..36 |-> 2000 + i]

(* FIPS 180-4, 5.1.1: the whole message is padded, then cut into blocks.     *)
Blocks(message) ==
    LET zeros == (55 - Len(message)) % 64
        padded == message \o <<128>> \o [i \in 1..zeros |-> 0]
                  \o BigEndian(8 * Len(message))
    IN [k \in 1..(Len(padded) \div 64) |-> SubSeq(padded, 64 * (k - 1) + 1, 64 * k)]

(* RFC 4648: four characters are three bytes, less one for each "=".         *)
Decoded(chars) ==
    LET Val(j) == IF chars[j] = Pad THEN 0 ELSE chars[j]
        Bits(g) == Val(4 * g + 1) * 262144 + Val(4 * g + 2) * 4096
                   + Val(4 * g + 3) * 64 + Val(4 * g + 4)
        pads == Cardinality({j \in DOMAIN chars : chars[j] = Pad})
    IN [i \in 1..(3 * (Len(chars) \div 4) - pads) |->
          LET bits == Bits((i - 1) \div 3)
          IN IF i % 3 = 1 THEN bits \div 65536
             ELSE IF i % 3 = 2 THEN (bits \div 256) % 256
             ELSE bits % 256]

(* RFC 6455, 5.2: the length of a frame, in the fewest bytes that hold it.   *)
LengthRead(header) ==
    IF header[2] < 126 THEN header[2]
    ELSE IF header[2] = 126 THEN 256 * header[3] + header[4]
    ELSE 256 * (256 * (256 * header[7] + header[8]) + header[9]) + header[10]
Eight(len) == len > 65535
Fewest(len) == IF Eight(len) THEN 10 ELSE IF len > 125 THEN 4 ELSE 2

(* Of a long payload, the first bytes are enough. *)
Payload(len) == [i \in 1..Least(len, 200) |-> (7 * i) % 256]

(* What a browser sends: the mask bit is set, and the payload masked.        *)
Masked(payload, mask) ==
    [i \in DOMAIN payload |-> Xor(payload[i], mask[((i - 1) % 4) + 1])]
BrowserFrame(opcode, len, mask) ==
    [TextHeader(len) EXCEPT ![1] = 128 + opcode, ![2] = @ + 128]
    \o mask \o Masked(Payload(len), mask)

(* A length of eight bytes whose first four are not all 0 is over 1 MB.      *)
FarRefused(frame, len) ==
    Eight(len) => \A i \in 3..6 : ~RecvFrame([frame EXCEPT ![i] = 1]).ok

(* The milliseconds of a struct timespec, and whether nanosleep accepts it.  *)
Milliseconds(time) == time[1] * 1000 + time[2] \div 1000000
Accepted(time) == time[1] >= 0 /\ time[2] >= 0 /\ time[2] < 1000000000

(* The rows of a log, and the samples it lacks between its first and last.   *)
SeqOf(i) == input.step * i + input.off[i]
RowsTo[i \in 0..Published] ==
    IF i = 0 THEN <<>> ELSE RowsTo[i - 1] \o [t \in 1..input.times[i] |-> SeqOf(i)]
LiveRows == RowsTo[Published]
Live == {i \in 1..Published : input.times[i] > 0}
Lacking == {i \in (1..Published) \ Live : \E a, b \in Live : a < i /\ i < b}
Usual == LET d == Diffs(LiveRows)
             Count(x) == Cardinality({i \in DOMAIN d : d[i] = x})
         IN \A i \in DOMAIN d : d[i] \in {0, input.step} \/ Count(d[i]) < Count(input.step)

-----------------------------------------------------------------------------
(* Properties *)

(* The accept key a client computes is the one it gets, for every length of *)
(* key that fits the buffer with the GUID: streaming and padding give the   *)
(* blocks of the standard, and base64 loses nothing of the digest.          *)
AcceptKeyRight == input.kind = "key" =>
    /\ AcceptBlocks(Key(input.length), Guid) = Blocks(Key(input.length) \o Guid)
    /\ Len(Base64(input.digest)) = 28
    /\ Decoded(Base64(input.digest)) = input.digest

(* What is sent either way, and what the other side reads.                  *)
FrameAgrees(len, mask, opcode) ==
    LET frame == BrowserFrame(opcode, len, mask)
        got == RecvFrame(frame)
        pong == RecvFrame(ControlFrame(10, got.payload))
    IN /\ Len(TextHeader(len)) = Fewest(len) /\ LengthRead(TextHeader(len)) = len
       /\ got.ok <=> len <= MaxPayload
       /\ got.ok => got.opcode = opcode /\ got.len = len /\ got.payload = Payload(len)
       /\ got.ok /\ len <= 125 => pong.ok /\ pong.opcode = 10 /\ pong.payload = Payload(len)
       /\ FarRefused(frame, len)

(* At every boundary of the length, a browser reads the length of the text  *)
(* frame that was sent in its shortest form (it fails the connection        *)
(* otherwise), and the server reads the frame that the browser sent,        *)
(* unmasked, or refuses it above 1 MB, also where only the first four of    *)
(* the eight bytes of the length say so; a ping's payload comes back whole. *)
FramesAgree == input.kind = "frame" =>
    FrameAgrees(input.length, input.mask, input.opcode)

(* An option that is allowed reaches the thread that uses it unchanged, and *)
(* any other one becomes an allowed one; a delay is within its jitter, and  *)
(* the time slept is the delay.  The number of samples the page asks for is *)
(* the number the query is limited to, whatever was typed, and no text that *)
(* a client sends asks for none, or for more than 5000.                     *)
InputsRespected ==
    /\ input.kind = "option" =>
         LET v == input.value  range == Allowed[input.option] IN
         /\ Used(input.option, v) \in range[1]..range[2]
         /\ v \in range[1]..range[2] => Used(input.option, v) = v
    /\ input.kind = "delay" =>
         LET d == Used("delayMs", input.delay)  j == Used("jitterMs", input.jitter)
             ms == Delay(d, j, input.r)
         IN /\ ms >= 0 /\ ms \in (d - j)..(d + j)
            /\ Milliseconds(SleepTime(ms)) = ms /\ Accepted(SleepTime(ms))
    /\ input.kind = "last" =>
         LET n == RequestedCount(input.finite, input.tenths)
             any == FindInt(input.negative, Digits[Most(input.tenths, 0)])
         IN /\ n > 0 <=> input.finite /\ input.tenths >= 10
            /\ n > 0 => Limit(FindInt(FALSE, Digits[n])) = Least(input.tenths \div 10, Longest)
            /\ Limit(any) \in 1..Longest /\ Limit(FindInt(input.negative, <<>>)) \in 1..Longest

(* As long as the usual step outnumbers every other step in the live rows,  *)
(* the analysis counts the samples the page has missed, also where sequence *)
(* numbers drift by less than a quarter of a step; where they do not drift, *)
(* it names them, and what stays unrecovered is what was missed and not     *)
(* replayed (EXPERIMENTS.md:47-49).                                         *)
MissingFound == input.kind = "log" /\ Usual =>
    /\ Cardinality(MissingExpected(LiveRows)) = Cardinality(Lacking)
    /\ input.off = Never =>
         LET replay == {SeqOf(i) : i \in input.from..Published} IN
         /\ MissingExpected(LiveRows) = {SeqOf(i) : i \in Lacking}
         /\ UnrecoveredContext(LiveRows, replay, FALSE)
              = Cardinality({i \in Lacking : i < input.from})
         /\ UnrecoveredContext(LiveRows, replay, TRUE) = Cardinality(Lacking)

=============================================================================
