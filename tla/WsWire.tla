-------------------------------- MODULE WsWire --------------------------------
(***************************************************************************)
(* What the WebSocket server puts on the wire and takes from it            *)
(* (src/src/core/ws_server.c): the accept key of the handshake, with its   *)
(* SHA-1 and base64, and the frames.  Bytes are numbers; characters of     *)
(* base64 are numbers too, 0..63 and Pad for "=".                          *)
(*                                                                         *)
(* sha1_transform is an unknown function of the state and a block, so the  *)
(* state of SHA-1 is the sequence of blocks it has been given.             *)
(***************************************************************************)
EXTENDS Integers, Sequences, FiniteSets

(* The 8 bytes of a number below 2^32, the most significant first.          *)
BigEndian(n) == <<0, 0, 0, 0, (n \div 16777216) % 256, (n \div 65536) % 256,
                  (n \div 256) % 256, n % 256>>

-----------------------------------------------------------------------------
(* SHA-1 *)

Sha1Init == [blocks |-> <<>>, count |-> 0, buffer |-> [i \in 1..64 |-> 0]]

Fill(ctx) == (ctx.count \div 8) % 64

(* The buffer is filled up and consumed if data reaches that far, further    *)
(* whole blocks are taken from data itself, and the rest is kept.            *)
Sha1Update(ctx, data) ==
    LET len == Len(data)
        part == 64 - Fill(ctx)
        flush == len >= part
        more == IF flush THEN Cardinality({k \in 0..len : part + 64 * k + 63 < len})
                         ELSE 0
        used == IF flush THEN part + 64 * more ELSE 0
        at == IF flush THEN 0 ELSE Fill(ctx)
        buffer == IF flush THEN SubSeq(ctx.buffer, 1, Fill(ctx)) \o SubSeq(data, 1, part)
                           ELSE ctx.buffer
        direct == [k \in 1..more |-> SubSeq(data, part + 64 * (k - 1) + 1, part + 64 * k)]
    IN [blocks |-> ctx.blocks \o (IF flush THEN <<buffer>> ELSE <<>>) \o direct,
        count |-> ctx.count + 8 * len,
        buffer |-> [j \in 1..64 |-> IF j \in (at + 1)..(at + len - used)
                                      THEN data[used + j - at] ELSE buffer[j]]]

(* mutant: a message that ends at byte 56 gets no padding *)
PadLenMut(idx) == IF idx <= 56 THEN 56 - idx ELSE 120 - idx

(* At least one byte of padding, and room for the length, fit in 64 bytes.  *)
PadLen(idx) == IF idx < 56 THEN 56 - idx ELSE 120 - idx

Sha1Final(ctx) ==
    LET pad == [i \in 1..64 |-> IF i = 1 THEN 128 ELSE 0]
    IN Sha1Update(Sha1Update(ctx, SubSeq(pad, 1, PadLen(Fill(ctx)))),
                  BigEndian(ctx.count))

(* compute_accept_key puts the key and the GUID in a buffer of 256.          *)
AcceptBlocks(key, guid) ==
    LET all == key \o guid
        cat == SubSeq(all, 1, IF Len(all) < 255 THEN Len(all) ELSE 255)
    IN Sha1Final(Sha1Update(Sha1Init, cat)).blocks

-----------------------------------------------------------------------------
(* Base64 *)

Pad == 64

Base64(in) ==
    LET At(i) == IF i <= Len(in) THEN in[i] ELSE 0
        Char(j) ==
          LET i == 3 * ((j - 1) \div 4) + 1
              rem == Len(in) - i + 1
              triple == At(i) * 65536 + At(i + 1) * 256 + At(i + 2)
          IN IF j % 4 = 1 THEN (triple \div 262144) % 64
             ELSE IF j % 4 = 2 THEN (triple \div 4096) % 64
             ELSE IF j % 4 = 3 THEN IF rem > 1 THEN (triple \div 64) % 64 ELSE Pad
             ELSE IF rem > 2 THEN triple % 64 ELSE Pad
    IN [j \in 1..(4 * ((Len(in) + 2) \div 3)) |-> Char(j)]

-----------------------------------------------------------------------------
(* Frames *)

MaxPayload == 1048576

(* mutant: 126 is taken for a length of one byte *)
TextHeaderMut(len) ==
    IF len <= 126 THEN <<129, len>>
    ELSE IF len <= 65535 THEN <<129, 126, len \div 256, len % 256>>
    ELSE <<129, 127>> \o BigEndian(len)

(* The header that ws_send_text writes. *)
TextHeader(len) ==
    IF len <= 125 THEN <<129, len>>
    ELSE IF len <= 65535 THEN <<129, 126, len \div 256, len % 256>>
    ELSE <<129, 127>> \o BigEndian(len)

(* The frame that ws_send_control writes: a longer payload is cut off.      *)
ControlFrame(opcode, payload) ==
    LET len == IF Len(payload) > 125 THEN 125 ELSE Len(payload)
    IN <<128 + (opcode % 16), len>> \o SubSeq(payload, 1, len)

(* The exclusive or of two bytes, bit by bit. *)
Xor(a, b) ==
    LET Bit(p) == p * ((((a \div p) % 2) + ((b \div p) % 2)) % 2)
    IN Bit(1) + Bit(2) + Bit(4) + Bit(8) + Bit(16) + Bit(32) + Bit(64) + Bit(128)

Unmask(mask, i, byte) == Xor(byte, mask[(i % 4) + 1])

(* What ws_recv_frame makes of the bytes of a frame.  A length that does    *)
(* not fit the last four of its eight bytes is beyond MaxPayload.           *)
RecvFrame(bytes) ==
    LET short == bytes[2] % 128
        at == IF short = 126 THEN 4 ELSE IF short = 127 THEN 10 ELSE 2
        len == IF short = 126 THEN bytes[3] * 256 + bytes[4]
               ELSE IF short = 127 THEN ((bytes[7] * 256 + bytes[8]) * 256 + bytes[9]) * 256
                                        + bytes[10]
               ELSE short
        huge == short = 127 /\ \E i \in 3..6 : bytes[i] # 0
        masked == bytes[2] >= 128
        mask == SubSeq(bytes, at + 1, at + 4)
        from == IF masked THEN at + 4 ELSE at
    IN IF huge \/ len > MaxPayload THEN [ok |-> FALSE]
       ELSE [ok |-> TRUE, opcode |-> bytes[1] % 16, len |-> len,
             payload |-> [i \in 1..(Len(bytes) - from) |->
                            IF masked THEN Unmask(mask, i - 1, bytes[from + i])
                                      ELSE bytes[from + i]]]

=============================================================================
