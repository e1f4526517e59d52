-------------------------------- MODULE Inputs --------------------------------
(***************************************************************************)
(* The numbers the system is given and what it makes of them: the gateway's *)
(* options (telemetry_gateway_main.c), which travel as environment         *)
(* variables to env_int and env_int_local, the delay drawn for each        *)
(* message, and the "Last N" of the page, which travels as text to         *)
(* json_find_int and to the LIMIT of the query.                            *)
(***************************************************************************)
EXTENDS Integers, Sequences

Least(a, b) == IF a < b THEN a ELSE b
Most(a, b) == IF a > b THEN a ELSE b

(* The ranges that telemetry_gateway_start and ws_server_start ask for.      *)
Allowed == [batch |-> <<1, 4096>>, statsMs |-> <<50, 60000>>,
            delayMs |-> <<0, 60000>>, jitterMs |-> <<0, 60000>>,
            dropPct |-> <<0, 100>>,
            cutStartS |-> <<0, 86400>>, cutDurationS |-> <<0, 86400>>]
Options == DOMAIN Allowed

(* main puts the option in the environment.                                  *)
Default == [batch |-> 50, statsMs |-> 1000]
Exported(option, v) ==
    IF option \in DOMAIN Default /\ v <= 0 THEN Default[option]
    ELSE IF option = "dropPct" THEN Least(Most(v, 0), 100) ELSE Most(v, 0)

(* env_int, and env_int_local *)
EnvInt(v, range) == Least(Most(v, range[1]), range[2])

Used(option, v) == EnvInt(Exported(option, v), Allowed[option])

(* impairment_delay_for_msg_ms, when rand() has returned r *)
Delay(delayMs, jitterMs, r) ==
    IF jitterMs > 0
      THEN Most(delayMs + (r % (jitterMs * 2 + 1)) - jitterMs, 0)
      ELSE delayMs

(* sleep_ms_interruptible: seconds and nanoseconds *)
SleepTime(ms) == <<ms \div 1000, (ms % 1000) * 1000000>>

-----------------------------------------------------------------------------
(* Last N *)

(* The longest history, for the page and for the query alike. *)
Longest == 5000

(* getRequestedHistoryCount, of a number in tenths: 0 asks for nothing, and *)
(* Math.trunc leaves nothing of a number below 1.                           *)
RequestedCount(finite, tenths) ==
    IF ~finite \/ tenths <= 0 THEN 0 ELSE Least(Longest, tenths \div 10)

(* JSON.stringify of a number that is not negative *)
Digits[n \in Nat] == IF n < 10 THEN <<n>> ELSE Append(Digits[n \div 10], n % 10)

(* What client_thread takes where no number is found.                        *)
DefaultLast == 300

(* json_find_int reads digits until the number is out of any range. *)
Beyond == 1000000
FindInt(negative, digits) ==
    LET v[i \in 0..Len(digits)] ==
          IF i = 0 THEN 0
          ELSE IF v[i - 1] > Beyond THEN v[i - 1] ELSE v[i - 1] * 10 + digits[i]
    IN IF digits = <<>> THEN DefaultLast
       ELSE (IF negative THEN -1 ELSE 1) * v[Len(digits)]

(* mutant: a LIMIT of 0 is let through *)
LimitMut(last) == IF last < 0 THEN 300 ELSE Least(last, Longest)

(* db_reader_history_last_json *)
Limit(last) == IF last <= 0 THEN 300 ELSE Least(last, Longest)

=============================================================================
