--------------------------------- MODULE VictronDecode -------------------------------
(***************************************************************************)
(* The decoding of an Instant Readout frame of a battery monitor           *)
(* (BluetoothScanner.cpp): its length, its bit fields, their signs, the    *)
(* codes that stand for a value the shunt does not have, and the divisions *)
(* that give volts, amperes and percent.  A float stands for the quotient  *)
(* it is rounded from; what is divided has 22 bits at most, which a float  *)
(* holds exactly.  The fields that are only logged are read over.          *)
(***************************************************************************)
EXTENDS Integers, Sequences

CONSTANT NotAvailable       \* a field with its has_... flag off

\* It is not the value of a field.
ASSUME NotAvailableAssumption == NotAvailable \notin [num : Int, den : Int]

BlockSize == 16             \* kVictronAesBlockSize
MaxDecryptedLen == 32       \* kVictronMaxDecryptedLen

\* The block of padding is whole if nothing is to pad.
PaddedLen(cipherLen) == cipherLen + (BlockSize - (cipherLen % BlockSize))

--------------------------------------------------------------------------------------
(* VictronBitReader                                                          *)

\* readUnsignedInt(): the n bits from index at on, the first the least.
ReadUnsignedInt(bits, at, n) ==
    LET value[p \in 0 .. n] == IF p = 0 THEN 0 ELSE value[p - 1] + bits[at + p - 1] * 2^(p - 1)
    IN  value[n]

SignExtend(value, n) == IF (value \div 2^(n - 1)) % 2 = 1 THEN value - 2^n ELSE value

\* Broken variant: the consumed charge is read with 16 bits.
WidthsShort == <<16, 16, 16, 16, 2, 22, 16, 10>>

\* The calls of parseVictronBatteryMonitorTelemetry() in their order: remaining,
\* voltage, alarm, aux, aux mode, current, consumed and state of charge.
Widths == <<16, 16, 16, 16, 2, 22, 20, 10>>

\* bit_index_ before call number k.
BitIndex[k \in 1 .. 9] == IF k = 1 THEN 0 ELSE BitIndex[k - 1] + Widths[k - 1]

Raw(bits, k) == ReadUnsignedInt(bits, BitIndex[k], Widths[k])

\* A division of floats.
Quotient(numerator, denominator) == [num |-> numerator, den |-> denominator]

Unless(none, value) == IF none THEN NotAvailable ELSE value

\* Broken variant: the current is divided like the voltage.
TelemetryMisscaled(bits) ==
    [voltage |-> Unless(Raw(bits, 2) = 2^15 - 1, Quotient(SignExtend(Raw(bits, 2), 16), 100)),
     current |-> Unless(Raw(bits, 6) = 2^22 - 1, Quotient(SignExtend(Raw(bits, 6), 22), 100)),
     soc     |-> Unless(Raw(bits, 8) = 2^10 - 1, Quotient(Raw(bits, 8), 10))]

\* The three fields that storeLatestVictronTelemetry() is passed.
Telemetry(bits) ==
    [voltage |-> Unless(Raw(bits, 2) = 2^15 - 1, Quotient(SignExtend(Raw(bits, 2), 16), 100)),
     current |-> Unless(Raw(bits, 6) = 2^22 - 1, Quotient(SignExtend(Raw(bits, 6), 22), 1000)),
     soc     |-> Unless(Raw(bits, 8) = 2^10 - 1, Quotient(Raw(bits, 8), 10))]
======================================================================================
