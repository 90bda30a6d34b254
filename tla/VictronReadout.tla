-------------------------------- MODULE VictronReadout -------------------------------
(***************************************************************************)
(* From the configured texts and the advertisements on the air to the      *)
(* snapshot: loadConfig() and the path of a frame from handleGapEvent() to *)
(* storeLatestVictronTelemetry() (BluetoothScanner.cpp).  Each runs in one *)
(* step here; how their steps fall into each other, what the dump task     *)
(* stores again and the time of a snapshot are for VictronSnapshot.        *)
(*                                                                         *)
(* AES is external.  With the shunt's key the ciphertext of a frame gives  *)
(* back the bits of the shunt's record; what is decrypted beyond its end   *)
(* is the padding under a key stream, and what another key gives is no     *)
(* better: bits of no meaning.                                             *)
(***************************************************************************)
EXTENDS VictronConfig, VictronDecode

CONSTANTS
    Texts,                  \* what may be configured; <<>> is the default of each
    ShuntAddr, ShuntKey,    \* the shunt's address and key, first byte to last
    Frames,                 \* what may be on the air
    NoFrame                 \* none has been decoded

VARIABLES
    texts,                      \* CONFIG_CAMPER_VICTRON_TARGET_ADDR and _KEY_HEX
    stage,                      \* how far start() has come
    target_addr, target_addr_configured_,
    victron_key, victron_key_configured_,
    snapshot,                   \* latest_victron_telemetry_
    last                        \* history: the frame it was decoded from

configVars == <<texts, target_addr, target_addr_configured_, victron_key, victron_key_configured_>>
readoutVars == <<configVars, stage, snapshot, last>>

\* A C string of characters.
ASSUME TextsAssumption ==
    \A t \in Texts : t.addr \in Seq(Char) /\ t.key \in Seq(Char)

\* What the shunt measures, in its units, or does not have.  It cannot send a current of -1 mA,
\* the 22 bits of which are the code for none.
Measurable(reading) ==
    /\ reading.voltage = NotAvailable \/ reading.voltage \in -(2^15) .. 2^15 - 2
    /\ \/ reading.current = NotAvailable
       \/ reading.current \in -(2^21) .. 2^21 - 1 /\ reading.current # -1
    /\ reading.soc = NotAvailable \/ reading.soc \in 0 .. 2^10 - 2

\* A frame has a reading of the shunt and len, the bytes of its manufacturer
\* data.  fill is the bit that the fields which are read over are full of; bits
\* of no meaning are the other one.  wrong is the test, if any, that it fails.
ASSUME FramesAssumption ==
    \A frame \in Frames :
        /\ Measurable(frame.reading)
        /\ frame.len \in Nat /\ frame.fill \in {0, 1}
        /\ frame.wrong \in {"nothing", "address", "company", "prefix", "key", "type"}

ReadoutInit ==
    /\ texts \in Texts
    /\ stage = "boot"
    /\ target_addr = Zeros(AddrLen) /\ target_addr_configured_ = FALSE
    /\ victron_key = Zeros(KeyLen) /\ victron_key_configured_ = FALSE
    /\ snapshot = [f \in {"voltage", "current", "soc"} |-> NotAvailable]
    /\ last = NoFrame

--------------------------------------------------------------------------------------
\* loadConfig().  An empty key is allowed, an empty address is not.
LoadConfig ==
    LET addr == ParsedAddr(texts.addr)
        key == ParsedKey(texts.key)
    IN  /\ stage = "boot"
        /\ stage' = "parsed"
        /\ target_addr' = addr.value /\ target_addr_configured_' = addr.ok
        /\ IF addr.ok /\ texts.key # <<>>
             THEN victron_key' = key.value /\ victron_key_configured_' = key.ok
             ELSE UNCHANGED <<victron_key, victron_key_configured_>>
        /\ UNCHANGED <<texts, snapshot, last>>

\* start() goes on only if loadConfig() has returned true.
Start ==
    /\ stage = "parsed"
    /\ stage' = IF target_addr_configured_ /\ (victron_key_configured_ \/ texts.key = <<>>)
                  THEN "scanning" ELSE "off"
    /\ UNCHANGED <<configVars, snapshot, last>>

--------------------------------------------------------------------------------------
\* Victron's layout: the place of each field and what stands there.
Field(reading) ==
    LET code(value, none) == IF value = NotAvailable THEN none ELSE value
    IN  [voltage |-> [at |-> 16, width |-> 16, value |-> code(reading.voltage, 2^15 - 1)],
         current |-> [at |-> 66, width |-> 22, value |-> code(reading.current, 2^22 - 1)],
         soc     |-> [at |-> 108, width |-> 10, value |-> code(reading.soc, 2^10 - 1)]]

Holds(f, i) == i \in f.at .. f.at + f.width - 1
Bit(f, i) == ((f.value % 2^f.width) \div 2^(i - f.at)) % 2

\* The bits of the shunt's record.
Record(reading, fill) ==
    LET f == Field(reading)
    IN  [i \in 0 .. 8 * MaxDecryptedLen - 1 |->
            IF Holds(f.voltage, i) THEN Bit(f.voltage, i)
            ELSE IF Holds(f.current, i) THEN Bit(f.current, i)
            ELSE IF Holds(f.soc, i) THEN Bit(f.soc, i)
            ELSE fill]

\* What follows the two bytes of the company, the seven of the header and the
\* one of the key check.
CipherLen(frame) == frame.len - 10

KeyIsRight == \A i \in 0 .. KeyLen - 1 : victron_key[i] = ShuntKey[i + 1]

\* decryptVictronPayload()
Decrypted(frame) ==
    LET record == Record(frame.reading, frame.fill)
    IN  [i \in 0 .. 8 * PaddedLen(CipherLen(frame)) - 1 |->
            IF KeyIsRight /\ i < 8 * CipherLen(frame) THEN record[i] ELSE 1 - frame.fill]

\* isTargetDevice()
IsTarget(frame) ==
    /\ target_addr_configured_
    /\ frame.wrong # "address"
    /\ \A i \in 0 .. AddrLen - 1 : target_addr[i] = ShuntAddr[AddrLen - i]

\* The tests of logTargetParsedFrame() and what it calls, in their order.
Decodes(frame) ==
    /\ frame.len >= 5
    /\ frame.wrong # "company"
    /\ frame.len - 2 >= 7
    /\ frame.wrong # "prefix"
    /\ victron_key_configured_
    /\ frame.len - 9 # 0
    /\ frame.wrong # "key" /\ victron_key[0] = ShuntKey[1]
    /\ PaddedLen(CipherLen(frame)) <= MaxDecryptedLen
    /\ PaddedLen(CipherLen(frame)) >= BlockSize
    /\ frame.wrong # "type"

\* storeLatestVictronTelemetry() replaces every field.
Stored(telemetry) == telemetry

\* A frame of a device that advertises.
Advertise(frame) ==
    /\ stage = "scanning"
    /\ IsTarget(frame) /\ Decodes(frame)
    /\ snapshot' = Stored(Telemetry(Decrypted(frame)))
    /\ last' = frame
    /\ UNCHANGED <<configVars, stage>>

\* One that is left at one of the tests.
AdvertiseInVain(frame) ==
    /\ stage = "scanning"
    /\ ~(IsTarget(frame) /\ Decodes(frame))
    /\ UNCHANGED readoutVars

ReadoutNext ==
    \/ LoadConfig
    \/ Start
    \/ \E frame \in Frames : Advertise(frame) \/ AdvertiseInVain(frame)

ReadoutSpec == ReadoutInit /\ [][ReadoutNext]_readoutVars

--------------------------------------------------------------------------------------
\* The scanner runs if and only if the texts spell an address and, unless there
\* is none, a key, and then it runs with these: a wrong text is refused, and
\* what parseHexKeyString() has left of it is never used.
ConfigIsWhole ==
    LET addr == Spelled(texts.addr, AddrLen)
        key == Spelled(texts.key, KeyLen)
    IN  /\ stage = "scanning" =>
            /\ addr = [i \in 1 .. AddrLen |-> target_addr[AddrLen - i]]
            /\ IF texts.key = <<>>
                 THEN ~victron_key_configured_
                 ELSE key = [i \in 1 .. KeyLen |-> victron_key[i - 1]]
        /\ stage = "off" => addr = <<>> \/ (texts.key # <<>> /\ key = <<>>)

\* The last bit of each field in the record.
LastBit == [voltage |-> 31, current |-> 87, soc |-> 117]

\* What the shunt counts in, in thousandths of a volt, an ampere and a percent.
Unit == [voltage |-> 10, current |-> 1, soc |-> 100]

\* The stored value is, in volts, amperes or percent, what the shunt measured.
Says(stored, f, measured) ==
    IF measured = NotAvailable THEN stored = NotAvailable
    ELSE stored # NotAvailable /\ 1000 * stored.num = stored.den * (Unit[f] * measured)

\* With the shunt's key, every field of the snapshot that the last frame held
\* to its end is what the shunt measured, sign and unit and the code for no
\* value included, whatever is in the fields around it and in earlier frames.
\* A field that a short frame cut off is noise, of which nothing is said: the
\* length that parseVictronBatteryMonitorTelemetry() tests is the padded one.
StoredIsMeasured ==
    last # NoFrame /\ KeyIsRight =>
        /\ last.wrong = "nothing"
        /\ \A f \in DOMAIN LastBit :
            LastBit[f] < 8 * CipherLen(last) => Says(snapshot[f], f, last.reading[f])
======================================================================================
