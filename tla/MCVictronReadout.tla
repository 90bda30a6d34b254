------------------------------ MODULE MCVictronReadout -------------------------------
EXTENDS VictronReadout, TLC

\* Two bytes, four digits: one too few and one too many, with separators and
\* with characters that are neither.
Writings == UNION {[1 .. n -> {1, 10, Separator, Other}] : n \in 0 .. 5}
MCTexts == [addr : Writings, key : {<<>>}] \cup [addr : {<<1, 10, 1, 1>>, <<1, 1, 1, 10>>}, key : Writings]
MCShuntAddr == <<16 * 1 + 10, 16 * 1 + 1>>
MCShuntKey == <<16 * 10 + 1, 16 * 10 + 10>>

\* The ends of each range, both signs, and the codes for no value.
MCReadings ==
    {[voltage |-> 1280, current |-> 5000, soc |-> 1000],
     [voltage |-> 0, current |-> 0, soc |-> 0],
     [voltage |-> -1, current |-> -2, soc |-> 511],
     [voltage |-> 32766, current |-> 2097151, soc |-> 512],
     [voltage |-> -32768, current |-> -2097152, soc |-> 1022],
     [voltage |-> 16384, current |-> 1048576, soc |-> NotAvailable],
     [voltage |-> NotAvailable, current |-> -5000, soc |-> 1],
     [voltage |-> -16385, current |-> NotAvailable, soc |-> 333],
     [voltage |-> NotAvailable, current |-> NotAvailable, soc |-> NotAvailable]}

\* Every reading in a whole frame; frames without a header, with no ciphertext,
\* cut off within each field, just whole, with bytes to spare, and with two
\* blocks of ciphertext; and one frame for each test to fail.
Sample == [voltage |-> -1, current |-> -5000, soc |-> 333]
MCFrames ==
    [reading : MCReadings, len : {26}, fill : {0, 1}, wrong : {"nothing"}]
    \cup [reading : {Sample}, len : {4, 8, 9, 10, 13, 20, 24, 25, 29}, fill : {0, 1}, wrong : {"nothing"}]
    \cup [reading : {Sample}, len : {26}, fill : {0}, wrong : {"address", "company", "prefix", "key", "type"}]
======================================================================================
