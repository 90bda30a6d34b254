------------------------------ MODULE LteDriverProofs --------------------------------
(***************************************************************************)
(* Proofs about AtCommand and, at the end, TickDeadline.                   *)
(*                                                                         *)
(* AtCommand, for any number of commands: no more than one prompted        *)
(* command is under way as long as the caller goes on, so that the one     *)
(* prompt in the channel is its own, and whatever the modem says after a   *)
(* prompt it says of its payload.  A command sent with nothing under way   *)
(* is alone in the channel, and so its verdict is its own, too.            *)
(***************************************************************************)
EXTENDS AtCommand, TickDeadline, SequenceTheorems, TLAPS

Occurring(seq) == {seq[i] : i \in 1 .. Len(seq)}
Unprompted(item) == item.kind \in {"probe", "plain"}
Payload(id) == [id |-> id, kind |-> "payload"]

\* After a prompt the modem has nothing to say but that it gives up.
OnlyErrorsFollow(seq) ==
    \A i, j \in 1 .. Len(seq) : i < j /\ seq[i] = ">" => seq[j] = "ERROR"

\* Who has given up sends and awaits nothing that is prompted for.
PromptedIsEarnest ==
    /\ phase = "prompt" => cmd.kind = "prompted"
    /\ phase # "idle" => cmd.id # 0
    /\ phase # "idle" /\ cmd.kind = "prompted" => ~closing

\* Between its prompted commands a caller that goes on has left no prompt, no
\* modem that waits for data and nothing that could make it wait.
NoPromptIsLeft ==
    ~closing /\ (phase = "idle" \/ cmd.kind # "prompted") =>
        /\ mode = 0
        /\ ">" \notin Occurring(rx) \cup Occurring(line)
        /\ \A i \in 1 .. Len(inbox) : Unprompted(inbox[i])

\* The command is behind unprompted ones on its way to the modem, ...
CommandIsUnderWay ==
    /\ mode = 0
    /\ ">" \notin Occurring(rx) \cup Occurring(line)
    /\ inbox # << >>
    /\ inbox[Len(inbox)] = cmd
    /\ \A i \in 1 .. Len(inbox) - 1 : Unprompted(inbox[i])

\* ... or the modem has taken it, and its prompt is the last it has said.
CommandIsTaken ==
    /\ inbox = << >>
    /\ mode \in {0, cmd.id}
    /\ OnlyErrorsFollow(rx)
    /\ OnlyErrorsFollow(line)
    /\ ">" \in Occurring(rx) => Occurring(line) \subseteq {"ERROR"}

PromptIsOwn ==
    phase = "prompt" =>
        /\ ">" \notin response
        /\ CommandIsUnderWay \/ CommandIsTaken

\* All that is heard after the prompt is about the payload.
AnswerIsOwn ==
    phase = "answer" /\ cmd.kind = "prompted" =>
        /\ ">" \notin response \cup Occurring(rx) \cup Occurring(line)
        /\ inbox \in {<< >>, <<Payload(cmd.id)>>}
        /\ mode \in {0, cmd.id}
        /\ inbox = << >> => mode = 0
        /\ "OK" \in response \cup Occurring(rx) \cup Occurring(line) =>
            cmd.id \in executed /\ inbox = << >>

\* What is sent while somebody wants it is in front of what may be swallowed.
WantedIsAhead ==
    /\ wanted \subseteq 1 .. cmd.id /\ swallowed \subseteq 1 .. cmd.id
    /\ \A i \in 1 .. Len(inbox) : inbox[i].id \in 1 .. cmd.id
    /\ \A i, j \in 1 .. Len(inbox) :
        i < j /\ inbox[i].kind = "prompted" => inbox[j].id \notin wanted
    /\ mode # 0 =>
        \A i \in 1 .. Len(inbox) : inbox[i].id \in wanted => inbox[i] = Payload(mode)

IInv ==
    /\ TypeOK
    /\ PromptedIsEarnest
    /\ NoPromptIsLeft
    /\ PromptIsOwn
    /\ AnswerIsOwn
    /\ WantedIsAhead
    /\ PromptedOkIsOwn
    /\ OnlyClosingIsSwallowed

--------------------------------------------------------------------------------------
(* Sequences.                                                                *)

LEMMA AppendFacts ==
    ASSUME NEW S, NEW s \in Seq(S), NEW x \in S
    PROVE  /\ Append(s, x) \in Seq(S) /\ Append(s, x) # << >>
           /\ Len(Append(s, x)) = Len(s) + 1
           /\ \A i \in 1 .. Len(s) : Append(s, x)[i] = s[i]
           /\ Append(s, x)[Len(s) + 1] = x
           /\ Occurring(Append(s, x)) = Occurring(s) \cup {x}
  <1>1. /\ Append(s, x) \in Seq(S) /\ Append(s, x) # << >>
        /\ Len(s) \in Nat /\ Len(Append(s, x)) = Len(s) + 1
        /\ \A i \in 1 .. Len(s) : Append(s, x)[i] = s[i]
        /\ Append(s, x)[Len(s) + 1] = x
    OBVIOUS
  <1>2. \A i \in 1 .. Len(s) + 1 : i \in 1 .. Len(s) \/ i = Len(s) + 1
    BY <1>1
  <1>3. 1 .. Len(s) \subseteq 1 .. Len(s) + 1 /\ Len(s) + 1 \in 1 .. Len(s) + 1
    BY <1>1
  <1> QED
    BY <1>1, <1>2, <1>3 DEF Occurring

LEMMA TailFacts ==
    ASSUME NEW S, NEW s \in Seq(S), s # << >>
    PROVE  /\ Head(s) \in S /\ Head(s) = s[1] /\ Len(s) \in Nat \ {0}
           /\ Tail(s) \in Seq(S)
           /\ Len(Tail(s)) = Len(s) - 1
           /\ \A i \in 1 .. Len(s) - 1 : Tail(s)[i] = s[i + 1]
           /\ Occurring(s) = {Head(s)} \cup Occurring(Tail(s))
  <1>1. /\ Head(s) \in S /\ Head(s) = s[1] /\ Len(s) \in Nat \ {0}
        /\ Tail(s) \in Seq(S)
        /\ Len(Tail(s)) = Len(s) - 1
        /\ \A i \in 1 .. Len(s) - 1 : Tail(s)[i] = s[i + 1]
    OBVIOUS
  <1>2. \A i \in 1 .. Len(s) : i = 1 \/ (i - 1 \in 1 .. Len(s) - 1 /\ s[i] = Tail(s)[i - 1])
    BY <1>1
  <1>3. \A i \in 1 .. Len(s) - 1 : i + 1 \in 1 .. Len(s)
    BY <1>1
  <1>4. Occurring(s) \subseteq {Head(s)} \cup Occurring(Tail(s))
    BY <1>1, <1>2 DEF Occurring
  <1>5. Occurring(Tail(s)) \subseteq Occurring(s)
    BY <1>1, <1>3 DEF Occurring
  <1>6. Head(s) \in Occurring(s)
    BY <1>1 DEF Occurring
  <1> QED
    BY <1>1, <1>4, <1>5, <1>6

LEMMA AppendCases ==
    ASSUME NEW S, NEW s \in Seq(S), NEW x \in S, NEW i \in 1 .. Len(Append(s, x))
    PROVE  \/ i \in 1 .. Len(s) /\ Append(s, x)[i] = s[i]
           \/ i = Len(s) + 1 /\ Append(s, x)[i] = x
  OBVIOUS

\* What is left of a sequence of which n elements are read.
LEMMA RestFacts ==
    ASSUME NEW S, NEW s \in Seq(S), NEW n \in 0 .. Len(s)
    PROVE  /\ SubSeq(s, n + 1, Len(s)) \in Seq(S)
           /\ Len(SubSeq(s, n + 1, Len(s))) = Len(s) - n
           /\ \A i \in 1 .. Len(s) - n : SubSeq(s, n + 1, Len(s))[i] = s[n + i]
           /\ Occurring(SubSeq(s, n + 1, Len(s))) \subseteq Occurring(s)
           /\ {s[i] : i \in 1 .. n} \subseteq S /\ {s[i] : i \in 1 .. n} \subseteq Occurring(s)
  <1>1. Len(s) \in Nat /\ n \in Nat /\ n <= Len(s)
    OBVIOUS
  <1>2. /\ SubSeq(s, n + 1, Len(s)) \in Seq(S)
        /\ Len(SubSeq(s, n + 1, Len(s))) = Len(s) - n
        /\ \A i \in 1 .. Len(s) - n : SubSeq(s, n + 1, Len(s))[i] = s[n + i]
    BY <1>1
  <1>3. \A i \in 1 .. Len(s) - n : n + i \in 1 .. Len(s)
    BY <1>1
  <1>4. \A i \in 1 .. n : i \in 1 .. Len(s) /\ s[i] \in S
    BY <1>1
  <1> QED
    BY <1>2, <1>3, <1>4 DEF Occurring

LEMMA AnswerFacts ==
    ASSUME NEW s \in Seq(Token), NEW x \in Token
    PROVE  s \o << >> = s /\ s \o <<x>> = Append(s, x)
  BY AppendIsConcat, ConcatEmptySeq

\* The modem says at most one thing at a time.
LEMMA Says ==
    ASSUME line \in Seq(Token), NEW X \in SUBSET Token, NEW T,
           \A t \in T : t = << >> \/ \E x \in X : t = <<x>>, Answers(T)
    PROVE  line' = line \/ \E x \in X : line' = Append(line, x)
  BY AnswerFacts DEF Answers

LEMMA NothingOccurs ==
    /\ Occurring(<< >>) = {}
    /\ OnlyErrorsFollow(<< >>)
    /\ \A S : << >> \in Seq(S)
  BY DEF Occurring, OnlyErrorsFollow

\* A last word keeps the order: after other words any, after a prompt an error.
LEMMA ErrorFollows ==
    ASSUME NEW s \in Seq(Token), NEW x \in Token,
           \/ ">" \notin Occurring(s)
           \/ OnlyErrorsFollow(s) /\ x = "ERROR"
    PROVE  OnlyErrorsFollow(Append(s, x))
  <1>1. /\ Len(Append(s, x)) = Len(s) + 1 /\ Len(s) \in Nat
        /\ \A i \in 1 .. Len(s) : Append(s, x)[i] = s[i]
        /\ Append(s, x)[Len(s) + 1] = x
    BY AppendFacts
  <1>2. SUFFICES ASSUME NEW i \in 1 .. Len(s) + 1, NEW j \in 1 .. Len(s) + 1,
                        i < j, Append(s, x)[i] = ">"
                 PROVE  Append(s, x)[j] = "ERROR"
    BY <1>1 DEF OnlyErrorsFollow
  <1>3. i \in 1 .. Len(s) /\ s[i] = ">"
    BY <1>1, <1>2
  <1>4. ">" \in Occurring(s)
    BY <1>3 DEF Occurring
  <1>5. OnlyErrorsFollow(s) /\ x = "ERROR"
    BY <1>4
  <1>6. CASE j \in 1 .. Len(s)
    BY <1>1, <1>2, <1>3, <1>5, <1>6 DEF OnlyErrorsFollow
  <1>7. CASE j = Len(s) + 1
    BY <1>1, <1>5, <1>7
  <1> QED
    BY <1>1, <1>6, <1>7


--------------------------------------------------------------------------------------
(* What the steps of the driver preserve.                                    *)

\* The types, as far as the proofs need to cite them again and again.
LEMMA Types ==
    ASSUME TypeOK
    PROVE  /\ rx \in Seq(Token) /\ line \in Seq(Token) /\ inbox \in Seq(Item)
           /\ Len(rx) \in Nat /\ Len(line) \in Nat /\ Len(inbox) \in Nat
           /\ cmd \in Command /\ cmd.id \in 0 .. MaxCommands /\ cmd.kind \in Kind
           /\ \A i \in 1 .. Len(inbox) : inbox[i] \in Item
           /\ MaxCommands \in Nat
  BY MaxCommandsAssumption DEF TypeOK, Command

\* A command is sent, or is not for an error of the UART driver.
LEMMA SendPreserves ==
    ASSUME IInv, NEW kind \in Kind, Send(kind) \/ SendFails(kind)
    PROVE  IInv'
  <1> DEFINE new == [id |-> cmd.id + 1, kind |-> kind]
  <1>1. /\ phase = "idle" /\ cmd.id < MaxCommands /\ kind \in Sendable
        /\ rx' \in Flushed(kind) /\ cmd' = new /\ response' = {}
        /\ wanted' = (IF closing THEN wanted ELSE wanted \cup {cmd.id + 1})
        /\ inSync' \in BOOLEAN
        /\ UNCHANGED <<line, mode, executed, swallowed>>
    <2>1. Begin(kind) /\ UNCHANGED <<line, mode, executed, swallowed>>
      BY DEF Send, SendFails, modemVars
    <2>2. inSync' \in BOOLEAN
      BY <2>1, Zenon DEF Begin
    <2> QED
      BY <2>1, <2>2 DEF Begin
  <1>2. \/ /\ phase' = (IF kind = "prompted" THEN "prompt" ELSE "answer")
           /\ inbox' = Append(inbox, new)
           /\ UNCHANGED <<verdict, awake, closing>>
        \/ /\ phase' = "idle" /\ verdict' = "ESP_FAIL" /\ awake' \in BOOLEAN
           /\ closing' \in GivesUp("ESP_FAIL", kind)
           /\ UNCHANGED inbox
    BY <1>1 DEF Send, SendFails, Return, modemVars, IInv, TypeOK
  <1>3. /\ TypeOK
        /\ rx \in Seq(Token) /\ line \in Seq(Token) /\ inbox \in Seq(Item)
        /\ cmd.id \in 0 .. MaxCommands /\ MaxCommands \in Nat /\ Len(inbox) \in Nat
    BY Types DEF IInv
  <1>4. /\ rx' \in {rx, << >>} /\ rx' \in Seq(Token) /\ Occurring(rx') \subseteq Occurring(rx)
    BY <1>1, <1>3, NothingOccurs DEF Flushed
  <1>5. /\ cmd.id + 1 \in 1 .. MaxCommands /\ new \in Command /\ new \in Item
        /\ new.id = cmd.id + 1 /\ new.kind = kind
        /\ cmd'.id = cmd.id + 1 /\ cmd'.kind = kind
    BY <1>1, <1>3 DEF Command, Item, Kind
  <1>6. /\ closing \in BOOLEAN /\ closing' \in BOOLEAN /\ (closing => closing')
        /\ kind = "prompted" => ~closing
        /\ kind = "prompted" /\ phase' = "idle" => closing'
        /\ phase' # "idle" => closing' = closing
    BY <1>1, <1>2 DEF IInv, TypeOK, GivesUp, Sendable
  <1>7. inbox' \in {inbox, Append(inbox, new)} /\ inbox' \in Seq(Item)
    <2>1. Append(inbox, new) \in Seq(Item)
      BY <1>3, <1>5, AppendFacts
    <2> QED
      BY <1>2, <1>3, <2>1, Zenon
  <1>8. ~closing => /\ mode = 0
                    /\ ">" \notin Occurring(rx) \cup Occurring(line)
                    /\ \A i \in 1 .. Len(inbox) : Unprompted(inbox[i])
    BY <1>1 DEF IInv, NoPromptIsLeft
  <1>9. TypeOK'
    BY <1>1, <1>2, <1>3, <1>4, <1>5, <1>6, <1>7 DEF TypeOK, Verdict
  <1>10. PromptedIsEarnest'
    BY <1>1, <1>2, <1>3, <1>5, <1>6 DEF PromptedIsEarnest, Kind
  <1>11. /\ Len(Append(inbox, new)) = Len(inbox) + 1
         /\ \A i \in 1 .. Len(inbox) : Append(inbox, new)[i] = inbox[i]
         /\ Append(inbox, new)[Len(inbox) + 1] = new
         /\ Append(inbox, new) # << >>
    BY <1>3, <1>5, AppendFacts
  <1>12. NoPromptIsLeft'
    <2>1. SUFFICES ASSUME ~closing', phase' = "idle" \/ kind # "prompted"
                   PROVE  /\ mode = 0
                          /\ ">" \notin Occurring(rx') \cup Occurring(line)
                          /\ \A i \in 1 .. Len(inbox') : Unprompted(inbox'[i])
      BY <1>1, <1>5 DEF NoPromptIsLeft
    <2>2. ~closing /\ kind # "prompted"
      BY <1>6, <2>1
    <2>3. \A i \in 1 .. Len(inbox') : Unprompted(inbox'[i])
      <3>1. CASE inbox' = inbox
        BY <1>8, <2>2, <3>1
      <3>2. CASE inbox' = Append(inbox, new)
        <4>1. \A i \in 1 .. Len(inbox) + 1 : i \in 1 .. Len(inbox) \/ i = Len(inbox) + 1
          BY <1>3
        <4>2. Unprompted(new)
          BY <1>5, <2>2 DEF Unprompted, Kind
        <4> QED
          BY <1>8, <1>11, <2>2, <3>2, <4>1, <4>2
      <3> QED
        BY <1>7, <3>1, <3>2
    <2> QED
      BY <1>4, <1>8, <2>2, <2>3
  <1>13. PromptIsOwn'
    <2>1. SUFFICES ASSUME phase' = "prompt" PROVE CommandIsUnderWay'
      BY <1>1 DEF PromptIsOwn
    <2>2. kind = "prompted" /\ inbox' = Append(inbox, new) /\ ~closing
      BY <1>2, <1>6, <2>1
    <2>3. Len(inbox') = Len(inbox) + 1 /\ Len(inbox') - 1 = Len(inbox)
      BY <1>3, <1>11, <2>2
    <2>4. /\ inbox'[Len(inbox')] = cmd' /\ inbox' # << >>
          /\ \A i \in 1 .. Len(inbox') - 1 : Unprompted(inbox'[i])
      BY <1>1, <1>8, <1>11, <2>2, <2>3
    <2> QED
      BY <1>1, <1>4, <1>8, <2>2, <2>4 DEF CommandIsUnderWay
  <1>14. AnswerIsOwn'
    BY <1>1, <1>2, <1>5 DEF AnswerIsOwn
  <1>15. \A i \in 1 .. Len(inbox') :
            \/ i \in 1 .. Len(inbox) /\ inbox'[i] = inbox[i]
            \/ i = Len(inbox) + 1 /\ inbox'[i] = new
    <2>1. CASE inbox' = inbox
      BY <2>1
    <2>2. CASE inbox' = Append(inbox, new)
      BY <1>3, <1>5, <2>2, AppendCases
    <2> QED
      BY <1>7, <2>1, <2>2
  <1>16. WantedIsAhead'
    <2>1. /\ wanted \subseteq 1 .. cmd.id /\ cmd.id + 1 \notin wanted
          /\ swallowed \subseteq 1 .. cmd.id
          /\ \A i \in 1 .. Len(inbox) : inbox[i].id \in 1 .. cmd.id
      BY <1>3 DEF IInv, WantedIsAhead
    <2>2. wanted' \subseteq 1 .. cmd'.id /\ swallowed' \subseteq 1 .. cmd'.id
      <3>1. 1 .. cmd.id \subseteq 1 .. cmd.id + 1 /\ cmd.id + 1 \in 1 .. cmd.id + 1
        BY <1>3
      <3> QED
        BY <1>1, <1>5, <2>1, <3>1
    <2>5. \A i \in 1 .. Len(inbox') : inbox'[i].id \in 1 .. cmd'.id
      <3>1. \A k \in 1 .. cmd.id : k \in 1 .. cmd.id + 1
        BY <1>3
      <3>2. cmd.id + 1 \in 1 .. cmd.id + 1
        BY <1>3
      <3> QED
        BY <1>5, <1>15, <2>1, <3>1, <3>2
    <2>3. ASSUME NEW i \in 1 .. Len(inbox'), NEW j \in 1 .. Len(inbox'),
                 i < j, inbox'[i].kind = "prompted"
          PROVE  inbox'[j].id \notin wanted'
      <3>1. i \in 1 .. Len(inbox) /\ inbox'[i] = inbox[i]
        <4>1. j <= Len(inbox) + 1 /\ Len(inbox) \in Nat /\ j \in Int /\ i \in Int
          BY <1>3, <1>15
        <4>2. i # Len(inbox) + 1
          BY <2>3, <4>1
        <4> QED
          BY <1>15, <4>2
      <3>2. closing /\ wanted' = wanted
        BY <1>1, <1>8, <2>3, <3>1 DEF Unprompted
      <3>3. CASE j \in 1 .. Len(inbox) /\ inbox'[j] = inbox[j]
        BY <2>3, <3>1, <3>2, <3>3 DEF IInv, WantedIsAhead
      <3>4. CASE inbox'[j] = new
        BY <1>5, <2>1, <3>2, <3>4
      <3> QED
        BY <1>15, <3>3, <3>4
    <2>4. ASSUME mode' # 0, NEW i \in 1 .. Len(inbox'), inbox'[i].id \in wanted'
          PROVE  inbox'[i] = Payload(mode')
      <3>1. mode' = mode /\ closing /\ wanted' = wanted
        BY <1>1, <1>8, <2>4
      <3>2. CASE i \in 1 .. Len(inbox) /\ inbox'[i] = inbox[i]
        BY <2>4, <3>1, <3>2 DEF IInv, WantedIsAhead
      <3>3. CASE inbox'[i] = new
        BY <1>5, <2>1, <2>4, <3>1, <3>3
      <3> QED
        BY <1>15, <3>2, <3>3
    <2> QED
      BY <2>2, <2>3, <2>4, <2>5 DEF WantedIsAhead
  <1>17. PromptedOkIsOwn'
    BY <1>1, <1>2, <1>5 DEF PromptedOkIsOwn
  <1>18. OnlyClosingIsSwallowed'
    <2>1. swallowed \cap wanted = {} /\ cmd.id + 1 \notin swallowed
      BY <1>3 DEF IInv, OnlyClosingIsSwallowed, WantedIsAhead
    <2> QED
      BY <1>1, <2>1 DEF OnlyClosingIsSwallowed
  <1> QED
    BY <1>9, <1>10, <1>12, <1>13, <1>14, <1>16, <1>17, <1>18 DEF IInv


LEMMA ReadFacts ==
    ASSUME TypeOK, Read
    PROVE  /\ rx' \in Seq(Token) /\ Occurring(rx') \subseteq Occurring(rx)
           /\ OnlyErrorsFollow(rx) => OnlyErrorsFollow(rx')
           /\ response' \in SUBSET Token /\ response' \subseteq response \cup Occurring(rx)
           /\ UNCHANGED <<cmd, line, mode, executed, swallowed, wanted, inSync>>
  <1>1. PICK n \in 0 .. Len(rx) :
            /\ rx' = SubSeq(rx, n + 1, Len(rx))
            /\ response' = response \cup {rx[i] : i \in 1 .. n}
    BY DEF Read
  <1>2. rx \in Seq(Token) /\ Len(rx) \in Nat /\ response \in SUBSET Token
    BY Types DEF TypeOK
  <1>3. /\ rx' \in Seq(Token) /\ Len(rx') = Len(rx) - n
        /\ \A i \in 1 .. Len(rx) - n : rx'[i] = rx[n + i]
        /\ Occurring(rx') \subseteq Occurring(rx)
        /\ {rx[i] : i \in 1 .. n} \subseteq Token /\ {rx[i] : i \in 1 .. n} \subseteq Occurring(rx)
    BY <1>1, <1>2, RestFacts
  <1>4. ASSUME OnlyErrorsFollow(rx) PROVE OnlyErrorsFollow(rx')
    <2>1. SUFFICES ASSUME NEW i \in 1 .. Len(rx) - n, NEW j \in 1 .. Len(rx) - n, i < j, rx'[i] = ">"
                   PROVE  rx'[j] = "ERROR"
      BY <1>3 DEF OnlyErrorsFollow
    <2>2. n + i \in 1 .. Len(rx) /\ n + j \in 1 .. Len(rx) /\ n + i < n + j
      BY <1>2, <2>1
    <2> QED
      BY <1>3, <1>4, <2>1, <2>2 DEF OnlyErrorsFollow
  <1> QED
    BY <1>1, <1>2, <1>3, <1>4 DEF Read, historyVars

\* A failure of a prompted command makes the caller give up for good.
LEMMA ReturnFacts ==
    ASSUME TypeOK, NEW v \in Verdict, Return(v, cmd.kind)
    PROVE  /\ phase' = "idle" /\ verdict' = v
           /\ awake' \in BOOLEAN /\ closing' \in BOOLEAN
           /\ closing => closing'
           /\ cmd.kind = "prompted" /\ ~closing' => v = "ESP_OK"
  BY DEF Return, GivesUp, TypeOK

\* The driver reads on, or returns, with nothing sent.
LEMMA WaitPreserves ==
    ASSUME IInv, phase # "idle",
           UNCHANGED <<cmd, line, inbox, mode, executed, swallowed, wanted, inSync>>,
           rx' \in Seq(Token), Occurring(rx') \subseteq Occurring(rx),
           OnlyErrorsFollow(rx) => OnlyErrorsFollow(rx'),
           response' \in SUBSET Token, response' \subseteq response \cup Occurring(rx),
           \/ KeepsWaiting /\ (phase = "prompt" => ">" \notin response')
           \/ \E v \in Verdict :
                Return(v, cmd.kind) /\ (v = "ESP_OK" => phase = "answer" /\ "OK" \in response')
    PROVE  IInv'
  <1>1. TypeOK
    BY DEF IInv
  <1>2. \/ UNCHANGED <<phase, verdict, awake, closing>> /\ (phase = "prompt" => ">" \notin response')
        \/ /\ phase' = "idle" /\ verdict' \in Verdict /\ awake' \in BOOLEAN /\ closing' \in BOOLEAN
           /\ closing => closing'
           /\ cmd.kind = "prompted" /\ ~closing' => verdict' = "ESP_OK"
           /\ verdict' = "ESP_OK" => phase = "answer" /\ "OK" \in response'
    BY <1>1, ReturnFacts DEF KeepsWaiting
  <1>3. TypeOK'
    BY <1>1, <1>2 DEF TypeOK
  <1>4. PromptedIsEarnest'
    BY <1>2 DEF IInv, PromptedIsEarnest
  <1>5. ASSUME phase' = "idle", verdict' = "ESP_OK", cmd.kind = "prompted"
        PROVE  /\ cmd.id \in executed /\ inbox = << >> /\ mode = 0
               /\ ">" \notin Occurring(rx) \cup Occurring(line)
    BY <1>2, <1>5 DEF IInv, AnswerIsOwn
  <1>6. NoPromptIsLeft'
    <2>1. SUFFICES ASSUME ~closing', phase' = "idle" \/ cmd.kind # "prompted"
                   PROVE  /\ mode = 0
                          /\ ">" \notin Occurring(rx) \cup Occurring(line)
                          /\ \A i \in 1 .. Len(inbox) : Unprompted(inbox[i])
      BY DEF NoPromptIsLeft
    <2>2. ~closing
      BY <1>2, <2>1
    <2>3. CASE cmd.kind # "prompted"
      BY <2>2, <2>3 DEF IInv, NoPromptIsLeft
    <2>4. CASE cmd.kind = "prompted"
      <3>1. phase' = "idle" /\ verdict' = "ESP_OK"
        BY <1>2, <2>1, <2>4
      <3>2. Len(inbox) = 0
        BY <1>5, <2>4, <3>1
      <3> QED
        BY <1>5, <2>4, <3>1, <3>2
    <2> QED
      BY <2>3, <2>4
  <1>7. PromptIsOwn'
    BY <1>2 DEF IInv, PromptIsOwn, CommandIsUnderWay, CommandIsTaken
  <1>8. AnswerIsOwn'
    BY <1>2 DEF IInv, AnswerIsOwn
  <1>9. WantedIsAhead' /\ OnlyClosingIsSwallowed'
    BY DEF IInv, WantedIsAhead, OnlyClosingIsSwallowed
  <1>10. PromptedOkIsOwn'
    BY <1>5 DEF PromptedOkIsOwn
  <1> QED
    BY <1>3, <1>4, <1>6, <1>7, <1>8, <1>9, <1>10 DEF IInv

LEMMA ReadPreserves ==
    ASSUME IInv, ReadAnswer \/ ReadNoPrompt
    PROVE  IInv'
  <1>1. TypeOK /\ Read /\ UNCHANGED inbox /\ phase # "idle"
    BY DEF IInv, ReadAnswer, ReadNoPrompt
  <1>2. CASE ReadAnswer
    <2>1. Judged(response') \in Verdict /\ (Judged(response') = "ESP_OK" => "OK" \in response')
      BY DEF Judged, Verdict
    <2>2. phase = "answer" /\ (KeepsWaiting \/ Return(Judged(response'), cmd.kind))
      BY <1>2 DEF ReadAnswer
    <2> QED
      BY <1>1, <2>1, <2>2, ReadFacts, WaitPreserves
  <1>3. CASE ReadNoPrompt
    <2>1. \/ KeepsWaiting /\ ">" \notin response'
          \/ Return("ESP_FAIL", cmd.kind)
      BY <1>3 DEF ReadNoPrompt
    <2>2. "ESP_FAIL" \in Verdict
      BY DEF Verdict
    <2> QED
      BY <1>1, <2>1, <2>2, ReadFacts, WaitPreserves
  <1> QED
    BY <1>2, <1>3

LEMMA TimeOutPreserves ==
    ASSUME IInv, TimeOut
    PROVE  IInv'
  <1>1. /\ UNCHANGED <<cmd, line, inbox, mode, executed, swallowed, wanted, inSync, response, rx>>
        /\ phase # "idle" /\ Return("ESP_ERR_TIMEOUT", cmd.kind)
    BY DEF TimeOut, modemVars, historyVars
  <1>2. "ESP_ERR_TIMEOUT" \in Verdict
    BY DEF Verdict
  <1>3. rx \in Seq(Token) /\ response \in SUBSET Token
    BY DEF IInv, TypeOK
  <1> QED
    BY <1>1, <1>2, <1>3, WaitPreserves

\* The one prompt in the channel is read.
LEMMA PromptPreserves ==
    ASSUME IInv, ReadPrompt
    PROVE  IInv'
  <1>1. /\ TypeOK /\ rx \in Seq(Token) /\ line \in Seq(Token) /\ Len(rx) \in Nat
        /\ cmd.id \in 0 .. MaxCommands
    BY Types DEF IInv
  <1>2. PICK n \in 1 .. Len(rx) :
            /\ ">" \in response \cup {rx[i] : i \in 1 .. n}
            /\ rx' = SubSeq(rx, n + 1, Len(rx))
            /\ response' = {}
    BY DEF ReadPrompt, TextAfterPrompt
  <1>3. /\ phase = "prompt"
        /\ UNCHANGED <<cmd, line, mode, executed, swallowed, wanted, inSync>>
        /\ \/ /\ phase' = "answer" /\ inbox' = Append(inbox, Payload(cmd.id))
              /\ UNCHANGED <<verdict, awake, closing>>
           \/ Return("ESP_FAIL", cmd.kind) /\ UNCHANGED inbox
    BY DEF ReadPrompt, historyVars, Payload
  <1>4. /\ cmd.kind = "prompted" /\ ~closing /\ cmd.id \in 1 .. MaxCommands
    BY <1>1, <1>3 DEF IInv, PromptedIsEarnest
  <1>5. PICK i \in 1 .. n : rx[i] = ">"
    BY <1>2, <1>3 DEF IInv, PromptIsOwn
  <1>6. i \in 1 .. Len(rx) /\ ">" \in Occurring(rx)
    BY <1>1, <1>5 DEF Occurring
  <1>7. CommandIsTaken
    BY <1>3, <1>6 DEF IInv, PromptIsOwn, CommandIsUnderWay
  <1>8. rx' \in Seq(Token) /\ Occurring(rx') \subseteq {"ERROR"} /\ Occurring(line) \subseteq {"ERROR"}
    <2>1. n \in 0 .. Len(rx)
      BY <1>1
    <2>2. /\ rx' \in Seq(Token) /\ Len(rx') = Len(rx) - n
          /\ \A j \in 1 .. Len(rx) - n : rx'[j] = rx[n + j]
      BY <1>1, <1>2, <2>1, RestFacts
    <2>3. \A j \in 1 .. Len(rx) - n : n + j \in 1 .. Len(rx) /\ i < n + j
      BY <1>1, <1>5
    <2>4. \A j \in 1 .. Len(rx) - n : rx'[j] = "ERROR"
      BY <1>5, <1>6, <1>7, <2>2, <2>3 DEF CommandIsTaken, OnlyErrorsFollow
    <2> QED
      BY <1>6, <1>7, <2>2, <2>4 DEF CommandIsTaken, Occurring
  <1>9. inbox = << >> /\ mode \in {0, cmd.id}
    BY <1>7 DEF CommandIsTaken
  <1>10. Payload(cmd.id) \in Item /\ Payload(cmd.id).id = cmd.id /\ Payload(cmd.id).kind = "payload"
    BY <1>4 DEF Payload, Item
  <1>11. Append(<< >>, Payload(cmd.id)) = <<Payload(cmd.id)>> /\ <<Payload(cmd.id)>> \in Seq(Item)
    BY <1>10
  <1>12. CASE phase' = "answer" /\ inbox' = <<Payload(cmd.id)>> /\ UNCHANGED <<verdict, awake, closing>>
    <2>1. TypeOK'
      BY <1>1, <1>2, <1>3, <1>8, <1>11, <1>12 DEF TypeOK
    <2>2. PromptedIsEarnest' /\ NoPromptIsLeft' /\ PromptIsOwn' /\ PromptedOkIsOwn'
      BY <1>3, <1>4, <1>12
      DEF PromptedIsEarnest, NoPromptIsLeft, PromptIsOwn, PromptedOkIsOwn
    <2>3. AnswerIsOwn'
      BY <1>2, <1>3, <1>8, <1>9, <1>12 DEF AnswerIsOwn
    <2>4. WantedIsAhead'
      <3>1. Len(inbox') = 1 /\ inbox'[1] = Payload(cmd.id)
        BY <1>12
      <3>2. mode' # 0 => Payload(cmd.id) = Payload(mode')
        BY <1>3, <1>9
      <3>3. \A k \in 1 .. Len(inbox') : k = 1
        BY <3>1
      <3>4. \A k, l \in 1 .. Len(inbox') : ~(k < l)
        BY <3>1
      <3>5. wanted' \subseteq 1 .. cmd'.id /\ swallowed' \subseteq 1 .. cmd'.id
        BY <1>3 DEF IInv, WantedIsAhead
      <3>6. cmd'.id \in 1 .. cmd'.id
        BY <1>3, <1>4
      <3> QED
        BY <1>3, <1>10, <3>1, <3>2, <3>3, <3>4, <3>5, <3>6 DEF WantedIsAhead
    <2>5. OnlyClosingIsSwallowed'
      BY <1>3 DEF IInv, OnlyClosingIsSwallowed
    <2> QED
      BY <2>1, <2>2, <2>3, <2>4, <2>5 DEF IInv
  <1>13. CASE Return("ESP_FAIL", cmd.kind) /\ UNCHANGED inbox
    <2>1. phase' = "idle" /\ verdict' = "ESP_FAIL" /\ awake' \in BOOLEAN /\ closing' = TRUE
      BY <1>1, <1>4, <1>13 DEF Return, GivesUp, TypeOK
    <2>2. TypeOK'
      BY <1>1, <1>2, <1>3, <1>8, <1>13, <2>1 DEF TypeOK, Verdict
    <2>3. /\ PromptedIsEarnest' /\ NoPromptIsLeft' /\ PromptIsOwn' /\ AnswerIsOwn'
          /\ PromptedOkIsOwn'
      BY <2>1 DEF PromptedIsEarnest, NoPromptIsLeft, PromptIsOwn, AnswerIsOwn, PromptedOkIsOwn
    <2>4. WantedIsAhead' /\ OnlyClosingIsSwallowed'
      BY <1>3, <1>13 DEF IInv, WantedIsAhead, OnlyClosingIsSwallowed
    <2> QED
      BY <2>2, <2>3, <2>4 DEF IInv
  <1> QED
    BY <1>3, <1>9, <1>11, <1>12, <1>13

LEMMA PowerCyclePreserves ==
    ASSUME IInv, PowerCycle
    PROVE  IInv'
  <1>1. /\ phase' = "idle" /\ cmd' = [id |-> 0, kind |-> "probe"] /\ verdict' = "none"
        /\ response' = {} /\ awake' = FALSE /\ closing' = FALSE
        /\ rx' = << >> /\ line' = << >> /\ inbox' = << >> /\ mode' = 0
        /\ executed' = {} /\ swallowed' = {} /\ wanted' = {} /\ inSync' = TRUE
    BY DEF PowerCycle
  <1>2. cmd' \in Command /\ 0 \in 0 .. MaxCommands /\ Len(inbox') = 0
    BY <1>1, MaxCommandsAssumption DEF Command, Kind
  <1>3. TypeOK'
    BY <1>1, <1>2, NothingOccurs DEF TypeOK, Verdict
  <1>4. NoPromptIsLeft'
    BY <1>1, <1>2, NothingOccurs DEF NoPromptIsLeft
  <1>5. PromptedIsEarnest' /\ PromptIsOwn' /\ AnswerIsOwn' /\ PromptedOkIsOwn'
    BY <1>1 DEF PromptedIsEarnest, PromptIsOwn, AnswerIsOwn, PromptedOkIsOwn
  <1>6. WantedIsAhead' /\ OnlyClosingIsSwallowed'
    BY <1>1, <1>2 DEF WantedIsAhead, OnlyClosingIsSwallowed
  <1> QED
    BY <1>3, <1>4, <1>5, <1>6 DEF IInv


--------------------------------------------------------------------------------------
(* What the steps of the modem and of the UART preserve.                     *)

\* The driver does nothing meanwhile.
DriverRests == UNCHANGED <<phase, cmd, response, verdict, awake, closing, wanted, inSync>>

LEMMA TakesNextFacts ==
    ASSUME TypeOK, NEW may \in BOOLEAN, TakesNext(may)
    PROVE  /\ inbox # << >> /\ may /\ DriverRests /\ rx' = rx
           /\ Head(inbox) \in Item /\ Head(inbox) = inbox[1] /\ Len(inbox) \in Nat \ {0}
           /\ inbox' \in Seq(Item) /\ Len(inbox') = Len(inbox) - 1
           /\ \A i \in 1 .. Len(inbox) - 1 : inbox'[i] = inbox[i + 1]
  <1>1. inbox # << >> /\ may /\ inbox' = Tail(inbox) /\ DriverRests /\ rx' = rx
    BY DEF TakesNext, DriverRests, driverVars, historyVars
  <1>2. inbox \in Seq(Item)
    BY DEF TypeOK
  <1> QED
    BY <1>1, <1>2, TailFacts

\* What the modem says does not change the types, and is either the end of
\* line or nothing.
LEMMA LineFacts ==
    ASSUME TypeOK, NEW X \in SUBSET Token,
           line' = line \/ \E x \in X : line' = Append(line, x)
    PROVE  /\ line' \in Seq(Token)
           /\ Occurring(line') \subseteq Occurring(line) \cup X
           /\ OnlyErrorsFollow(line) /\ (">" \notin Occurring(line) \/ X \subseteq {"ERROR"})
                => OnlyErrorsFollow(line')
  <1>1. line \in Seq(Token)
    BY DEF TypeOK
  <1>2. CASE line' = line
    BY <1>1, <1>2
  <1>3. ASSUME NEW x \in X, line' = Append(line, x)
        PROVE  /\ line' \in Seq(Token)
               /\ Occurring(line') \subseteq Occurring(line) \cup X
               /\ OnlyErrorsFollow(line) /\ (">" \notin Occurring(line) \/ X \subseteq {"ERROR"})
                    => OnlyErrorsFollow(line')
    BY <1>1, <1>3, AppendFacts, ErrorFollows
  <1> QED
    BY <1>2, <1>3

\* What is wanted stays ahead when the inbox gets shorter.
LEMMA WantedStaysAhead ==
    ASSUME IInv, NEW n \in {0, 1}, n <= Len(inbox),
           inbox' \in Seq(Item), Len(inbox') = Len(inbox) - n,
           \A i \in 1 .. Len(inbox) - n : inbox'[i] = inbox[i + n],
           UNCHANGED <<cmd, wanted>>,
           swallowed' \subseteq 1 .. cmd.id,
           \/ mode' \in {0, mode}
           \/ n = 1 /\ inbox # << >> /\ Head(inbox).kind = "prompted"
    PROVE  WantedIsAhead'
  <1>1. /\ wanted \subseteq 1 .. cmd.id
        /\ \A i \in 1 .. Len(inbox) : inbox[i].id \in 1 .. cmd.id
        /\ \A i, j \in 1 .. Len(inbox) :
            i < j /\ inbox[i].kind = "prompted" => inbox[j].id \notin wanted
        /\ mode # 0 =>
            \A i \in 1 .. Len(inbox) : inbox[i].id \in wanted => inbox[i] = Payload(mode)
    BY DEF IInv, WantedIsAhead
  <1>2. Len(inbox) \in Nat /\ inbox \in Seq(Item)
    BY Types DEF IInv
  <1>3. \A i \in 1 .. Len(inbox') : i + n \in 1 .. Len(inbox) /\ inbox'[i] = inbox[i + n]
    BY <1>2
  <1>4. \A i \in 1 .. Len(inbox') : inbox'[i].id \in 1 .. cmd.id
    BY <1>1, <1>3
  <1>5. ASSUME NEW i \in 1 .. Len(inbox'), NEW j \in 1 .. Len(inbox'),
               i < j, inbox'[i].kind = "prompted"
        PROVE  inbox'[j].id \notin wanted
    <2>1. i + n < j + n
      BY <1>2, <1>5
    <2> QED
      BY <1>1, <1>3, <1>5, <2>1
  <1>6. ASSUME mode' # 0, NEW i \in 1 .. Len(inbox'), inbox'[i].id \in wanted
        PROVE  inbox'[i] = Payload(mode')
    <2>1. CASE mode' \in {0, mode}
      BY <1>1, <1>3, <1>6, <2>1
    <2>2. CASE n = 1 /\ inbox # << >> /\ Head(inbox).kind = "prompted"
      <3>1. inbox[1].kind = "prompted" /\ 1 \in 1 .. Len(inbox)
        BY <1>2, <2>2
      <3>2. 1 < i + n
        BY <1>2, <2>2
      <3> QED
        BY <1>1, <1>3, <1>6, <3>1, <3>2
    <2> QED
      BY <2>1, <2>2
  <1> QED
    BY <1>1, <1>4, <1>5, <1>6 DEF WantedIsAhead

\* A plain command is carried out, or not.
LEMMA ExecutesPreserves ==
    ASSUME IInv, ModemExecutes
    PROVE  IInv'
  <1>1. TypeOK
    BY DEF IInv
  <1>2. /\ inbox # << >> /\ mode = 0 /\ Unprompted(Head(inbox)) /\ DriverRests /\ rx' = rx
        /\ Head(inbox) \in Item /\ Head(inbox) = inbox[1] /\ Len(inbox) \in Nat \ {0}
        /\ inbox' \in Seq(Item) /\ Len(inbox') = Len(inbox) - 1
        /\ \A i \in 1 .. Len(inbox) - 1 : inbox'[i] = inbox[i + 1]
    BY <1>1, TakesNextFacts DEF ModemExecutes, Unprompted
  <1>3. /\ UNCHANGED <<mode, swallowed>>
        /\ executed' \in {executed, executed \cup {Head(inbox).id}}
        /\ line' = line \/ \E x \in {"OK", "ERROR"} : line' = Append(line, x)
    <2>1. line \in Seq(Token) /\ {"OK", "ERROR"} \in SUBSET Token
      BY <1>1 DEF TypeOK, Token
    <2>2. Answers({<<"OK">>}) \/ Answers({<<"ERROR">>, << >>})
      BY DEF ModemExecutes
    <2>3. line' = line \/ \E x \in {"OK", "ERROR"} : line' = Append(line, x)
      BY <2>1, <2>2, Says
    <2> QED
      BY <2>3 DEF ModemExecutes
  <1>4. line' \in Seq(Token) /\ Occurring(line') \subseteq Occurring(line) \cup {"OK", "ERROR"}
    BY <1>1, <1>3, LineFacts DEF Token
  <1>5. TypeOK'
    BY <1>1, <1>2, <1>3, <1>4 DEF TypeOK, DriverRests, Item
  <1>6. \A i \in 1 .. Len(inbox') : i + 1 \in 1 .. Len(inbox) /\ inbox'[i] = inbox[i + 1]
    BY <1>2
  <1>7. PromptedIsEarnest' /\ PromptedOkIsOwn'
    BY <1>2, <1>3 DEF IInv, PromptedIsEarnest, PromptedOkIsOwn, DriverRests
  <1>8. NoPromptIsLeft'
    BY <1>2, <1>3, <1>4, <1>6 DEF IInv, NoPromptIsLeft, DriverRests
  <1>9. ASSUME phase = "prompt" PROVE CommandIsUnderWay'
    <2>1. CommandIsUnderWay /\ cmd.kind = "prompted"
      BY <1>2, <1>9 DEF IInv, PromptIsOwn, CommandIsTaken, PromptedIsEarnest
    <2>2. Len(inbox) # 1
      BY <1>2, <2>1 DEF CommandIsUnderWay, Unprompted
    <2>3. Len(inbox') \in 1 .. Len(inbox') /\ Len(inbox') + 1 = Len(inbox)
      BY <1>2, <2>2
    <2>4. inbox' # << >> /\ inbox'[Len(inbox')] = cmd
      BY <1>2, <1>6, <2>1, <2>3 DEF CommandIsUnderWay
    <2>5. \A i \in 1 .. Len(inbox') - 1 :
            i \in 1 .. Len(inbox') /\ i + 1 \in 1 .. Len(inbox) - 1
      BY <1>2
    <2>6. \A i \in 1 .. Len(inbox') - 1 : Unprompted(inbox'[i])
      BY <1>6, <2>1, <2>5 DEF CommandIsUnderWay
    <2> QED
      BY <1>2, <1>3, <1>4, <2>1, <2>4, <2>6 DEF CommandIsUnderWay, DriverRests
  <1>10. PromptIsOwn'
    BY <1>2, <1>9 DEF IInv, PromptIsOwn, DriverRests
  <1>11. ~(phase = "answer" /\ cmd.kind = "prompted")
    BY <1>2 DEF IInv, AnswerIsOwn, Payload, Unprompted
  <1>12. AnswerIsOwn'
    BY <1>2, <1>11 DEF AnswerIsOwn, DriverRests
  <1>13. WantedIsAhead' /\ OnlyClosingIsSwallowed'
    <2>1. swallowed' \subseteq 1 .. cmd.id
      BY <1>3 DEF IInv, WantedIsAhead
    <2>2. 1 <= Len(inbox)
      BY <1>2
    <2> QED
      BY <1>2, <1>3, <2>1, <2>2, WantedStaysAhead DEF DriverRests, IInv, OnlyClosingIsSwallowed
  <1> QED
    BY <1>5, <1>7, <1>8, <1>10, <1>12, <1>13 DEF IInv

\* The prompted command is taken.
LEMMA PromptsPreserves ==
    ASSUME IInv, ModemPrompts
    PROVE  IInv'
  <1>1. TypeOK
    BY DEF IInv
  <1>2. /\ inbox # << >> /\ mode = 0 /\ Head(inbox).kind = "prompted" /\ DriverRests /\ rx' = rx
        /\ Head(inbox) \in Item /\ Head(inbox) = inbox[1] /\ Len(inbox) \in Nat \ {0}
        /\ inbox' \in Seq(Item) /\ Len(inbox') = Len(inbox) - 1
        /\ \A i \in 1 .. Len(inbox) - 1 : inbox'[i] = inbox[i + 1]
    BY <1>1, TakesNextFacts DEF ModemPrompts
  <1>3. /\ UNCHANGED <<executed, swallowed>>
        /\ mode' \in {0, Head(inbox).id}
        /\ line' = line \/ \E x \in {">", "ERROR"} : line' = Append(line, x)
    <2>1. line \in Seq(Token) /\ {">", "ERROR"} \in SUBSET Token
      BY <1>1 DEF TypeOK, Token
    <2>2. Answers({<<">">>}) \/ Answers({<<"ERROR">>, << >>})
      BY DEF ModemPrompts
    <2>3. line' = line \/ \E x \in {">", "ERROR"} : line' = Append(line, x)
      BY <2>1, <2>2, Says
    <2> QED
      BY <1>2, <2>3 DEF ModemPrompts
  <1>4. /\ line' \in Seq(Token)
        /\ ">" \notin Occurring(line) /\ OnlyErrorsFollow(line) => OnlyErrorsFollow(line')
    BY <1>1, <1>3, LineFacts DEF Token
  <1>5. TypeOK'
    BY <1>1, <1>2, <1>3, <1>4 DEF TypeOK, DriverRests, Item
  <1>6. PromptedIsEarnest' /\ PromptedOkIsOwn'
    BY <1>2, <1>3 DEF IInv, PromptedIsEarnest, PromptedOkIsOwn, DriverRests
  <1>7. ~Unprompted(Head(inbox)) /\ 1 \in 1 .. Len(inbox)
    BY <1>2 DEF Unprompted
  <1>8. NoPromptIsLeft'
    BY <1>2, <1>7 DEF IInv, NoPromptIsLeft, DriverRests
  <1>9. ASSUME phase = "prompt" PROVE CommandIsTaken'
    <2>1. CommandIsUnderWay
      BY <1>2, <1>9 DEF IInv, PromptIsOwn, CommandIsTaken
    <2>2. ~(1 \in 1 .. Len(inbox) - 1)
      BY <1>2, <1>7, <2>1 DEF CommandIsUnderWay
    <2>3. Len(inbox) = 1
      BY <1>2, <2>2
    <2>4. Head(inbox) = cmd /\ inbox' = << >>
      BY <1>2, <2>1, <2>3 DEF CommandIsUnderWay
    <2>5. OnlyErrorsFollow(rx) /\ OnlyErrorsFollow(line) /\ ">" \notin Occurring(rx) \cup Occurring(line)
      BY <2>1 DEF CommandIsUnderWay, OnlyErrorsFollow, Occurring
    <2> QED
      BY <1>2, <1>3, <1>4, <2>4, <2>5 DEF CommandIsTaken, DriverRests
  <1>10. PromptIsOwn'
    BY <1>2, <1>9 DEF IInv, PromptIsOwn, DriverRests
  <1>11. ~(phase = "answer" /\ cmd.kind = "prompted")
    BY <1>2 DEF IInv, AnswerIsOwn, Payload
  <1>12. AnswerIsOwn'
    BY <1>2, <1>11 DEF AnswerIsOwn, DriverRests
  <1>13. WantedIsAhead' /\ OnlyClosingIsSwallowed'
    <2>1. swallowed' \subseteq 1 .. cmd.id
      BY <1>3 DEF IInv, WantedIsAhead
    <2>2. 1 <= Len(inbox)
      BY <1>2
    <2> QED
      BY <1>2, <1>3, <2>1, <2>2, WantedStaysAhead DEF DriverRests, IInv, OnlyClosingIsSwallowed
  <1> QED
    BY <1>5, <1>6, <1>8, <1>10, <1>12, <1>13 DEF IInv


\* While the modem waits for the payload there is no other in its inbox.
LEMMA TakesPayloadPreserves ==
    ASSUME IInv, ModemTakesPayload
    PROVE  IInv'
  <1>1. TypeOK
    BY DEF IInv
  <1>2. /\ inbox # << >> /\ Head(inbox) = Payload(mode) /\ DriverRests /\ rx' = rx
        /\ Head(inbox) \in Item /\ Head(inbox) = inbox[1] /\ Len(inbox) \in Nat \ {0}
        /\ inbox' \in Seq(Item) /\ Len(inbox') = Len(inbox) - 1
        /\ \A i \in 1 .. Len(inbox) - 1 : inbox'[i] = inbox[i + 1]
    BY <1>1, TakesNextFacts DEF ModemTakesPayload, Payload
  <1>3. /\ mode' = 0 /\ swallowed' = swallowed
        /\ \/ executed' = executed \cup {mode} /\ (line' = line \/ \E x \in {"OK"} : line' = Append(line, x))
           \/ executed' = executed /\ (line' = line \/ \E x \in {"ERROR"} : line' = Append(line, x))
    <2>1. line \in Seq(Token) /\ {"OK"} \in SUBSET Token /\ {"ERROR"} \in SUBSET Token
      BY <1>1 DEF TypeOK, Token
    <2>2. \/ executed' = executed \cup {mode} /\ Answers({<<"OK">>})
          \/ executed' = executed /\ Answers({<<"ERROR">>, << >>})
      BY DEF ModemTakesPayload
    <2>3. ASSUME Answers({<<"OK">>}) PROVE line' = line \/ \E x \in {"OK"} : line' = Append(line, x)
      BY <2>1, <2>3, Says
    <2>4. ASSUME Answers({<<"ERROR">>, << >>})
          PROVE  line' = line \/ \E x \in {"ERROR"} : line' = Append(line, x)
      BY <2>1, <2>4, Says
    <2> QED
      BY <2>2, <2>3, <2>4 DEF ModemTakesPayload
  <1>4. /\ line' \in Seq(Token)
        /\ \/ executed' = executed \cup {mode} /\ Occurring(line') \subseteq Occurring(line) \cup {"OK"}
           \/ executed' = executed /\ Occurring(line') \subseteq Occurring(line) \cup {"ERROR"}
    <2>1. {"OK"} \in SUBSET Token /\ {"ERROR"} \in SUBSET Token
      BY DEF Token
    <2> QED
      BY <1>1, <1>3, <2>1, LineFacts
  <1>5. mode \in 1 .. MaxCommands /\ Head(inbox).kind = "payload" /\ ~Unprompted(Head(inbox))
    BY <1>2 DEF Item, Payload, Unprompted
  <1>6. TypeOK'
    <2>1. 0 \in 0 .. MaxCommands
      BY MaxCommandsAssumption
    <2>2. executed' \subseteq 1 .. MaxCommands
      BY <1>1, <1>4, <1>5 DEF TypeOK
    <2> QED
      BY <1>1, <1>2, <1>3, <1>4, <2>1, <2>2 DEF TypeOK, DriverRests
  <1>7. PromptedIsEarnest' /\ PromptedOkIsOwn'
    BY <1>2, <1>4 DEF IInv, PromptedIsEarnest, PromptedOkIsOwn, DriverRests
  <1>8. 1 \in 1 .. Len(inbox)
    BY <1>2
  <1>9. NoPromptIsLeft'
    BY <1>2, <1>5, <1>8 DEF IInv, NoPromptIsLeft, DriverRests
  <1>10. phase # "prompt"
    BY <1>2, <1>5 DEF IInv, PromptIsOwn, CommandIsTaken, CommandIsUnderWay
  <1>11. PromptIsOwn'
    BY <1>2, <1>10 DEF PromptIsOwn, DriverRests
  <1>12. AnswerIsOwn'
    <2>1. SUFFICES ASSUME phase = "answer", cmd.kind = "prompted" PROVE AnswerIsOwn'
      BY <1>2 DEF AnswerIsOwn, DriverRests
    <2>2. /\ ">" \notin response \cup Occurring(rx) \cup Occurring(line)
          /\ "OK" \notin response \cup Occurring(rx) \cup Occurring(line)
          /\ inbox = <<Payload(cmd.id)>> /\ mode = cmd.id
      BY <1>2, <1>5, <2>1 DEF IInv, AnswerIsOwn
    <2>3. inbox' = << >>
      BY <1>2, <2>2
    <2>4. ">" \notin response \cup Occurring(rx) \cup Occurring(line')
      BY <1>4, <2>2
    <2>5. "OK" \in Occurring(line') => cmd.id \in executed'
      BY <1>4, <2>2
    <2> QED
      BY <1>2, <1>3, <2>2, <2>3, <2>4, <2>5 DEF AnswerIsOwn, DriverRests
  <1>13. WantedIsAhead' /\ OnlyClosingIsSwallowed'
    <2>1. swallowed' \subseteq 1 .. cmd.id
      BY <1>3 DEF IInv, WantedIsAhead
    <2>2. 1 <= Len(inbox)
      BY <1>2
    <2> QED
      BY <1>2, <1>3, <2>1, <2>2, WantedStaysAhead DEF DriverRests, IInv, OnlyClosingIsSwallowed
  <1> QED
    BY <1>6, <1>7, <1>9, <1>11, <1>12, <1>13 DEF IInv

\* What the modem takes for data is not wanted by anybody.
LEMMA SwallowsPreserves ==
    ASSUME IInv, ModemSwallows
    PROVE  IInv'
  <1>1. TypeOK
    BY DEF IInv
  <1>2. /\ inbox # << >> /\ mode # 0 /\ Head(inbox) # Payload(mode) /\ DriverRests /\ rx' = rx
        /\ Head(inbox) \in Item /\ Head(inbox) = inbox[1] /\ Len(inbox) \in Nat \ {0}
        /\ inbox' \in Seq(Item) /\ Len(inbox') = Len(inbox) - 1
        /\ \A i \in 1 .. Len(inbox) - 1 : inbox'[i] = inbox[i + 1]
    BY <1>1, TakesNextFacts DEF ModemSwallows, Payload
  <1>3. /\ executed' = executed /\ swallowed' = swallowed \cup {Head(inbox).id} /\ mode' \in {0, mode}
        /\ line' = line \/ \E x \in {"OK", "ERROR"} : line' = Append(line, x)
    <2>1. line \in Seq(Token) /\ {"OK", "ERROR"} \in SUBSET Token
      BY <1>1 DEF TypeOK, Token
    <2>2. line' = line \/ Answers({<<"OK">>, <<"ERROR">>})
      BY DEF ModemSwallows
    <2>3. line' = line \/ \E x \in {"OK", "ERROR"} : line' = Append(line, x)
      BY <2>1, <2>2, Says
    <2> QED
      BY <2>3 DEF ModemSwallows
  <1>4. line' \in Seq(Token)
    BY <1>1, <1>3, LineFacts DEF Token
  <1>5. TypeOK'
    <2>1. 0 \in 0 .. MaxCommands /\ mode \in 0 .. MaxCommands
      BY <1>1, MaxCommandsAssumption DEF TypeOK
    <2>2. Head(inbox).id \in 1 .. MaxCommands
      BY <1>2 DEF Item
    <2>3. swallowed' \subseteq 1 .. MaxCommands
      BY <1>1, <1>3, <2>2 DEF TypeOK
    <2>4. mode' \in 0 .. MaxCommands
      BY <1>3, <2>1
    <2> QED
      BY <1>1, <1>2, <1>3, <1>4, <2>3, <2>4 DEF TypeOK, DriverRests
  <1>6. PromptedIsEarnest' /\ PromptedOkIsOwn' /\ NoPromptIsLeft'
    BY <1>2, <1>3 DEF IInv, PromptedIsEarnest, PromptedOkIsOwn, NoPromptIsLeft, DriverRests
  <1>7. phase # "prompt"
    BY <1>2 DEF IInv, PromptIsOwn, CommandIsTaken, CommandIsUnderWay
  <1>8. ~(phase = "answer" /\ cmd.kind = "prompted")
    BY <1>2 DEF IInv, AnswerIsOwn
  <1>9. PromptIsOwn' /\ AnswerIsOwn'
    BY <1>2, <1>7, <1>8 DEF PromptIsOwn, AnswerIsOwn, DriverRests
  <1>10. Head(inbox).id \notin wanted /\ Head(inbox).id \in 1 .. cmd.id
    BY <1>2 DEF IInv, WantedIsAhead
  <1>11. WantedIsAhead' /\ OnlyClosingIsSwallowed'
    <2>1. swallowed' \subseteq 1 .. cmd.id
      BY <1>3, <1>10 DEF IInv, WantedIsAhead
    <2>2. 1 <= Len(inbox)
      BY <1>2
    <2>3. WantedIsAhead'
      BY <1>2, <1>3, <2>1, <2>2, WantedStaysAhead DEF DriverRests
    <2> QED
      BY <1>2, <1>3, <1>10, <2>3 DEF DriverRests, IInv, OnlyClosingIsSwallowed
  <1> QED
    BY <1>5, <1>6, <1>9, <1>11 DEF IInv

LEMMA GivesUpPreserves ==
    ASSUME IInv, ModemGivesUp
    PROVE  IInv'
  <1>1. TypeOK
    BY DEF IInv
  <1>2. /\ mode # 0 /\ mode' = 0 /\ DriverRests
        /\ UNCHANGED <<rx, inbox, executed, swallowed>>
        /\ Answers({<<"ERROR">>, << >>})
    BY DEF ModemGivesUp, DriverRests, driverVars, historyVars
  <1>3. line' = line \/ \E x \in {"ERROR"} : line' = Append(line, x)
    <2>1. line \in Seq(Token) /\ {"ERROR"} \in SUBSET Token
      BY <1>1 DEF TypeOK, Token
    <2> QED
      BY <1>2, <2>1, Says
  <1>4. /\ line' \in Seq(Token) /\ Occurring(line') \subseteq Occurring(line) \cup {"ERROR"}
        /\ OnlyErrorsFollow(line) => OnlyErrorsFollow(line')
    BY <1>1, <1>3, LineFacts DEF Token
  <1>5. TypeOK'
    <2>1. mode' \in 0 .. MaxCommands
      BY <1>2, MaxCommandsAssumption
    <2> QED
      BY <1>1, <1>2, <1>4, <2>1 DEF TypeOK, DriverRests
  <1>6. PromptedIsEarnest' /\ PromptedOkIsOwn' /\ NoPromptIsLeft'
    BY <1>2 DEF IInv, PromptedIsEarnest, PromptedOkIsOwn, NoPromptIsLeft, DriverRests
  <1>7. ASSUME phase = "prompt" PROVE CommandIsTaken'
    <2>1. CommandIsTaken
      BY <1>2, <1>7 DEF IInv, PromptIsOwn, CommandIsUnderWay
    <2> QED
      BY <1>2, <1>4, <2>1 DEF CommandIsTaken, DriverRests
  <1>8. PromptIsOwn'
    BY <1>2, <1>7 DEF IInv, PromptIsOwn, DriverRests
  <1>9. AnswerIsOwn'
    BY <1>2, <1>4 DEF IInv, AnswerIsOwn, DriverRests
  <1>10. WantedIsAhead' /\ OnlyClosingIsSwallowed'
    BY <1>2 DEF IInv, WantedIsAhead, OnlyClosingIsSwallowed, DriverRests
  <1> QED
    BY <1>5, <1>6, <1>8, <1>9, <1>10 DEF IInv

LEMMA IgnoresPreserves ==
    ASSUME IInv, ModemIgnores
    PROVE  IInv'
  <1>1. TypeOK
    BY DEF IInv
  <1>2. /\ inbox # << >> /\ mode = 0 /\ Head(inbox).kind = "payload" /\ DriverRests /\ rx' = rx
        /\ Head(inbox) \in Item /\ Head(inbox) = inbox[1] /\ Len(inbox) \in Nat \ {0}
        /\ inbox' \in Seq(Item) /\ Len(inbox') = Len(inbox) - 1
        /\ \A i \in 1 .. Len(inbox) - 1 : inbox'[i] = inbox[i + 1]
    BY <1>1, TakesNextFacts DEF ModemIgnores
  <1>3. UNCHANGED <<mode, executed, swallowed>> /\ Answers({<<"ERROR">>, << >>})
    BY DEF ModemIgnores
  <1>4. line' = line \/ \E x \in {"ERROR"} : line' = Append(line, x)
    <2>1. line \in Seq(Token) /\ {"ERROR"} \in SUBSET Token
      BY <1>1 DEF TypeOK, Token
    <2> QED
      BY <1>3, <2>1, Says
  <1>5. line' \in Seq(Token) /\ Occurring(line') \subseteq Occurring(line) \cup {"ERROR"}
    BY <1>1, <1>4, LineFacts DEF Token
  <1>6. TypeOK'
    BY <1>1, <1>2, <1>3, <1>5 DEF TypeOK, DriverRests
  <1>7. PromptedIsEarnest' /\ PromptedOkIsOwn'
    BY <1>2, <1>3 DEF IInv, PromptedIsEarnest, PromptedOkIsOwn, DriverRests
  <1>8. ~Unprompted(Head(inbox)) /\ 1 \in 1 .. Len(inbox)
    BY <1>2 DEF Unprompted
  <1>9. NoPromptIsLeft'
    BY <1>2, <1>8 DEF IInv, NoPromptIsLeft, DriverRests
  <1>10. phase # "prompt"
    BY <1>2, <1>8 DEF IInv, PromptIsOwn, CommandIsTaken, CommandIsUnderWay, PromptedIsEarnest
  <1>11. PromptIsOwn'
    BY <1>2, <1>10 DEF PromptIsOwn, DriverRests
  <1>12. AnswerIsOwn'
    <2>1. SUFFICES ASSUME phase = "answer", cmd.kind = "prompted" PROVE AnswerIsOwn'
      BY <1>2 DEF AnswerIsOwn, DriverRests
    <2>2. /\ ">" \notin response \cup Occurring(rx) \cup Occurring(line)
          /\ "OK" \notin response \cup Occurring(rx) \cup Occurring(line)
          /\ inbox = <<Payload(cmd.id)>>
      BY <1>2, <2>1 DEF IInv, AnswerIsOwn
    <2>3. inbox' = << >>
      BY <1>2, <2>2
    <2> QED
      BY <1>2, <1>3, <1>5, <2>2, <2>3 DEF AnswerIsOwn, DriverRests
  <1>13. WantedIsAhead' /\ OnlyClosingIsSwallowed'
    <2>1. swallowed' \subseteq 1 .. cmd.id
      BY <1>3 DEF IInv, WantedIsAhead
    <2>2. 1 <= Len(inbox)
      BY <1>2
    <2> QED
      BY <1>2, <1>3, <2>1, <2>2, WantedStaysAhead DEF DriverRests, IInv, OnlyClosingIsSwallowed
  <1> QED
    BY <1>6, <1>7, <1>9, <1>11, <1>12, <1>13 DEF IInv

LEMMA ArrivesPreserves ==
    ASSUME IInv, Arrives
    PROVE  IInv'
  <1>1. /\ line # << >> /\ rx' = Append(rx, Head(line)) /\ line' = Tail(line) /\ DriverRests
        /\ UNCHANGED <<inbox, mode, executed, swallowed>>
    BY DEF Arrives, DriverRests, driverVars, modemVars, historyVars
  <1>2. TypeOK /\ rx \in Seq(Token) /\ line \in Seq(Token) /\ Len(line) \in Nat
    BY Types DEF IInv
  <1>3. /\ Head(line) \in Token /\ Head(line) = line[1] /\ Len(line) \in Nat \ {0}
        /\ line' \in Seq(Token) /\ Len(line') = Len(line) - 1
        /\ \A i \in 1 .. Len(line) - 1 : line'[i] = line[i + 1]
        /\ Occurring(line) = {Head(line)} \cup Occurring(line')
    BY <1>1, <1>2, TailFacts
  <1>4. rx' \in Seq(Token) /\ Occurring(rx') = Occurring(rx) \cup {Head(line)}
    BY <1>1, <1>2, <1>3, AppendFacts
  <1>5. Occurring(rx') \cup Occurring(line') = Occurring(rx) \cup Occurring(line)
    BY <1>3, <1>4
  <1>6. TypeOK'
    BY <1>1, <1>2, <1>3, <1>4 DEF TypeOK, DriverRests
  <1>7. PromptedIsEarnest' /\ PromptedOkIsOwn'
    BY <1>1 DEF IInv, PromptedIsEarnest, PromptedOkIsOwn, DriverRests
  <1>8. NoPromptIsLeft'
    BY <1>1, <1>5 DEF IInv, NoPromptIsLeft, DriverRests
  <1>9. CommandIsUnderWay => CommandIsUnderWay'
    BY <1>1, <1>5 DEF CommandIsUnderWay, DriverRests
  <1>10. ASSUME CommandIsTaken PROVE CommandIsTaken'
    <2>1. \/ ">" \notin Occurring(rx)
          \/ OnlyErrorsFollow(rx) /\ Head(line) = "ERROR"
      BY <1>3, <1>10 DEF CommandIsTaken
    <2>2. OnlyErrorsFollow(rx')
      BY <1>1, <1>2, <1>3, <2>1, ErrorFollows
    <2>3. \A i \in 1 .. Len(line) - 1 : i + 1 \in 1 .. Len(line) /\ 1 < i + 1
      BY <1>3
    <2>4. OnlyErrorsFollow(line')
      <3>1. SUFFICES ASSUME NEW i \in 1 .. Len(line) - 1, NEW j \in 1 .. Len(line) - 1,
                            i < j, line'[i] = ">"
                     PROVE  line'[j] = "ERROR"
        BY <1>3 DEF OnlyErrorsFollow
      <3>2. i + 1 < j + 1
        BY <3>1
      <3> QED
        BY <1>3, <1>10, <2>3, <3>1, <3>2 DEF CommandIsTaken, OnlyErrorsFollow
    <2>5. ASSUME ">" \in Occurring(rx') PROVE Occurring(line') \subseteq {"ERROR"}
      <3>1. CASE ">" \in Occurring(rx)
        BY <1>3, <1>10, <3>1 DEF CommandIsTaken
      <3>2. CASE line[1] = ">"
        <4>1. 1 \in 1 .. Len(line)
          BY <1>3
        <4>2. \A i \in 1 .. Len(line) - 1 : line[i + 1] = "ERROR"
          BY <1>10, <2>3, <3>2, <4>1 DEF CommandIsTaken, OnlyErrorsFollow
        <4> QED
          BY <1>3, <4>2 DEF Occurring
      <3> QED
        BY <1>3, <1>4, <2>5, <3>1, <3>2
    <2> QED
      BY <1>1, <1>10, <2>2, <2>4, <2>5 DEF CommandIsTaken, DriverRests
  <1>11. PromptIsOwn'
    BY <1>1, <1>9, <1>10 DEF IInv, PromptIsOwn, DriverRests
  <1>12. AnswerIsOwn'
    BY <1>1, <1>5 DEF IInv, AnswerIsOwn, DriverRests
  <1>13. WantedIsAhead' /\ OnlyClosingIsSwallowed'
    BY <1>1 DEF IInv, WantedIsAhead, OnlyClosingIsSwallowed, DriverRests
  <1> QED
    BY <1>6, <1>7, <1>8, <1>11, <1>12, <1>13 DEF IInv

--------------------------------------------------------------------------------------
(* A command that is sent with nothing under way gets its own verdict.        *)

\* What is found in the answers to come and in the text read so far.
Heard == response \cup Occurring(rx) \cup Occurring(line)

\* The modem knows of no command that is yet to be sent.
NothingIsAhead == executed \subseteq 1 .. cmd.id /\ mode \in 0 .. cmd.id

\* While a command that was sent with nothing under way is on its way, only what
\* it and its payload are about can be found in the channel.
ChannelIsOwn ==
    /\ inbox \in {<< >>, <<cmd>>, <<Payload(cmd.id)>>}
    /\ inbox # << >> \/ mode # 0 \/ phase = "prompt" => cmd.id \notin executed
    /\ mode # 0 => mode = cmd.id /\ inbox # <<cmd>>

HeardIsOwn ==
    phase # "idle" =>
        /\ inbox = <<cmd>> => Heard = {}
        /\ mode # 0 \/ cmd.id \in executed => "ERROR" \notin Heard
        /\ "OK" \in Heard => cmd.id \in executed

\* A verdict stays right, as nothing that could refute it is under way.
VerdictStays ==
    phase = "idle" =>
        /\ verdict = "ESP_OK" => cmd.id \in executed
        /\ verdict = "ESP_FAIL" =>
            /\ cmd.id \notin executed
            /\ inbox # <<cmd>>
            /\ mode # 0 => inbox = << >>

StepsAgree == inSync /\ cmd.kind # "probe" => ChannelIsOwn /\ HeardIsOwn /\ VerdictStays

SyncInv == NothingIsAhead /\ StepsAgree

\* The three things that may be in the inbox then.
LEMMA InboxCases ==
    ASSUME TypeOK
    PROVE  /\ <<cmd>> # << >> /\ <<Payload(cmd.id)>> # << >>
           /\ Len(<<cmd>>) = 1 /\ Len(<<Payload(cmd.id)>>) = 1
           /\ Head(<<cmd>>) = cmd /\ Head(<<Payload(cmd.id)>>) = Payload(cmd.id)
           /\ cmd # Payload(cmd.id) /\ <<cmd>> # <<Payload(cmd.id)>>
           /\ cmd.kind # "payload" /\ Payload(cmd.id).kind = "payload" /\ Payload(cmd.id).id = cmd.id
  <1>1. cmd.kind \in {"probe", "plain", "prompted"}
    BY DEF TypeOK, Command, Kind
  <1>2. Payload(cmd.id).kind = "payload" /\ Payload(cmd.id).id = cmd.id
    BY DEF Payload
  <1>3. cmd # Payload(cmd.id)
    BY <1>1, <1>2
  <1>4. /\ Len(<<cmd>>) = 1 /\ Len(<<Payload(cmd.id)>>) = 1
        /\ Head(<<cmd>>) = cmd /\ Head(<<Payload(cmd.id)>>) = Payload(cmd.id)
        /\ <<cmd>> # << >> /\ <<Payload(cmd.id)>> # << >>
    OBVIOUS
  <1>5. <<cmd>> # <<Payload(cmd.id)>>
    BY <1>3, <1>4
  <1> QED
    BY <1>1, <1>2, <1>3, <1>4, <1>5

LEMMA SendAgrees ==
    ASSUME IInv, SyncInv, NEW kind \in Kind, Send(kind) \/ SendFails(kind)
    PROVE  SyncInv'
  <1> DEFINE new == [id |-> cmd.id + 1, kind |-> kind]
  <1>1. /\ rx' \in Flushed(kind) /\ cmd' = new /\ response' = {}
        /\ UNCHANGED <<line, mode, executed>>
    BY DEF Send, SendFails, Begin, modemVars
  <1>2. cmd.id \in Nat /\ cmd'.id = cmd.id + 1 /\ cmd'.kind = kind
    BY <1>1, Types DEF IInv
  <1>3. executed' \subseteq 1 .. cmd.id /\ mode' \in 0 .. cmd.id
    BY <1>1 DEF SyncInv, NothingIsAhead
  <1>4. NothingIsAhead'
    <2>1. 1 .. cmd.id \subseteq 1 .. cmd'.id /\ 0 .. cmd.id \subseteq 0 .. cmd'.id
      BY <1>2
    <2> QED
      BY <1>3, <2>1 DEF NothingIsAhead
  <1>5. ASSUME inSync', kind # "probe" PROVE ChannelIsOwn' /\ HeardIsOwn' /\ VerdictStays'
    <2>1. inSync' = (line = <<>> /\ inbox = <<>> /\ mode = 0)
      BY DEF Send, SendFails, Begin
    <2>2. line = << >> /\ inbox = << >> /\ mode = 0
      BY <1>5, <2>1, Zenon
    <2>3. rx' = << >> /\ line' = << >> /\ mode' = 0
      BY <1>1, <1>5, <2>2 DEF Flushed
    <2>4. Heard' = {}
      BY <1>1, <2>3, NothingOccurs DEF Heard
    <2>5. cmd'.id \notin executed'
      BY <1>2, <1>3
    <2>6. CASE Send(kind)
      <3>1. inbox' = <<cmd'>> /\ phase' # "idle"
        BY <1>1, <2>2, <2>6, AppendIsConcat DEF Send
      <3> QED
        BY <2>3, <2>4, <2>5, <3>1 DEF ChannelIsOwn, HeardIsOwn, VerdictStays
    <2>7. CASE SendFails(kind)
      <3>1. inbox' = << >> /\ phase' = "idle" /\ verdict' = "ESP_FAIL" /\ << >> # <<cmd'>>
        BY <2>2, <2>7 DEF SendFails, Return, modemVars
      <3> QED
        BY <2>3, <2>5, <3>1 DEF ChannelIsOwn, HeardIsOwn, VerdictStays
    <2> QED
      BY <2>6, <2>7
  <1> QED
    BY <1>2, <1>4, <1>5 DEF SyncInv, StepsAgree

\* The driver reads on or returns, by what it has heard.
LEMMA WaitAgrees ==
    ASSUME IInv, SyncInv, phase # "idle",
           UNCHANGED <<cmd, line, inbox, mode, executed, inSync>>,
           Occurring(rx') \subseteq Occurring(rx), response' \subseteq response \cup Occurring(rx),
           \/ UNCHANGED <<phase, verdict>>
           \/ /\ phase' = "idle"
              /\ verdict' = "ESP_OK" => "OK" \in response'
              /\ verdict' = "ESP_FAIL" => "ERROR" \in response'
    PROVE  SyncInv'
  <1>1. Heard' \subseteq Heard /\ response' \subseteq Heard
    BY DEF Heard
  <1>2. NothingIsAhead'
    BY DEF SyncInv, NothingIsAhead
  <1>3. ASSUME ChannelIsOwn, HeardIsOwn PROVE ChannelIsOwn' /\ HeardIsOwn' /\ VerdictStays'
    BY <1>1, <1>3 DEF ChannelIsOwn, HeardIsOwn, VerdictStays
  <1> QED
    BY <1>2, <1>3 DEF SyncInv, StepsAgree

LEMMA ReadAgrees ==
    ASSUME IInv, SyncInv, ReadAnswer \/ ReadNoPrompt
    PROVE  SyncInv'
  <1>1. TypeOK /\ Read /\ UNCHANGED inbox /\ phase # "idle"
    BY DEF IInv, ReadAnswer, ReadNoPrompt
  <1>2. \/ UNCHANGED <<phase, verdict>>
        \/ /\ phase' = "idle"
           /\ verdict' = "ESP_OK" => "OK" \in response'
           /\ verdict' = "ESP_FAIL" => "ERROR" \in response'
    BY DEF ReadAnswer, ReadNoPrompt, KeepsWaiting, Return, Judged
  <1> QED
    BY <1>1, <1>2, ReadFacts, WaitAgrees

LEMMA TimeOutAgrees ==
    ASSUME IInv, SyncInv, TimeOut
    PROVE  SyncInv'
  <1>1. /\ UNCHANGED <<cmd, line, inbox, mode, executed, inSync, response, rx>>
        /\ phase # "idle" /\ phase' = "idle" /\ verdict' = "ESP_ERR_TIMEOUT"
    BY DEF TimeOut, modemVars, historyVars, Return
  <1> QED
    BY <1>1, WaitAgrees

LEMMA PromptAgrees ==
    ASSUME IInv, SyncInv, ReadPrompt
    PROVE  SyncInv'
  <1>1. TypeOK /\ rx \in Seq(Token) /\ Len(rx) \in Nat
    BY Types DEF IInv
  <1>2. PICK n \in 1 .. Len(rx) :
            /\ ">" \in response \cup {rx[i] : i \in 1 .. n}
            /\ rx' = SubSeq(rx, n + 1, Len(rx))
            /\ response' = {}
    BY DEF ReadPrompt, TextAfterPrompt
  <1>3. Occurring(rx') \subseteq Occurring(rx) /\ {rx[i] : i \in 1 .. n} \subseteq Occurring(rx)
    BY <1>1, <1>2, RestFacts
  <1>4. ">" \in Heard /\ Heard' \subseteq Heard
    BY <1>2, <1>3 DEF Heard, ReadPrompt
  <1>5. /\ phase = "prompt" /\ UNCHANGED <<cmd, line, mode, executed, inSync>>
        /\ \/ phase' = "answer" /\ inbox' = Append(inbox, Payload(cmd.id))
           \/ phase' = "idle" /\ verdict' = "ESP_FAIL" /\ UNCHANGED inbox
    BY DEF ReadPrompt, historyVars, Payload, Return
  <1>6. NothingIsAhead'
    BY <1>5 DEF SyncInv, NothingIsAhead
  <1>7. ASSUME ChannelIsOwn, HeardIsOwn PROVE ChannelIsOwn' /\ HeardIsOwn' /\ VerdictStays'
    <2>1. ">" \notin response /\ ">" \in Occurring(rx)
      BY <1>2, <1>3, <1>5 DEF IInv, PromptIsOwn
    <2>2. inbox = << >>
      BY <1>5, <2>1 DEF IInv, PromptIsOwn, CommandIsUnderWay, CommandIsTaken
    <2>3. cmd.id \notin executed
      BY <1>5, <1>7 DEF ChannelIsOwn
    <2>4. Append(inbox, Payload(cmd.id)) = <<Payload(cmd.id)>>
      BY <2>2
    <2>5. mode # 0 => mode = cmd.id /\ "ERROR" \notin Heard
      BY <1>5, <1>7 DEF ChannelIsOwn, HeardIsOwn
    <2>6. "OK" \notin Heard'
      BY <1>4, <1>5, <1>7, <2>3 DEF HeardIsOwn
    <2>7. CASE phase' = "answer" /\ inbox' = Append(inbox, Payload(cmd.id))
      BY <1>1, <1>4, <1>5, <2>3, <2>4, <2>5, <2>6, <2>7, InboxCases
      DEF ChannelIsOwn, HeardIsOwn, VerdictStays
    <2>8. CASE phase' = "idle" /\ verdict' = "ESP_FAIL" /\ UNCHANGED inbox
      BY <1>1, <1>5, <2>2, <2>3, <2>5, <2>8, InboxCases DEF ChannelIsOwn, HeardIsOwn, VerdictStays
    <2> QED
      BY <1>5, <2>7, <2>8
  <1> QED
    BY <1>5, <1>6, <1>7 DEF SyncInv, StepsAgree

LEMMA PowerCycleAgrees ==
    ASSUME PowerCycle
    PROVE  SyncInv'
  <1>1. cmd' = [id |-> 0, kind |-> "probe"] /\ mode' = 0 /\ executed' = {}
    BY DEF PowerCycle
  <1> QED
    BY <1>1 DEF SyncInv, NothingIsAhead, StepsAgree

\* What the modem says is heard some day.
LEMMA HeardFacts ==
    ASSUME TypeOK, DriverRests, rx' = rx, NEW X \in SUBSET Token,
           line' = line \/ \E x \in X : line' = Append(line, x)
    PROVE  Heard' \subseteq Heard \cup X
  BY LineFacts DEF Heard, DriverRests

\* The modem takes the one thing there is in the inbox.
LEMMA TakesOwn ==
    ASSUME TypeOK, ChannelIsOwn,
           inbox # << >>, inbox' \in Seq(Item), Len(inbox') = Len(inbox) - 1
    PROVE  /\ inbox' = << >> /\ cmd.id \notin executed
           /\ \/ inbox = <<cmd>> /\ Head(inbox) = cmd /\ mode = 0
              \/ inbox = <<Payload(cmd.id)>> /\ Head(inbox) = Payload(cmd.id) /\ mode \in {0, cmd.id}
  <1>1. inbox = <<cmd>> \/ inbox = <<Payload(cmd.id)>>
    BY DEF ChannelIsOwn
  <1>2. Len(inbox') = 0
    BY <1>1, InboxCases
  <1>3. inbox' = << >>
    BY <1>2
  <1> QED
    BY <1>1, <1>3, InboxCases DEF ChannelIsOwn

LEMMA ExecutesAgrees ==
    ASSUME IInv, SyncInv, ModemExecutes
    PROVE  SyncInv'
  <1>1. TypeOK /\ {"OK"} \in SUBSET Token /\ {"ERROR"} \in SUBSET Token /\ line \in Seq(Token)
    BY DEF IInv, TypeOK, Token
  <1>2. /\ inbox # << >> /\ inbox' \in Seq(Item) /\ Len(inbox') = Len(inbox) - 1
        /\ mode = 0 /\ Unprompted(Head(inbox)) /\ Head(inbox) = inbox[1] /\ Len(inbox) \in Nat \ {0}
        /\ DriverRests /\ rx' = rx /\ UNCHANGED mode
    BY <1>1, TakesNextFacts DEF ModemExecutes, Unprompted
  <1>3. \/ /\ executed' = executed \cup {Head(inbox).id}
           /\ line' = line \/ \E x \in {"OK"} : line' = Append(line, x)
        \/ /\ executed' = executed
           /\ line' = line \/ \E x \in {"ERROR"} : line' = Append(line, x)
    <2>1. \/ executed' = executed \cup {Head(inbox).id} /\ Answers({<<"OK">>})
          \/ executed' = executed /\ Answers({<<"ERROR">>, << >>})
      BY DEF ModemExecutes
    <2>2. Answers({<<"OK">>}) => line' = line \/ \E x \in {"OK"} : line' = Append(line, x)
      BY <1>1, Says
    <2>3. Answers({<<"ERROR">>, << >>}) => line' = line \/ \E x \in {"ERROR"} : line' = Append(line, x)
      BY <1>1, Says
    <2> QED
      BY <2>1, <2>2, <2>3
  <1>4. \/ executed' = executed \cup {Head(inbox).id} /\ Heard' \subseteq Heard \cup {"OK"}
        \/ executed' = executed /\ Heard' \subseteq Heard \cup {"ERROR"}
    BY <1>1, <1>2, <1>3, HeardFacts
  <1>5. NothingIsAhead'
    <2>1. Head(inbox).id \in 1 .. cmd.id
      BY <1>2 DEF IInv, WantedIsAhead
    <2> QED
      BY <1>2, <1>4, <2>1 DEF SyncInv, NothingIsAhead, DriverRests
  <1>6. ASSUME ChannelIsOwn, HeardIsOwn, VerdictStays
        PROVE  ChannelIsOwn' /\ HeardIsOwn' /\ VerdictStays'
    <2>1. inbox' = << >> /\ cmd.id \notin executed /\ inbox = <<cmd>> /\ Head(inbox) = cmd
      BY <1>1, <1>2, <1>6, TakesOwn, InboxCases DEF Unprompted
    <2>2. phase # "prompt"
      BY <1>2, <2>1 DEF IInv, PromptedIsEarnest, Unprompted
    <2>3. phase # "idle" => Heard = {}
      BY <1>6, <2>1 DEF HeardIsOwn
    <2>4. phase = "idle" => verdict # "ESP_OK" /\ verdict # "ESP_FAIL"
      BY <1>6, <2>1 DEF VerdictStays
    <2>5. \/ cmd.id \in executed' /\ (phase # "idle" => "ERROR" \notin Heard')
          \/ cmd.id \notin executed' /\ (phase # "idle" => "OK" \notin Heard')
      BY <1>4, <2>1, <2>3
    <2> QED
      BY <1>1, <1>2, <2>1, <2>2, <2>4, <2>5, InboxCases
      DEF ChannelIsOwn, HeardIsOwn, VerdictStays, DriverRests
  <1> QED
    BY <1>2, <1>5, <1>6 DEF SyncInv, StepsAgree, DriverRests

LEMMA PromptsAgrees ==
    ASSUME IInv, SyncInv, ModemPrompts
    PROVE  SyncInv'
  <1>1. TypeOK /\ {">"} \in SUBSET Token /\ {"ERROR"} \in SUBSET Token /\ line \in Seq(Token)
    BY DEF IInv, TypeOK, Token
  <1>2. /\ inbox # << >> /\ inbox' \in Seq(Item) /\ Len(inbox') = Len(inbox) - 1
        /\ mode = 0 /\ Head(inbox).kind = "prompted" /\ Head(inbox) = inbox[1] /\ Len(inbox) \in Nat \ {0}
        /\ DriverRests /\ rx' = rx /\ UNCHANGED executed
    BY <1>1, TakesNextFacts DEF ModemPrompts
  <1>3. \/ /\ mode' = Head(inbox).id
           /\ line' = line \/ \E x \in {">"} : line' = Append(line, x)
        \/ /\ mode' = mode
           /\ line' = line \/ \E x \in {"ERROR"} : line' = Append(line, x)
    <2>1. \/ mode' = Head(inbox).id /\ Answers({<<">">>})
          \/ mode' = mode /\ Answers({<<"ERROR">>, << >>})
      BY DEF ModemPrompts
    <2>2. Answers({<<">">>}) => line' = line \/ \E x \in {">"} : line' = Append(line, x)
      BY <1>1, Says
    <2>3. Answers({<<"ERROR">>, << >>}) => line' = line \/ \E x \in {"ERROR"} : line' = Append(line, x)
      BY <1>1, Says
    <2> QED
      BY <2>1, <2>2, <2>3
  <1>4. \/ mode' = Head(inbox).id /\ Heard' \subseteq Heard \cup {">"}
        \/ mode' = 0 /\ Heard' \subseteq Heard \cup {"ERROR"}
    BY <1>1, <1>2, <1>3, HeardFacts
  <1>5. NothingIsAhead'
    <2>1. Head(inbox).id \in 1 .. cmd.id
      BY <1>2 DEF IInv, WantedIsAhead
    <2>2. mode' \in 0 .. cmd.id
      BY <1>2, <1>4, <2>1 DEF SyncInv, NothingIsAhead
    <2> QED
      BY <1>2, <2>2 DEF SyncInv, NothingIsAhead, DriverRests
  <1>6. ASSUME ChannelIsOwn, HeardIsOwn, VerdictStays
        PROVE  ChannelIsOwn' /\ HeardIsOwn' /\ VerdictStays'
    <2>1. inbox' = << >> /\ cmd.id \notin executed /\ inbox = <<cmd>> /\ Head(inbox) = cmd
      BY <1>1, <1>2, <1>6, TakesOwn, InboxCases
    <2>2. phase # "idle" => Heard = {}
      BY <1>6, <2>1 DEF HeardIsOwn
    <2>3. phase = "idle" => verdict # "ESP_OK" /\ verdict # "ESP_FAIL"
      BY <1>6, <2>1 DEF VerdictStays
    <2>4. phase # "idle" => "OK" \notin Heard' /\ (mode' = 0 \/ "ERROR" \notin Heard')
      BY <1>4, <2>2
    <2> QED
      BY <1>1, <1>2, <1>4, <2>1, <2>3, <2>4, InboxCases
      DEF ChannelIsOwn, HeardIsOwn, VerdictStays, DriverRests
  <1> QED
    BY <1>2, <1>5, <1>6 DEF SyncInv, StepsAgree, DriverRests

LEMMA TakesPayloadAgrees ==
    ASSUME IInv, SyncInv, ModemTakesPayload
    PROVE  SyncInv'
  <1>1. TypeOK /\ {"OK"} \in SUBSET Token /\ {"ERROR"} \in SUBSET Token /\ line \in Seq(Token)
    BY DEF IInv, TypeOK, Token
  <1>2. /\ inbox # << >> /\ inbox' \in Seq(Item) /\ Len(inbox') = Len(inbox) - 1
        /\ Head(inbox) = Payload(mode)
        /\ DriverRests /\ rx' = rx /\ mode' = 0 /\ Head(inbox) \in Item
    BY <1>1, TakesNextFacts DEF ModemTakesPayload, Payload
  <1>3. mode \in 1 .. cmd.id
    BY <1>2 DEF Item, Payload, SyncInv, NothingIsAhead
  <1>4. \/ /\ executed' = executed \cup {mode}
           /\ line' = line \/ \E x \in {"OK"} : line' = Append(line, x)
        \/ /\ executed' = executed
           /\ line' = line \/ \E x \in {"ERROR"} : line' = Append(line, x)
    <2>1. \/ executed' = executed \cup {mode} /\ Answers({<<"OK">>})
          \/ executed' = executed /\ Answers({<<"ERROR">>, << >>})
      BY DEF ModemTakesPayload
    <2>2. Answers({<<"OK">>}) => line' = line \/ \E x \in {"OK"} : line' = Append(line, x)
      BY <1>1, Says
    <2>3. Answers({<<"ERROR">>, << >>}) => line' = line \/ \E x \in {"ERROR"} : line' = Append(line, x)
      BY <1>1, Says
    <2> QED
      BY <2>1, <2>2, <2>3
  <1>5. \/ executed' = executed \cup {mode} /\ Heard' \subseteq Heard \cup {"OK"}
        \/ executed' = executed /\ Heard' \subseteq Heard \cup {"ERROR"}
    BY <1>1, <1>2, <1>4, HeardFacts
  <1>6. NothingIsAhead'
    <2>1. executed' \subseteq 1 .. cmd.id
      BY <1>3, <1>5 DEF SyncInv, NothingIsAhead
    <2>2. 0 \in 0 .. cmd.id
      BY <1>1, Types
    <2> QED
      BY <1>2, <2>1, <2>2 DEF NothingIsAhead, DriverRests
  <1>7. ASSUME ChannelIsOwn, HeardIsOwn, VerdictStays
        PROVE  ChannelIsOwn' /\ HeardIsOwn' /\ VerdictStays'
    <2>1. /\ inbox' = << >> /\ cmd.id \notin executed /\ mode # 0 /\ mode = cmd.id
          /\ inbox = <<Payload(cmd.id)>>
      BY <1>1, <1>2, <1>3, <1>7, TakesOwn DEF ChannelIsOwn
    <2>2. phase # "prompt"
      BY <1>1, <2>1, InboxCases DEF IInv, PromptIsOwn, CommandIsUnderWay, CommandIsTaken
    <2>3. phase # "idle" => "ERROR" \notin Heard /\ "OK" \notin Heard
      BY <1>7, <2>1 DEF HeardIsOwn
    <2>4. phase = "idle" => verdict # "ESP_OK" /\ verdict # "ESP_FAIL"
      BY <1>1, <1>7, <2>1, InboxCases DEF VerdictStays
    <2>5. \/ cmd.id \in executed' /\ (phase # "idle" => "ERROR" \notin Heard')
          \/ cmd.id \notin executed' /\ (phase # "idle" => "OK" \notin Heard')
      BY <1>5, <2>1, <2>3
    <2> QED
      BY <1>1, <1>2, <2>1, <2>2, <2>4, <2>5, InboxCases
      DEF ChannelIsOwn, HeardIsOwn, VerdictStays, DriverRests
  <1> QED
    BY <1>2, <1>6, <1>7 DEF SyncInv, StepsAgree, DriverRests

\* With the channel to itself nothing is swallowed.
LEMMA SwallowsAgrees ==
    ASSUME IInv, SyncInv, ModemSwallows
    PROVE  SyncInv'
  <1>1. TypeOK
    BY DEF IInv
  <1>2. /\ inbox # << >> /\ inbox' \in Seq(Item) /\ Len(inbox') = Len(inbox) - 1
        /\ mode # 0 /\ Head(inbox) # Payload(mode)
        /\ DriverRests /\ mode' \in {0, mode} /\ UNCHANGED executed
    BY <1>1, TakesNextFacts DEF ModemSwallows, Payload
  <1>3. NothingIsAhead'
    <2>1. mode' \in 0 .. cmd.id
      BY <1>1, <1>2, Types DEF SyncInv, NothingIsAhead
    <2> QED
      BY <1>2, <2>1 DEF SyncInv, NothingIsAhead, DriverRests
  <1>4. ~ChannelIsOwn
    BY <1>1, <1>2, TakesOwn DEF ChannelIsOwn
  <1> QED
    BY <1>2, <1>3, <1>4 DEF SyncInv, StepsAgree, DriverRests

LEMMA GivesUpAgrees ==
    ASSUME IInv, SyncInv, ModemGivesUp
    PROVE  SyncInv'
  <1>1. TypeOK /\ {"ERROR"} \in SUBSET Token /\ line \in Seq(Token) /\ cmd.id \in Nat
    BY Types DEF IInv, TypeOK, Token
  <1>2. /\ mode # 0 /\ mode' = 0 /\ DriverRests /\ UNCHANGED <<rx, inbox, executed>>
        /\ Answers({<<"ERROR">>, << >>})
    BY DEF ModemGivesUp, DriverRests, driverVars, historyVars
  <1>3. line' = line \/ \E x \in {"ERROR"} : line' = Append(line, x)
    BY <1>1, <1>2, Says
  <1>4. Heard' \subseteq Heard \cup {"ERROR"}
    BY <1>1, <1>2, <1>3, HeardFacts
  <1>5. NothingIsAhead'
    BY <1>1, <1>2 DEF SyncInv, NothingIsAhead, DriverRests
  <1>6. ASSUME ChannelIsOwn, HeardIsOwn, VerdictStays
        PROVE  ChannelIsOwn' /\ HeardIsOwn' /\ VerdictStays'
    BY <1>2, <1>4, <1>6 DEF ChannelIsOwn, HeardIsOwn, VerdictStays, DriverRests
  <1> QED
    BY <1>2, <1>5, <1>6 DEF SyncInv, StepsAgree, DriverRests

LEMMA IgnoresAgrees ==
    ASSUME IInv, SyncInv, ModemIgnores
    PROVE  SyncInv'
  <1>1. TypeOK /\ {"ERROR"} \in SUBSET Token /\ line \in Seq(Token)
    BY DEF IInv, TypeOK, Token
  <1>2. /\ inbox # << >> /\ inbox' \in Seq(Item) /\ Len(inbox') = Len(inbox) - 1
        /\ mode = 0 /\ Head(inbox).kind = "payload" /\ DriverRests /\ rx' = rx
        /\ UNCHANGED <<mode, executed>> /\ Answers({<<"ERROR">>, << >>})
    BY <1>1, TakesNextFacts DEF ModemIgnores
  <1>3. line' = line \/ \E x \in {"ERROR"} : line' = Append(line, x)
    BY <1>1, <1>2, Says
  <1>4. Heard' \subseteq Heard \cup {"ERROR"}
    BY <1>1, <1>2, <1>3, HeardFacts
  <1>5. NothingIsAhead'
    BY <1>2 DEF SyncInv, NothingIsAhead, DriverRests
  <1>6. ASSUME ChannelIsOwn, HeardIsOwn, VerdictStays
        PROVE  ChannelIsOwn' /\ HeardIsOwn' /\ VerdictStays'
    <2>1. inbox' = << >> /\ cmd.id \notin executed
      BY <1>1, <1>2, <1>6, TakesOwn
    <2> QED
      BY <1>1, <1>2, <1>4, <1>6, <2>1, InboxCases
      DEF ChannelIsOwn, HeardIsOwn, VerdictStays, DriverRests
  <1> QED
    BY <1>2, <1>5, <1>6 DEF SyncInv, StepsAgree, DriverRests

LEMMA ArrivesAgrees ==
    ASSUME IInv, SyncInv, Arrives
    PROVE  SyncInv'
  <1>1. /\ line # << >> /\ rx' = Append(rx, Head(line)) /\ line' = Tail(line) /\ DriverRests
        /\ UNCHANGED <<inbox, mode, executed>>
    BY DEF Arrives, DriverRests, driverVars, modemVars, historyVars
  <1>2. rx \in Seq(Token) /\ line \in Seq(Token)
    BY DEF IInv, TypeOK
  <1>3. Head(line) \in Token /\ Occurring(line) = {Head(line)} \cup Occurring(line')
    BY <1>1, <1>2, TailFacts
  <1>4. Occurring(rx') = Occurring(rx) \cup {Head(line)}
    BY <1>1, <1>2, <1>3, AppendFacts
  <1>5. Heard' = Heard
    BY <1>1, <1>3, <1>4 DEF Heard, DriverRests
  <1> QED
    BY <1>1, <1>5
    DEF SyncInv, NothingIsAhead, StepsAgree, ChannelIsOwn, HeardIsOwn, VerdictStays, DriverRests

LEMMA StutterAgrees ==
    ASSUME SyncInv, UNCHANGED vars
    PROVE  SyncInv'
  BY DEF vars, driverVars, modemVars, historyVars, SyncInv, NothingIsAhead, StepsAgree,
         ChannelIsOwn, HeardIsOwn, VerdictStays, Heard

LEMMA NextAgrees == IInv /\ SyncInv /\ [Next]_vars => SyncInv'
  <1> SUFFICES ASSUME IInv, SyncInv, [Next]_vars PROVE SyncInv'
    OBVIOUS
  <1>1. CASE Driver
    <2>1. ASSUME NEW kind \in Kind, Send(kind) \/ SendFails(kind) PROVE SyncInv'
      BY <2>1, SendAgrees
    <2> QED
      BY <1>1, <2>1, ReadAgrees, PromptAgrees, TimeOutAgrees, PowerCycleAgrees DEF Driver
  <1>2. CASE Modem
    BY <1>2, ExecutesAgrees, PromptsAgrees, TakesPayloadAgrees, SwallowsAgrees, GivesUpAgrees,
       IgnoresAgrees DEF Modem
  <1> QED
    BY <1>1, <1>2, ArrivesAgrees, StutterAgrees DEF Next

--------------------------------------------------------------------------------------
(* The theorems.                                                             *)

LEMMA InitFacts == Init => IInv
  <1> SUFFICES ASSUME Init PROVE IInv
    OBVIOUS
  <1>1. 0 \in 0 .. MaxCommands
    BY MaxCommandsAssumption
  <1>2. /\ rx = << >> /\ line = << >> /\ inbox = << >>
        /\ phase = "idle" /\ response = {} /\ verdict = "none" /\ awake = FALSE /\ closing = FALSE
        /\ mode = 0 /\ executed = {} /\ swallowed = {} /\ wanted = {} /\ inSync = TRUE
        /\ cmd = [id |-> 0, kind |-> "probe"]
    BY DEF Init
  <1>3. rx \in Seq(Token) /\ line \in Seq(Token) /\ inbox \in Seq(Item) /\ Len(inbox) = 0
    BY <1>2
  <1>4. cmd \in Command
    BY <1>1, <1>2 DEF Command, Kind
  <1>5. TypeOK
    BY <1>1, <1>2, <1>3, <1>4 DEF TypeOK, Verdict
  <1>6. Occurring(rx) = {} /\ Occurring(line) = {}
    BY <1>2, NothingOccurs
  <1>7. PromptedIsEarnest /\ NoPromptIsLeft /\ PromptIsOwn /\ AnswerIsOwn
    BY <1>2, <1>3, <1>6 DEF PromptedIsEarnest, NoPromptIsLeft, PromptIsOwn, AnswerIsOwn
  <1>8. WantedIsAhead /\ PromptedOkIsOwn /\ OnlyClosingIsSwallowed
    BY <1>2, <1>3 DEF WantedIsAhead, PromptedOkIsOwn, OnlyClosingIsSwallowed
  <1> QED
    BY <1>5, <1>7, <1>8 DEF IInv

LEMMA StutterPreserves ==
    ASSUME IInv, UNCHANGED vars
    PROVE  IInv'
  <1>1. DriverRests /\ UNCHANGED <<rx, line, inbox, mode, executed, swallowed>>
    BY DEF vars, driverVars, modemVars, historyVars, DriverRests
  <1>2. TypeOK' /\ PromptedIsEarnest' /\ NoPromptIsLeft'
    BY <1>1 DEF IInv, TypeOK, PromptedIsEarnest, NoPromptIsLeft, DriverRests
  <1>3. PromptIsOwn' /\ AnswerIsOwn'
    BY <1>1 DEF IInv, PromptIsOwn, CommandIsUnderWay, CommandIsTaken, AnswerIsOwn, DriverRests
  <1>4. WantedIsAhead' /\ PromptedOkIsOwn' /\ OnlyClosingIsSwallowed'
    BY <1>1 DEF IInv, WantedIsAhead, PromptedOkIsOwn, OnlyClosingIsSwallowed, DriverRests
  <1> QED
    BY <1>2, <1>3, <1>4 DEF IInv

LEMMA NextPreserves == IInv /\ [Next]_vars => IInv'
  <1> SUFFICES ASSUME IInv, [Next]_vars PROVE IInv'
    OBVIOUS
  <1>1. CASE Driver
    <2>1. ASSUME NEW kind \in Kind, Send(kind) \/ SendFails(kind) PROVE IInv'
      BY <2>1, SendPreserves
    <2>2. CASE ReadAnswer \/ ReadNoPrompt
      BY <2>2, ReadPreserves
    <2>3. CASE ReadPrompt
      BY <2>3, PromptPreserves
    <2>4. CASE TimeOut
      BY <2>4, TimeOutPreserves
    <2>5. CASE PowerCycle
      BY <2>5, PowerCyclePreserves
    <2> QED
      BY <1>1, <2>1, <2>2, <2>3, <2>4, <2>5 DEF Driver
  <1>2. CASE Modem
    BY <1>2, ExecutesPreserves, PromptsPreserves, TakesPayloadPreserves, SwallowsPreserves,
       GivesUpPreserves, IgnoresPreserves DEF Modem
  <1>3. CASE Arrives
    BY <1>3, ArrivesPreserves
  <1>4. CASE UNCHANGED vars
    BY <1>4, StutterPreserves
  <1> QED
    BY <1>1, <1>2, <1>3, <1>4 DEF Next

\* The inductive invariant.
THEOREM IInvHolds == Spec => []IInv
  <1>1. Init => IInv
    BY InitFacts
  <1>2. IInv /\ [Next]_vars => IInv'
    BY NextPreserves
  <1> QED
    BY <1>1, <1>2, PTL DEF Spec

\* The variables keep their types, whatever comes late.
THEOREM TypeCorrect == Spec => []TypeOK
  <1>1. IInv => TypeOK
    BY DEF IInv
  <1> QED
    BY <1>1, IInvHolds, PTL

\* ESP_OK of AT+SMPUB and AT+CFSWFILE is about their own payload: no answer to
\* an earlier command, however late, is taken for it.
THEOREM PromptedVerdictIsOwn == Spec => []PromptedOkIsOwn
  <1>1. IInv => PromptedOkIsOwn
    BY DEF IInv
  <1> QED
    BY <1>1, IInvHolds, PTL

\* A late prompt costs no command but those that end the session.
THEOREM WantedIsNotSwallowed == Spec => []OnlyClosingIsSwallowed
  <1>1. IInv => OnlyClosingIsSwallowed
    BY DEF IInv
  <1> QED
    BY <1>1, IInvHolds, PTL

\* A command sent while nothing is under way gets its own verdict, whatever the
\* commands before it have met with.
THEOREM QuietVerdictIsOwn == Spec => []VerdictIsOwn
  <1>1. Init => SyncInv
    <2> SUFFICES ASSUME Init PROVE SyncInv
      OBVIOUS
    <2>1. cmd = [id |-> 0, kind |-> "probe"] /\ mode = 0 /\ executed = {}
      BY DEF Init
    <2> QED
      BY <2>1 DEF SyncInv, NothingIsAhead, StepsAgree
  <1>2. IInv /\ SyncInv /\ [Next]_vars => SyncInv'
    BY NextAgrees
  <1>3. SyncInv => VerdictIsOwn
    BY DEF SyncInv, StepsAgree, VerdictStays, VerdictIsOwn
  <1> QED
    BY <1>1, <1>2, <1>3, IInvHolds, PTL DEF Spec

-----------------------------------------------------------------------------------------
(***************************************************************************)
(* TickDeadline: a deadline that does not itself wrap is the tick of entry *)
(* and the window, and as long as the loop does not run into the wrap, the *)
(* tick count tells the time waited.  Nothing else depends on the uptime.  *)
(***************************************************************************)

\* The deadline of the loop entered last is one the counter can still reach, ...
DeadlineIsAhead == (begun % TickValues) + Window < TickValues

\* ... and even the iteration that overruns it ends before the wrap.
ClearOfTheWrap == (begun % TickValues) + Window + MaxIteration <= TickValues

LoopInv ==
    /\ WaitTypeOK
    /\ begun <= uptime
    /\ waiting /\ DeadlineIsAhead => deadline = (begun % TickValues) + Window
    /\ ClearOfTheWrap => WaitIsBounded

\* Short of the wrap, the count moves with the time.
LEMMA CountMovesWithTime ==
    ASSUME NEW t \in Nat, NEW d \in Nat, (t % TickValues) + d < TickValues
    PROVE  (t + d) % TickValues = (t % TickValues) + d
  <1> DEFINE q == t \div TickValues
             r == t % TickValues
  <1>1. q \in Nat /\ r \in 0 .. TickValues - 1 /\ t = q * TickValues + r
    BY DeadlineAssumption
  <1>2. r + d \in Nat /\ r + d < TickValues
    BY <1>1
  <1> HIDE DEF q, r
  <1>3. (q * TickValues + (r + d)) % TickValues = r + d
    BY <1>1, <1>2, DeadlineAssumption
  <1>4. t + d = q * TickValues + (r + d)
    BY <1>1, DeadlineAssumption
  <1> QED
    BY <1>3, <1>4 DEF r

LEMMA TickFacts ==
    ASSUME WaitTypeOK
    PROVE  /\ uptime \in Nat /\ begun \in Nat
           /\ begun % TickValues \in 0 .. TickValues - 1
           /\ TickCount \in 0 .. TickValues - 1
  BY DeadlineAssumption DEF WaitTypeOK, TickCount

\* What the count says in a loop that has not waited for its window.
LEMMA CountInLoop ==
    ASSUME LoopInv, waiting, DeadlineIsAhead, uptime - begun < Window
    PROVE  TickCount < deadline
  <1>1. uptime \in Nat /\ begun \in Nat /\ begun <= uptime
    BY TickFacts DEF LoopInv
  <1> DEFINE d == uptime - begun
  <1>2. d \in Nat /\ begun + d = uptime /\ d < Window
    BY <1>1
  <1> HIDE DEF d
  <1>3. begun % TickValues \in 0 .. TickValues - 1
    BY TickFacts DEF LoopInv
  <1>4. (begun % TickValues) + d < TickValues
    BY <1>2, <1>3, DeadlineAssumption DEF DeadlineIsAhead
  <1>5. TickCount = (begun % TickValues) + d
    BY <1>1, <1>2, <1>4, CountMovesWithTime DEF TickCount
  <1> QED
    BY <1>2, <1>3, <1>5, DeadlineAssumption DEF LoopInv

\* ... and in one that has, and has not run into the wrap.
LEMMA CountPastDeadline ==
    ASSUME LoopInv, waiting, ClearOfTheWrap, BeforeDeadline
    PROVE  uptime - begun < Window
  <1>1. uptime \in Nat /\ begun \in Nat /\ begun <= uptime
    BY TickFacts DEF LoopInv
  <1>2. begun % TickValues \in 0 .. TickValues - 1
    BY TickFacts DEF LoopInv
  <1>3. DeadlineIsAhead
    BY <1>2, DeadlineAssumption DEF ClearOfTheWrap, DeadlineIsAhead
  <1> DEFINE d == uptime - begun
  <1>4. d \in Nat /\ begun + d = uptime /\ d < Window + MaxIteration
    BY <1>1 DEF LoopInv, WaitIsBounded
  <1> HIDE DEF d
  <1>5. (begun % TickValues) + d < TickValues
    BY <1>2, <1>4, DeadlineAssumption DEF ClearOfTheWrap
  <1>6. TickCount = (begun % TickValues) + d
    BY <1>1, <1>4, <1>5, CountMovesWithTime DEF TickCount
  <1>7. d < Window
    BY <1>2, <1>3, <1>4, <1>6, DeadlineAssumption DEF LoopInv, BeforeDeadline
  <1> QED
    BY <1>7 DEF d

LEMMA LoopInvInitially == WaitInit => LoopInv
  <1> SUFFICES ASSUME WaitInit PROVE LoopInv
    OBVIOUS
  <1>1. 0 \in 0 .. MaxUptime /\ 0 \in 0 .. TickValues - 1
    BY DeadlineAssumption
  <1>2. uptime \in 0 .. MaxUptime /\ begun \in 0 .. MaxUptime /\ deadline \in 0 .. TickValues - 1
    BY <1>1 DEF WaitInit
  <1>3. waiting \in BOOLEAN /\ ~waiting
    BY DEF WaitInit
  <1>4. begun <= uptime
    BY DEF WaitInit
  <1> QED
    BY <1>2, <1>3, <1>4 DEF LoopInv, WaitTypeOK, WaitIsBounded

LEMMA EnterLoopPreserves ==
    ASSUME LoopInv, EnterLoop
    PROVE  LoopInv'
  <1>1. uptime \in Nat /\ uptime' = uptime /\ begun' = uptime
    BY TickFacts DEF EnterLoop, LoopInv
  <1>2. TickCount \in 0 .. TickValues - 1
    BY TickFacts DEF LoopInv
  <1>3. deadline' = (TickCount + Window) % TickValues
    BY DEF EnterLoop
  <1>4. deadline' \in 0 .. TickValues - 1
    BY <1>2, <1>3, DeadlineAssumption
  <1>5. WaitTypeOK'
    <2>1. waiting' \in BOOLEAN
      BY DEF EnterLoop
    <2> QED
      BY <1>1, <1>4, <2>1 DEF LoopInv, WaitTypeOK
  <1>6. ASSUME DeadlineIsAhead' PROVE deadline' = (begun' % TickValues) + Window
    <2>1. TickCount + Window < TickValues /\ begun' % TickValues = TickCount
      BY <1>1, <1>6 DEF DeadlineIsAhead, TickCount
    <2> QED
      BY <1>2, <1>3, <2>1, DeadlineAssumption
  <1>7. uptime' - begun' < Window + MaxIteration
    BY <1>1, DeadlineAssumption
  <1> QED
    BY <1>1, <1>5, <1>6, <1>7 DEF LoopInv, WaitIsBounded

LEMMA IteratePreserves ==
    ASSUME LoopInv, Iterate
    PROVE  LoopInv'
  <1>1. PICK ticks \in 1 .. MaxIteration : uptime' = uptime + ticks /\ uptime' <= MaxUptime
    BY DEF Iterate, Pass
  <1>2. waiting /\ BeforeDeadline /\ UNCHANGED <<waiting, deadline, begun>>
    BY DEF Iterate
  <1>3. uptime \in Nat /\ begun \in Nat /\ begun <= uptime
    BY TickFacts DEF LoopInv
  <1>4. WaitTypeOK' /\ begun' <= uptime'
    <2>1. ticks \in Nat
      BY DeadlineAssumption
    <2>2. uptime' \in 0 .. MaxUptime /\ begun <= uptime'
      BY <1>1, <1>3, <2>1, DeadlineAssumption
    <2> QED
      BY <1>2, <2>2 DEF LoopInv, WaitTypeOK
  <1>5. (DeadlineIsAhead' <=> DeadlineIsAhead) /\ (ClearOfTheWrap' <=> ClearOfTheWrap)
    BY <1>2 DEF DeadlineIsAhead, ClearOfTheWrap
  <1>6. ASSUME ClearOfTheWrap PROVE uptime' - begun' < Window + MaxIteration
    <2>1. uptime - begun < Window
      BY <1>2, <1>6, CountPastDeadline
    <2> QED
      BY <1>1, <1>2, <1>3, <2>1, DeadlineAssumption
  <1> QED
    BY <1>2, <1>4, <1>5, <1>6 DEF LoopInv, WaitIsBounded

LEMMA LoopInvPreserved == LoopInv /\ [WaitNext]_waitVars => LoopInv'
  <1> SUFFICES ASSUME LoopInv, [WaitNext]_waitVars PROVE LoopInv'
    OBVIOUS
  <1>1. CASE DoOtherWork
    <2>1. uptime' = uptime + 1 /\ uptime' <= MaxUptime /\ ~waiting' /\ UNCHANGED <<waiting, deadline, begun>>
      BY <1>1 DEF DoOtherWork, Pass
    <2>2. uptime' \in 0 .. MaxUptime /\ begun' <= uptime'
      BY <2>1, DeadlineAssumption DEF LoopInv, WaitTypeOK
    <2> QED
      BY <2>1, <2>2 DEF LoopInv, WaitTypeOK, WaitIsBounded
  <1>2. CASE EnterLoop
    BY <1>2, EnterLoopPreserves
  <1>3. CASE Iterate
    BY <1>3, IteratePreserves
  <1>4. CASE LeaveLoop
    BY <1>4 DEF LeaveLoop, LoopInv, WaitTypeOK, WaitIsBounded
  <1>5. CASE UNCHANGED waitVars
    BY <1>5 DEF waitVars, LoopInv, WaitTypeOK, WaitIsBounded, DeadlineIsAhead, ClearOfTheWrap
  <1> QED
    BY <1>1, <1>2, <1>3, <1>4, <1>5 DEF WaitNext

\* At any uptime: a loop that is entered far enough below the wrap stays
\* within its window, but for the length of one iteration.
THEOREM ClearWaitsAreBounded == WaitSpec => [](ClearOfTheWrap => WaitIsBounded)
  <1>1. LoopInv => (ClearOfTheWrap => WaitIsBounded)
    BY DEF LoopInv
  <1> QED
    BY <1>1, LoopInvInitially, LoopInvPreserved, PTL DEF WaitSpec

LEMMA LeavingIsLate ==
    ASSUME LoopInv, DeadlineIsAhead, LeaveLoop
    PROVE  uptime - begun >= Window
  <1>1. uptime \in Nat /\ begun \in Nat
    BY TickFacts DEF LoopInv
  <1>2. TickCount \in 0 .. TickValues - 1 /\ deadline \in 0 .. TickValues - 1
    BY TickFacts DEF LoopInv, WaitTypeOK
  <1>3. ~(TickCount < deadline)
    BY DEF LeaveLoop, BeforeDeadline
  <1>4. ~(uptime - begun < Window)
    BY <1>3, CountInLoop DEF LeaveLoop
  <1> QED
    BY <1>1, <1>4, DeadlineAssumption

\* At any uptime: a loop whose deadline does not wrap is not left before its
\* window is over, unless it has found what it waits for.
THEOREM WaitsAheadAreComplete ==
    WaitSpec => [][DeadlineIsAhead /\ waiting /\ ~waiting' => uptime - begun >= Window]_waitVars
  <1>1. LoopInv /\ [WaitNext]_waitVars =>
            [DeadlineIsAhead /\ waiting /\ ~waiting' => uptime - begun >= Window]_waitVars
    BY LeavingIsLate DEF WaitNext, DoOtherWork, EnterLoop, Iterate, waitVars
  <1> QED
    BY <1>1, LoopInvInitially, LoopInvPreserved, PTL DEF WaitSpec

\* No loop of the run has a deadline beyond the values the counter has.
BeforeTheWrap == MaxUptime + Window < TickValues

LEMMA CountIsUptime ==
    ASSUME BeforeTheWrap, NEW t \in 0 .. MaxUptime
    PROVE  t % TickValues = t /\ t + Window < TickValues
  BY DeadlineAssumption, SMT DEF BeforeTheWrap

LEMMA FirstLoopsAreAhead ==
    ASSUME BeforeTheWrap, WaitTypeOK
    PROVE  TickCount = uptime /\ begun % TickValues = begun /\ DeadlineIsAhead
  BY CountIsUptime DEF WaitTypeOK, TickCount, DeadlineIsAhead

\* Until the counter first wraps, every wait stays within its window, but for
\* the length of one iteration.
THEOREM WaitsAreBounded ==
    ASSUME BeforeTheWrap
    PROVE  WaitSpec => []WaitIsBounded
  <1>1. LoopInv /\ WaitIsBounded /\ [WaitNext]_waitVars => WaitIsBounded'
    <2> SUFFICES ASSUME LoopInv, WaitIsBounded, [WaitNext]_waitVars, waiting'
                 PROVE  uptime' - begun' < Window + MaxIteration
      BY DEF WaitIsBounded
    <2>1. uptime \in Nat /\ begun \in Nat
      BY TickFacts DEF LoopInv
    <2>2. CASE EnterLoop
      BY <2>1, <2>2, DeadlineAssumption DEF EnterLoop
    <2>3. CASE Iterate
      <3>1. TickCount < deadline /\ deadline = begun + Window
        BY <2>3, FirstLoopsAreAhead DEF Iterate, BeforeDeadline, LoopInv
      <3>2. uptime < begun + Window
        BY <3>1, FirstLoopsAreAhead DEF LoopInv
      <3>3. PICK ticks \in 1 .. MaxIteration : uptime' = uptime + ticks
        BY <2>3 DEF Iterate, Pass
      <3> QED
        BY <2>1, <2>3, <3>2, <3>3, DeadlineAssumption DEF Iterate
    <2>4. CASE UNCHANGED waitVars
      BY <2>4 DEF waitVars, WaitIsBounded
    <2> QED
      BY <2>2, <2>3, <2>4 DEF WaitNext, DoOtherWork, LeaveLoop
  <1>2. WaitInit => WaitIsBounded
    BY DEF WaitInit, WaitIsBounded
  <1> QED
    BY <1>1, <1>2, LoopInvInitially, LoopInvPreserved, PTL DEF WaitSpec

\* ... and none is left before the window is over, unless it has succeeded.
THEOREM WaitsAreComplete ==
    ASSUME BeforeTheWrap
    PROVE  WaitSpec => WaitIsNotCutShort
  <1>1. LoopInv /\ [WaitNext]_waitVars => [waiting /\ ~waiting' => uptime - begun >= Window]_waitVars
    <2>1. LoopInv => DeadlineIsAhead
      BY FirstLoopsAreAhead DEF LoopInv
    <2> QED
      BY <2>1, LeavingIsLate DEF WaitNext, DoOtherWork, EnterLoop, Iterate, waitVars
  <1> QED
    BY <1>1, LoopInvInitially, LoopInvPreserved, PTL DEF WaitSpec, WaitIsNotCutShort
======================================================================================
