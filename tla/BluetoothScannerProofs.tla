--------------------------- MODULE BluetoothScannerProofs ---------------------------
(***************************************************************************)
(* Proofs about BluetoothScanner.cpp: the tasks that scan                  *)
(* (BluetoothScanner), and the way from the configured texts and a frame   *)
(* on the air to the stored telemetry (VictronReadout).                    *)
(*                                                                         *)
(* None of the scanner's flags says by itself what the controller does;    *)
(* ScanInv says what each task may conclude from them at the point where   *)
(* it reads them.                                                          *)
(*                                                                         *)
(* The parsers and the bit reader are loops over their input, here         *)
(* functions of the number of iterations.  What a loop has computed is     *)
(* shown by induction on that number, for which the least element of a set *)
(* of numbers is enough (LeastElement, Induction).                         *)
(***************************************************************************)
EXTENDS BluetoothScanner, VictronReadout, WellFoundedInduction, TLAPS

--------------------------------------------------------------------------------------
(* The tasks that scan.                                                      *)

\* The initial values are of their types.
LEMMA InitTypes == Init => TypeOK
  BY DEF Init, TypeOK

\* One case per action.
LEMMA StepTypes == TypeOK /\ [Next]_vars => TypeOK'
  <1> SUFFICES ASSUME TypeOK, [Next]_vars PROVE TypeOK'
    OBVIOUS
  <1> USE DEF TypeOK, flags, stack, history, timerFrame
  <1>1. CASE HandleSync
    BY <1>1 DEF HandleSync, StartScan
  <1>2. CASE BeginScan
    BY <1>2 DEF BeginScan
  <1>3. CASE ScanBegun
    BY <1>3 DEF ScanBegun
  <1>4. CASE BeginScanFails
    BY <1>4 DEF BeginScanFails
  <1>5. CASE DiscoveryComplete
    BY <1>5 DEF DiscoveryComplete, StartScan
  <1>6. CASE Discovery
    BY <1>6 DEF Discovery
  <1>7. CASE DiscoveryEnds
    <2>1. scanning' \in BOOLEAN /\ completion' \in BOOLEAN
      BY <1>7 DEF DiscoveryEnds
    <2>2. UNCHANGED <<flags, host, timer, indicator, synced, history>>
      BY <1>7 DEF DiscoveryEnds
    <2> QED
      BY <2>1, <2>2
  <1>8. CASE HandleReset
    BY <1>8 DEF HandleReset
  <1>9. CASE TimerWakes
    BY <1>9 DEF TimerWakes
  <1>10. CASE TimerExpires
    BY <1>10 DEF TimerExpires
  <1>11. CASE TimerTests
    BY <1>11 DEF TimerTests
  <1>12. CASE TimerCancels
    BY <1>12 DEF TimerCancels
  <1>13. CASE TimerCancelFails
    BY <1>13 DEF TimerCancelFails
  <1>14. CASE IndicatorTask
    BY <1>14 DEF IndicatorTask
  <1>15. CASE UNCHANGED vars
    BY <1>15 DEF vars
  <1> QED
    BY <1>1, <1>2, <1>3, <1>4, <1>5, <1>6, <1>7, <1>8, <1>9, <1>10, <1>11, <1>12, <1>13,
       <1>14, <1>15 DEF Next, HostTask, TimerTask

\* So is every state, also in the proofs that need no more of it.
LEMMA TypeCorrect == Spec => []TypeOK
  BY InitTypes, StepTypes, PTL DEF Spec

\* A discovery needs a stack in sync, is not announced to be over while it runs,
\* and is not started where one runs already or has left its end to be handled.
StackAgrees ==
    /\ scanning => synced /\ ~completion
    /\ host = "starting" => ~scanning /\ ~completion

\* Only a search that has timed out is tested and cancelled, and no scan is
\* cancelled but by the last step of the timeout task.
TimeoutIsKnown ==
    /\ timer \in {"test", "cancel"} => timedOut
    /\ lostFound => timer = "done"

\* A scan that is started and still wanted when ble_gap_disc() returns is under
\* way, or has an end that the host task is to hear of.
StartIsSeenThrough ==
    host = "started" /\ MayScan => scanning \/ completion \/ lostFound

\* Once the timeout task is through with a vain search, nobody scans or is
\* about to.
SearchIsOver ==
    timer = "done" /\ timedOut /\ ~found =>
        (~scanning /\ host # "starting") \/ notCancelled

\* The inductive invariant of the scanner.
ScanInv ==
    /\ TypeOK
    /\ StackAgrees
    /\ RadioIsFlagged
    /\ TimeoutIsKnown
    /\ StartIsSeenThrough
    /\ ScanComesBack
    /\ SearchIsOver

\* Nothing runs at first.
LEMMA InitScan == Init => ScanInv
  BY InitTypes DEF Init, ScanInv, StackAgrees, RadioIsFlagged, TimeoutIsKnown,
                   StartIsSeenThrough, ScanComesBack, SearchIsOver, Quiet

\* One case per action, and under it the parts that it can disturb.
LEMMA StepScan == ScanInv /\ [Next]_vars => ScanInv'
  <1> SUFFICES ASSUME ScanInv, [Next]_vars PROVE ScanInv'
    OBVIOUS
  <1> USE DEF TypeOK, StackAgrees, RadioIsFlagged, TimeoutIsKnown, StartIsSeenThrough,
              ScanComesBack, SearchIsOver, MayScan, Quiet, flags, stack, history
  <1>0. TypeOK'
    BY StepTypes DEF ScanInv
  \* A new sync finds no scan, and starts one only if it may.
  <1>1. CASE HandleSync
    BY <1>0, <1>1 DEF ScanInv, HandleSync, StartScan
  <1>2. CASE BeginScan
    BY <1>0, <1>2 DEF ScanInv, BeginScan
  \* What became of the scan is known by StartIsSeenThrough.
  <1>3. CASE ScanBegun
    BY <1>0, <1>3 DEF ScanInv, ScanBegun
  <1>4. CASE BeginScanFails
    BY <1>0, <1>4 DEF ScanInv, BeginScanFails
  \* By StackAgrees there is no scan whose flag could be cleared wrongly.
  <1>5. CASE DiscoveryComplete
    BY <1>0, <1>5 DEF ScanInv, DiscoveryComplete, StartScan
  \* A target found makes a scan wanted that is under way.
  <1>6. CASE Discovery
    BY <1>0, <1>6 DEF ScanInv, Discovery
  <1>7. CASE DiscoveryEnds
    BY <1>0, <1>7 DEF ScanInv, DiscoveryEnds
  <1>8. CASE HandleReset
    BY <1>0, <1>8 DEF ScanInv, HandleReset
  <1>9. CASE TimerWakes
    BY <1>0, <1>9 DEF ScanInv, TimerWakes, timerFrame
  \* What was wanted may no longer be, and nothing else changes.
  <1>10. CASE TimerExpires
    BY <1>0, <1>10 DEF ScanInv, TimerExpires, timerFrame
  \* By RadioIsFlagged a scan that is not flagged is just being started.
  <1>11. CASE TimerTests
    BY <1>0, <1>11 DEF ScanInv, TimerTests, timerFrame, BeingStarted
  \* A target found in the meantime is what lostFound notes.
  <1>12. CASE TimerCancels
    BY <1>0, <1>12 DEF ScanInv, TimerCancels, timerFrame
  <1>13. CASE TimerCancelFails
    BY <1>0, <1>13 DEF ScanInv, TimerCancelFails, timerFrame, BeingStarted
  <1>14. CASE IndicatorTask
    BY <1>0, <1>14 DEF ScanInv, IndicatorTask
  <1>15. CASE UNCHANGED vars
    BY <1>15 DEF ScanInv, vars
  <1> QED
    BY <1>1, <1>2, <1>3, <1>4, <1>5, <1>6, <1>7, <1>8, <1>9, <1>10, <1>11, <1>12, <1>13, <1>14, <1>15
       DEF Next, HostTask, TimerTask

\* The two together.
LEMMA Invariance == Spec => []ScanInv
  BY InitScan, StepScan, PTL DEF Spec

\* scan_active_ may lag behind a scan only during the call of ble_gap_disc()
\* (BluetoothScanner.cpp:1239): the timeout task, which takes the flag for the
\* state of the controller, does not overlook a scan but there.
THEOREM FlagIsTruthful == Spec => []RadioIsFlagged
  BY Invariance, PTL DEF ScanInv

\* After every end of a scan and every reset of the BLE stack, in whichever order
\* they fall into the steps of the tasks, a scan that is still wanted is running
\* again, unless a start failed or the timeout cancelled it as it found the target.
THEOREM ScanReturns == Spec => []ScanComesBack
  BY Invariance, PTL DEF ScanInv

\* A search that timed out in vain is not going on (BluetoothScanner.cpp:1449),
\* unless its cancellation failed or met a scan that was being started.
THEOREM SearchEnds == Spec => []SearchIsGivenUp
  <1>1. ScanInv => SearchIsGivenUp
    BY DEF ScanInv, SearchIsOver, SearchIsGivenUp
  <1> QED
    BY <1>1, Invariance, PTL

\* No event brings a scan back that was given up: no completion that is handled
\* late, no sync after a reset, and no advertisement, as none is received.
THEOREM GivingUpLasts == Spec => GivingUpIsFinal
  <1>1. TypeOK /\ [Next]_vars => [GivenUp => GivenUp']_vars
    <2> SUFFICES ASSUME TypeOK, GivenUp, Next PROVE GivenUp'
      OBVIOUS
    <2>0. timedOut = TRUE /\ found = FALSE /\ scanning = FALSE /\ host # "starting"
      BY DEF TypeOK, GivenUp
    <2> USE <2>0 DEF GivenUp, MayScan, flags, stack
    <2>1. CASE HostTask
      <3>1. CASE HandleSync
        BY <3>1 DEF HandleSync, StartScan
      <3>2. CASE ScanBegun
        BY <3>2 DEF ScanBegun
      <3>3. CASE DiscoveryComplete
        BY <3>3 DEF DiscoveryComplete, StartScan
      <3> QED
        BY <2>1, <3>1, <3>2, <3>3 DEF HostTask, BeginScan, BeginScanFails
    <2>2. CASE HandleReset
      BY <2>2 DEF HandleReset
    <2>3. CASE TimerTask
      <3>1. UNCHANGED <<found, scanning, host>> /\ timedOut'
        BY <2>3 DEF TimerTask, TimerWakes, TimerExpires, TimerTests, TimerCancels,
                    TimerCancelFails, timerFrame
      <3> QED
        BY <3>1
    <2>4. CASE IndicatorTask
      BY <2>4 DEF IndicatorTask
    <2> QED
      BY <2>1, <2>2, <2>3, <2>4 DEF Next, Discovery, DiscoveryEnds
  <1> QED
    BY <1>1, TypeCorrect, PTL DEF Spec, GivingUpIsFinal

--------------------------------------------------------------------------------------
(* Loops over the input.                                                      *)

\* From the well-foundedness of < on Nat.
LEMMA LeastElement ==
    ASSUME NEW T \in SUBSET Nat, T # {}
    PROVE  \E x \in T : \A y \in T : x <= y
  <1> DEFINE R == OpToRel(<, Nat)
  <1>1. IsWellFoundedOn(R, Nat)
    BY NatLessThanWellFounded
  <1>2. ASSUME NEW x \in Nat, NEW y \in Nat, y < x PROVE  <<y, x>> \in R
    BY <1>2 DEF OpToRel
  <1> HIDE DEF R
  <1>3. PICK x \in T : \A y \in T : ~(<<y, x>> \in R)
    BY <1>1, WFMin
  <1>4. ASSUME NEW y \in T PROVE x <= y
    <2>1. x \in Nat /\ y \in Nat
      OBVIOUS
    <2>2. ~(y < x)
      BY <1>2, <1>3, <2>1
    <2> QED
      BY <2>1, <2>2
  <1> QED
    BY <1>4

\* A set of numbers that holds 0 and the successor of each of its members up to n.
LEMMA Induction ==
    ASSUME NEW n \in Nat, NEW T, 0 \in T, \A k \in 0 .. n - 1 : k \in T => k + 1 \in T
    PROVE  \A k \in 0 .. n : k \in T
  <1> SUFFICES ASSUME NEW k \in 0 .. n, k \notin T PROVE FALSE
    OBVIOUS
  <1> DEFINE U == (0 .. n) \ T
  <1>1. PICK x \in U : \A y \in U : x <= y
    <2>1. U \in SUBSET Nat /\ U # {}
      OBVIOUS
    <2> HIDE DEF U
    <2> QED
      BY <2>1, LeastElement
  <1>2. x # 0
    OBVIOUS
  <1>3. x - 1 \in 0 .. n - 1 /\ x - 1 \in T
    BY <1>1, <1>2
  <1>4. (x - 1) + 1 \in T
    BY <1>3
  <1> QED
    BY <1>4

\* A loop over 1 .. n has a state after each iteration.
Loop(n, base, F, g) == g = [k \in 0 .. n |-> IF k = 0 THEN base ELSE F[<<k, g[k - 1]>>]]

\* There is such a function of the number of iterations.
LEMMA LoopRuns ==
    ASSUME NEW n \in Nat, NEW S, NEW base \in S, NEW F \in [(1 .. n) \X S -> S]
    PROVE  \E g \in [0 .. n -> S] : Loop(n, base, F, g)
  <1> DEFINE T == {m \in 0 .. n : \E g \in [0 .. m -> S] : Loop(m, base, F, g)}
  <1>1. 0 \in T
    <2> DEFINE g == [k \in 0 .. 0 |-> base]
    <2>1. g \in [0 .. 0 -> S]
      OBVIOUS
    <2>2. Loop(0, base, F, g)
      <3>1. \A k \in 0 .. 0 : k = 0
        OBVIOUS
      <3> QED
        BY <3>1 DEF Loop
    <2> HIDE DEF g
    <2> QED
      BY <2>1, <2>2
  <1>2. ASSUME NEW m \in 0 .. n - 1, m \in T PROVE m + 1 \in T
    <2>1. PICK g \in [0 .. m -> S] : Loop(m, base, F, g)
      BY <1>2
    <2> DEFINE h == [k \in 0 .. m + 1 |-> IF k = m + 1 THEN F[<<m + 1, g[m]>>] ELSE g[k]]
    <2>2. m \in 0 .. m /\ m + 1 \in 1 .. n /\ m + 1 \in 0 .. n
      OBVIOUS
    <2>3. F[<<m + 1, g[m]>>] \in S
      BY <2>2
    <2>4. \A k \in 0 .. m + 1 : k # m + 1 => k \in 0 .. m
      OBVIOUS
    <2>5. h \in [0 .. m + 1 -> S]
      BY <2>3, <2>4
    <2>6. \A k \in 0 .. m : h[k] = g[k] /\ g[k] = IF k = 0 THEN base ELSE F[<<k, g[k - 1]>>]
      BY <2>1 DEF Loop
    <2>7. ASSUME NEW k \in 0 .. m + 1
          PROVE  h[k] = IF k = 0 THEN base ELSE F[<<k, h[k - 1]>>]
      <3>1. CASE k = m + 1
        <4>1. k \in 0 .. m + 1 /\ k # 0 /\ k - 1 = m /\ m \in 0 .. m + 1 /\ m # m + 1
          BY <3>1
        <4>2. h[k] = F[<<m + 1, g[m]>>] /\ h[m] = g[m]
          BY <3>1, <4>1
        <4> HIDE DEF h
        <4> QED
          BY <3>1, <4>1, <4>2
      <3>2. CASE k # m + 1
        <4>1. k \in 0 .. m /\ (k # 0 => k - 1 \in 0 .. m)
          BY <3>2
        <4> QED
          BY <2>6, <4>1
      <3> QED
        BY <3>1, <3>2
    <2>8. h = [k \in 0 .. m + 1 |-> h[k]]
      OBVIOUS
    <2> HIDE DEF h
    <2>9. Loop(m + 1, base, F, h)
      BY <2>7, <2>8 DEF Loop
    <2> QED
      BY <2>2, <2>5, <2>9
  <1>3. n \in T
    <2>1. n \in Nat /\ n \in 0 .. n
      OBVIOUS
    <2> HIDE DEF T
    <2> QED
      BY <1>1, <1>2, <2>1, Induction
  <1> QED
    BY <1>3

--------------------------------------------------------------------------------------
(* The bits of a frame: VictronBitReader, signExtend() and                   *)
(* parseVictronBatteryMonitorTelemetry().                                     *)

\* The powers that the widths of the fields need, up to 22 bits.
LEMMA Powers ==
    /\ 2^0 = 1
    /\ 2^1 = 2
    /\ 2^2 = 4
    /\ 2^3 = 8
    /\ 2^4 = 16
    /\ 2^5 = 32
    /\ 2^6 = 64
    /\ 2^7 = 128
    /\ 2^8 = 256
    /\ 2^9 = 512
    /\ 2^10 = 1024
    /\ 2^11 = 2048
    /\ 2^12 = 4096
    /\ 2^13 = 8192
    /\ 2^14 = 16384
    /\ 2^15 = 32768
    /\ 2^16 = 65536
    /\ 2^17 = 131072
    /\ 2^18 = 262144
    /\ 2^19 = 524288
    /\ 2^20 = 1048576
    /\ 2^21 = 2097152
    /\ 2^22 = 4194304
  OBVIOUS

\* Each is twice the one before it.
LEMMA PowerDoubles ==
    ASSUME NEW k \in 0 .. 21
    PROVE  2^(k + 1) = 2 * 2^k /\ 2^k \in Nat \ {0}
  <1>0. \/ k = 0 \/ k = 1 \/ k = 2 \/ k = 3 \/ k = 4 \/ k = 5 \/ k = 6 \/ k = 7
        \/ k = 8 \/ k = 9 \/ k = 10 \/ k = 11 \/ k = 12 \/ k = 13 \/ k = 14
        \/ k = 15 \/ k = 16 \/ k = 17 \/ k = 18 \/ k = 19 \/ k = 20 \/ k = 21
    OBVIOUS
  <1>1. CASE k = 0
    BY <1>1, Powers
  <1>2. CASE k = 1
    BY <1>2, Powers
  <1>3. CASE k = 2
    BY <1>3, Powers
  <1>4. CASE k = 3
    BY <1>4, Powers
  <1>5. CASE k = 4
    BY <1>5, Powers
  <1>6. CASE k = 5
    BY <1>6, Powers
  <1>7. CASE k = 6
    BY <1>7, Powers
  <1>8. CASE k = 7
    BY <1>8, Powers
  <1>9. CASE k = 8
    BY <1>9, Powers
  <1>10. CASE k = 9
    BY <1>10, Powers
  <1>11. CASE k = 10
    BY <1>11, Powers
  <1>12. CASE k = 11
    BY <1>12, Powers
  <1>13. CASE k = 12
    BY <1>13, Powers
  <1>14. CASE k = 13
    BY <1>14, Powers
  <1>15. CASE k = 14
    BY <1>15, Powers
  <1>16. CASE k = 15
    BY <1>16, Powers
  <1>17. CASE k = 16
    BY <1>17, Powers
  <1>18. CASE k = 17
    BY <1>18, Powers
  <1>19. CASE k = 18
    BY <1>19, Powers
  <1>20. CASE k = 19
    BY <1>20, Powers
  <1>21. CASE k = 20
    BY <1>21, Powers
  <1>22. CASE k = 21
    BY <1>22, Powers
  <1> QED
    BY <1>0, <1>1, <1>2, <1>3, <1>4, <1>5, <1>6, <1>7, <1>8, <1>9, <1>10, <1>11, <1>12,
       <1>13, <1>14, <1>15, <1>16, <1>17, <1>18, <1>19, <1>20, <1>21, <1>22

\* Division by a positive number, and that quotient and rest are unique.
LEMMA DivFacts ==
    ASSUME NEW V \in Int, NEW A \in Nat \ {0}
    PROVE  /\ V \div A \in Int /\ V % A \in 0 .. A - 1
           /\ V = (V \div A) * A + (V % A)
  OBVIOUS

LEMMA ModIs ==
    ASSUME NEW A \in Nat \ {0}, NEW q \in Int, NEW r \in 0 .. A - 1
    PROVE  (q * A + r) % A = r /\ (q * A + r) \div A = q
  OBVIOUS

\* One bit more of V.
LEMMA Halve ==
    ASSUME NEW V \in Nat, NEW A \in Nat \ {0}
    PROVE  V % (2 * A) = (V % A) + ((V \div A) % 2) * A
  <1> DEFINE q == V \div A
             r == V % A
             h == q \div 2
             b == q % 2
  <1>1. q \in Int /\ r \in 0 .. A - 1 /\ V = q * A + r
    BY DivFacts
  <1>2. h \in Int /\ b \in 0 .. 1 /\ q = h * 2 + b
    BY <1>1
  <1> HIDE DEF q, r, h, b
  <1>3. b * A + r \in 0 .. 2 * A - 1
    <2>1. b = 0 \/ b = 1
      BY <1>2
    <2> QED
      BY <2>1, <1>1
  <1>4. V = h * (2 * A) + (b * A + r)
    <2>1. q * A = h * (2 * A) + b * A
      BY <1>2
    <2> QED
      BY <1>1, <1>2, <2>1
  <1>5. V % (2 * A) = b * A + r
    <2>1. 2 * A \in Nat \ {0}
      OBVIOUS
    <2> QED
      BY <1>2, <1>3, <1>4, <2>1, ModIs
  <1>6. b * A \in Nat
    BY <1>2
  <1> QED
    BY <1>1, <1>5, <1>6 DEF b, q, r

\* The n bits from index at on are those of V, the least first.
HoldsBits(bits, at, n, V) == \A i \in 0 .. n - 1 : bits[at + i] = (V \div 2^i) % 2

\* The reader puts together what was taken apart.
LEMMA ReadsBits ==
    ASSUME NEW bits, NEW at \in Nat, NEW n \in 0 .. 22, NEW V \in Nat, HoldsBits(bits, at, n, V)
    PROVE  ReadUnsignedInt(bits, at, n) = V % 2^n
  <1> DEFINE F(g) == [p \in 0 .. n |-> IF p = 0 THEN 0 ELSE g[p - 1] + bits[at + p - 1] * 2^(p - 1)]
             value == CHOOSE g : g = F(g)
             W == [p \in 0 .. n |-> V % 2^p]
  <1>1. W = F(W)
    <2> SUFFICES ASSUME NEW p \in 0 .. n
                 PROVE  W[p] = IF p = 0 THEN 0 ELSE W[p - 1] + bits[at + p - 1] * 2^(p - 1)
      OBVIOUS
    <2>1. CASE p = 0
      BY <2>1, Powers
    <2>2. CASE p # 0
      <3>1. /\ p - 1 \in 0 .. 21 /\ p - 1 \in 0 .. n - 1
            /\ at + p - 1 = at + (p - 1) /\ (p - 1) + 1 = p
        BY <2>2
      <3>2. 2^p = 2 * 2^(p - 1) /\ 2^(p - 1) \in Nat \ {0}
        BY <3>1, PowerDoubles
      <3>3. V % 2^p = (V % 2^(p - 1)) + ((V \div 2^(p - 1)) % 2) * 2^(p - 1)
        BY <3>2, Halve
      <3>4. bits[at + p - 1] = (V \div 2^(p - 1)) % 2
        BY <3>1 DEF HoldsBits
      <3> QED
        BY <2>2, <3>1, <3>3, <3>4
    <2> QED
      BY <2>1, <2>2
  <1>2. ReadUnsignedInt(bits, at, n) = value[n]
    BY DEF ReadUnsignedInt
  <1> HIDE DEF W
  <1>3. value = F(value)
    BY <1>1
  <1> DEFINE T == {p \in 0 .. n : value[p] = W[p]}
  <1>4. 0 \in T
    <2>1. 0 \in 0 .. n
      OBVIOUS
    <2> HIDE DEF value
    <2>2. value[0] = 0
      BY <1>3, <2>1
    <2>3. W[0] = 0
      BY <1>1, <2>1
    <2> QED
      BY <2>1, <2>2, <2>3
  <1>5. ASSUME NEW k \in 0 .. n - 1, k \in T PROVE k + 1 \in T
    <2>1. k + 1 \in 0 .. n /\ k + 1 # 0 /\ (k + 1) - 1 = k
      OBVIOUS
    <2> HIDE DEF value
    <2>2. value[k + 1] = value[k] + bits[at + (k + 1) - 1] * 2^k
      BY <1>3, <2>1
    <2>3. W[k + 1] = W[k] + bits[at + (k + 1) - 1] * 2^k
      BY <1>1, <2>1
    <2> QED
      BY <1>5, <2>1, <2>2, <2>3
  <1>6. n \in T
    <2> HIDE DEF T
    <2>1. n \in Nat /\ n \in 0 .. n
      OBVIOUS
    <2> QED
      BY <1>4, <1>5, <2>1, Induction
  <1> QED
    BY <1>2, <1>6 DEF W

\* signExtend() gives back the number of which n bits were sent.
LEMMA SignsBack ==
    ASSUME NEW n \in 1 .. 22, NEW m, m = n - 1, NEW V \in -(2^m) .. 2^m - 1
    PROVE  SignExtend(V % 2^n, n) = V
  <1> DEFINE P == 2^(n - 1)
  <1>1. n - 1 \in 0 .. 21 /\ (n - 1) + 1 = n
    OBVIOUS
  <1>2. P \in Nat \ {0} /\ 2^n = 2 * P
    BY <1>1, PowerDoubles
  <1>3. V \in -P .. P - 1
    OBVIOUS
  <1> HIDE DEF P
  <1>4. CASE V >= 0
    <2>1. V = 0 * (2 * P) + V /\ V \in 0 .. 2 * P - 1
      BY <1>2, <1>3, <1>4
    <2>2. V % (2 * P) = V
      BY <2>1, <1>2, ModIs
    <2>3. V = 0 * P + V /\ V \in 0 .. P - 1
      BY <1>2, <1>3, <1>4
    <2>4. V \div P = 0
      BY <2>3, <1>2, ModIs
    <2> QED
      BY <1>2, <2>2, <2>4 DEF SignExtend, P
  <1>5. CASE V < 0
    <2>1. V = (-1) * (2 * P) + (V + 2 * P) /\ V + 2 * P \in 0 .. 2 * P - 1
      BY <1>2, <1>3, <1>5
    <2>2. V % (2 * P) = V + 2 * P
      BY <2>1, <1>2, ModIs
    <2>3. V + 2 * P = 1 * P + (V + P) /\ V + P \in 0 .. P - 1
      BY <1>2, <1>3, <1>5
    <2>4. (V + 2 * P) \div P = 1
      BY <2>3, <1>2, ModIs
    <2> QED
      BY <1>2, <1>3, <2>2, <2>4 DEF SignExtend, P
  <1> QED
    BY <1>3, <1>4, <1>5

\* The reader finds the fields where Victron puts them.
LEMMA BitIndices == BitIndex[2] = 16 /\ BitIndex[6] = 66 /\ BitIndex[8] = 108
  <1> DEFINE F(g) == [k \in 1 .. 9 |-> IF k = 1 THEN 0 ELSE g[k - 1] + Widths[k - 1]]
             W == [k \in 1 .. 9 |-> <<0, 16, 32, 48, 64, 66, 88, 108, 118>>[k]]
  <1>1. W = F(W)
    BY DEF Widths
  <1> HIDE DEF W
  <1>2. BitIndex = F(BitIndex)
    BY <1>1 DEF BitIndex
  <1>3. \A k \in 1 .. 9 : BitIndex[k] = IF k = 1 THEN 0 ELSE BitIndex[k - 1] + Widths[k - 1]
    BY <1>2
  <1>4. BitIndex[1] = 0 /\ BitIndex[2] = 16
    BY <1>3 DEF Widths
  <1>5. BitIndex[3] = 32 /\ BitIndex[4] = 48
    BY <1>3, <1>4 DEF Widths
  <1>6. BitIndex[5] = 64 /\ BitIndex[6] = 66
    BY <1>3, <1>5 DEF Widths
  <1>7. BitIndex[7] = 88 /\ BitIndex[8] = 108
    BY <1>3, <1>6 DEF Widths
  <1> QED
    BY <1>4, <1>6, <1>7

\* A number that fits is not cut.
LEMMA SmallMod ==
    ASSUME NEW A \in Nat \ {0}, NEW r \in 0 .. A - 1
    PROVE  r % A = r
  OBVIOUS

\* What is read where a field of the layout stands.
LEMMA ReadsField ==
    ASSUME NEW bits, NEW f, f.at \in Nat, f.width \in 0 .. 22, f.value \in Int
    PROVE  (\A i \in f.at .. f.at + f.width - 1 : bits[i] = Bit(f, i)) =>
               ReadUnsignedInt(bits, f.at, f.width) = f.value % 2^f.width
  <1> DEFINE n == f.width
             at == f.at
             V == f.value % 2^n
  <1>1. 2^n \in Nat \ {0}
    <2>1. CASE n = 22
      BY <2>1, Powers
    <2>2. CASE n # 22
      <3>1. n \in 0 .. 21
        BY <2>2
      <3> QED
        BY <3>1, PowerDoubles
    <2> QED
      BY <2>1, <2>2
  <1>2. V \in 0 .. 2^n - 1 /\ V \in Nat
    BY <1>1
  <1>3. (\A i \in f.at .. f.at + f.width - 1 : bits[i] = Bit(f, i)) =>
            HoldsBits(bits, at, n, V)
    <2>1. \A i \in 0 .. n - 1 : f.at + i \in f.at .. f.at + f.width - 1 /\ (f.at + i) - f.at = i
      OBVIOUS
    <2> QED
      BY <2>1 DEF Bit, HoldsBits
  <1>4. at \in Nat /\ n \in 0 .. 22 /\ V \in Nat
    BY <1>2
  <1> HIDE DEF V, n, at
  <1>5. HoldsBits(bits, at, n, V) => ReadUnsignedInt(bits, at, n) = V % 2^n
    BY <1>4, ReadsBits
  <1>6. (\A i \in f.at .. f.at + f.width - 1 : bits[i] = Bit(f, i)) =>
            ReadUnsignedInt(bits, at, n) = V
    <2>1. V % 2^n = V
      BY <1>1, <1>2, SmallMod
    <2> QED
      BY <1>3, <1>5, <2>1
  <1> QED
    BY <1>6 DEF V, n, at

\* A field that is whole in the ciphertext, decrypted with the shunt's key.
FieldIsWhole(frame, f) == f.at + f.width <= 8 * CipherLen(frame)

\* The layout, in numbers.
LEMMA FieldFacts ==
    ASSUME NEW reading, Measurable(reading)
    PROVE  LET f == Field(reading) IN
           /\ f.voltage.at = 16 /\ f.voltage.width = 16 /\ f.voltage.value \in Int
           /\ f.current.at = 66 /\ f.current.width = 22 /\ f.current.value \in Int
           /\ f.soc.at = 108 /\ f.soc.width = 10 /\ f.soc.value \in Int
  BY Powers DEF Field, Measurable

\* The padding adds to every length, so no bit of the ciphertext is lost.
LEMMA PaddingAdds ==
    ASSUME NEW c \in Nat
    PROVE  PaddedLen(c) \in Nat /\ PaddedLen(c) > c
  BY DEF PaddedLen, BlockSize

\* No field reaches into another.
LEMMA DecryptedFields ==
    ASSUME NEW frame, Measurable(frame.reading), frame.len \in Nat, KeyIsRight
    PROVE  LET f == Field(frame.reading)
               bits == Decrypted(frame)
           IN  /\ FieldIsWhole(frame, f.voltage) => \A i \in 16 .. 31 : bits[i] = Bit(f.voltage, i)
               /\ FieldIsWhole(frame, f.current) => \A i \in 66 .. 87 : bits[i] = Bit(f.current, i)
               /\ FieldIsWhole(frame, f.soc) => \A i \in 108 .. 117 : bits[i] = Bit(f.soc, i)
  <1> DEFINE f == Field(frame.reading)
             bits == Decrypted(frame)
             record == Record(frame.reading, frame.fill)
             c == CipherLen(frame)
  <1>1. /\ f.voltage.at = 16 /\ f.voltage.width = 16
        /\ f.current.at = 66 /\ f.current.width = 22
        /\ f.soc.at = 108 /\ f.soc.width = 10
    BY FieldFacts
  <1>2. c \in Int
    BY DEF CipherLen
  <1>3. ASSUME NEW i \in Nat, i <= 117, i < 8 * c PROVE bits[i] = record[i]
    <2>1. c \in Nat
      BY <1>2, <1>3
    <2>2. i \in 0 .. 8 * PaddedLen(c) - 1
      BY <1>3, <2>1, PaddingAdds
    <2> QED
      BY <1>3, <2>2 DEF Decrypted
  <1>4. ASSUME NEW i \in Nat, i <= 117
        PROVE  record[i] = IF i \in 16 .. 31 THEN Bit(f.voltage, i)
                           ELSE IF i \in 66 .. 87 THEN Bit(f.current, i)
                           ELSE IF i \in 108 .. 117 THEN Bit(f.soc, i)
                           ELSE frame.fill
    <2>1. i \in 0 .. 8 * MaxDecryptedLen - 1
      BY <1>4 DEF MaxDecryptedLen
    <2>2. /\ Holds(f.voltage, i) <=> i \in 16 .. 31
          /\ Holds(f.current, i) <=> i \in 66 .. 87
          /\ Holds(f.soc, i) <=> i \in 108 .. 117
      BY <1>1 DEF Holds
    <2> HIDE DEF f
    <2>3. record[i] = IF Holds(f.voltage, i) THEN Bit(f.voltage, i)
                      ELSE IF Holds(f.current, i) THEN Bit(f.current, i)
                      ELSE IF Holds(f.soc, i) THEN Bit(f.soc, i)
                      ELSE frame.fill
      BY <2>1 DEF Record, f
    <2> QED
      BY <2>2, <2>3
  <1> HIDE DEF f, bits, record, c
  <1>5. ASSUME FieldIsWhole(frame, f.voltage), NEW i \in 16 .. 31 PROVE bits[i] = Bit(f.voltage, i)
    <2>1. i < 8 * c
      BY <1>1, <1>2, <1>5 DEF FieldIsWhole, c
    <2> QED
      BY <1>3, <1>4, <2>1
  <1>6. ASSUME FieldIsWhole(frame, f.current), NEW i \in 66 .. 87 PROVE bits[i] = Bit(f.current, i)
    <2>1. i < 8 * c
      BY <1>1, <1>2, <1>6 DEF FieldIsWhole, c
    <2> QED
      BY <1>3, <1>4, <2>1
  <1>7. ASSUME FieldIsWhole(frame, f.soc), NEW i \in 108 .. 117 PROVE bits[i] = Bit(f.soc, i)
    <2>1. i < 8 * c
      BY <1>1, <1>2, <1>7 DEF FieldIsWhole, c
    <2> QED
      BY <1>3, <1>4, <2>1
  <1> QED
    BY <1>5, <1>6, <1>7 DEF f, bits

\* The code for no voltage is that of the largest.
LEMMA LargestIsItself ==
    ASSUME NEW n \in 1 .. 22
    PROVE  /\ 2^(n - 1) - 1 \in 0 .. 2^n - 1
           /\ SignExtend(2^(n - 1) - 1, n) = 2^(n - 1) - 1
  <1> DEFINE P == 2^(n - 1)
  <1>1. n - 1 \in 0 .. 21 /\ (n - 1) + 1 = n
    OBVIOUS
  <1>2. P \in Nat \ {0} /\ 2^n = 2 * P
    BY <1>1, PowerDoubles
  <1> HIDE DEF P
  <1>3. P - 1 = 0 * P + (P - 1) /\ P - 1 \in 0 .. P - 1
    BY <1>2
  <1>4. (P - 1) \div P = 0
    BY <1>2, <1>3, ModIs
  <1>5. SignExtend(P - 1, n) = P - 1
    BY <1>2, <1>4 DEF SignExtend, P
  <1> QED
    BY <1>2, <1>5 DEF P

\* The code for no current is that of -1.
LEMMA AllOnesIsMinusOne ==
    ASSUME NEW n \in 1 .. 22
    PROVE  2^n \in Nat \ {0} /\ SignExtend(2^n - 1, n) = -1
  <1> DEFINE P == 2^(n - 1)
  <1>1. n - 1 \in 0 .. 21 /\ (n - 1) + 1 = n
    OBVIOUS
  <1>2. P \in Nat \ {0} /\ 2^n = 2 * P
    BY <1>1, PowerDoubles
  <1> HIDE DEF P
  <1>3. 2 * P - 1 = 1 * P + (P - 1) /\ P - 1 \in 0 .. P - 1
    BY <1>2
  <1>4. (2 * P - 1) \div P = 1
    BY <1>2, <1>3, ModIs
  <1>5. SignExtend(2 * P - 1, n) = (2 * P - 1) - 2 * P
    BY <1>2, <1>4 DEF SignExtend, P
  <1> QED
    BY <1>2, <1>5

\* The divisions give volts, amperes and percent.
LEMMA QuotientsSay ==
    ASSUME NEW value \in Int, value # NotAvailable
    PROVE  /\ Says(Quotient(value, 100), "voltage", value)
           /\ Says(Quotient(value, 1000), "current", value)
           /\ Says(Quotient(value, 10), "soc", value)
  <1>1. \A d \in Int : Quotient(value, d) # NotAvailable
    BY NotAvailableAssumption DEF Quotient
  <1> QED
    BY <1>1 DEF Says, Quotient, Unit

\* The decoder undoes the layout.
LEMMA DecodesMeasured ==
    ASSUME NEW frame, Measurable(frame.reading), frame.len \in Nat, KeyIsRight
    PROVE  LET f == Field(frame.reading)
               t == Telemetry(Decrypted(frame))
           IN  /\ FieldIsWhole(frame, f.voltage) => Says(t.voltage, "voltage", frame.reading.voltage)
               /\ FieldIsWhole(frame, f.current) => Says(t.current, "current", frame.reading.current)
               /\ FieldIsWhole(frame, f.soc) => Says(t.soc, "soc", frame.reading.soc)
  <1> DEFINE f == Field(frame.reading)
             bits == Decrypted(frame)
             r == frame.reading
  <1>1. /\ f.voltage.at = 16 /\ f.voltage.width = 16 /\ f.voltage.value \in Int
        /\ f.current.at = 66 /\ f.current.width = 22 /\ f.current.value \in Int
        /\ f.soc.at = 108 /\ f.soc.width = 10 /\ f.soc.value \in Int
    BY FieldFacts
  <1>2. /\ f.voltage.value = IF r.voltage = NotAvailable THEN 2^15 - 1 ELSE r.voltage
        /\ f.current.value = IF r.current = NotAvailable THEN 2^22 - 1 ELSE r.current
        /\ f.soc.value = IF r.soc = NotAvailable THEN 2^10 - 1 ELSE r.soc
    BY DEF Field
  <1>3. Widths[2] = 16 /\ Widths[6] = 22 /\ Widths[8] = 10
    BY DEF Widths
  <1> HIDE DEF f, bits
  <1>4. /\ Raw(bits, 2) = ReadUnsignedInt(bits, 16, 16)
        /\ Raw(bits, 6) = ReadUnsignedInt(bits, 66, 22)
        /\ Raw(bits, 8) = ReadUnsignedInt(bits, 108, 10)
    BY <1>3, BitIndices DEF Raw
  <1>5. /\ f.voltage.at \in Nat /\ f.voltage.width \in 0 .. 22 /\ f.voltage.value \in Int
        /\ f.current.at \in Nat /\ f.current.width \in 0 .. 22 /\ f.current.value \in Int
        /\ f.soc.at \in Nat /\ f.soc.width \in 0 .. 22 /\ f.soc.value \in Int
    BY <1>1
  <1>6. ASSUME FieldIsWhole(frame, f.voltage)
        PROVE  Says(Telemetry(bits).voltage, "voltage", r.voltage)
    <2>1. \A i \in 16 .. 31 : bits[i] = Bit(f.voltage, i)
      BY <1>6, DecryptedFields DEF f, bits
    <2>2. Raw(bits, 2) = f.voltage.value % 2^16
      <3>1. \A i \in f.voltage.at .. f.voltage.at + f.voltage.width - 1 :
                bits[i] = Bit(f.voltage, i)
        BY <1>1, <2>1
      <3>2. ReadUnsignedInt(bits, f.voltage.at, f.voltage.width) =
                f.voltage.value % 2^f.voltage.width
        BY <1>5, <3>1, ReadsField
      <3> QED
        BY <1>1, <1>4, <3>2
    <2>3. Telemetry(bits).voltage =
              IF Raw(bits, 2) = 2^15 - 1 THEN NotAvailable ELSE Quotient(SignExtend(Raw(bits, 2), 16), 100)
      BY DEF Telemetry, Unless
    <2>4. /\ 2^15 \in Nat \ {0} /\ 2^16 \in Nat \ {0}
          /\ 2^15 - 1 \in 0 .. 2^16 - 1
          /\ SignExtend(2^15 - 1, 16) = 2^15 - 1
      BY Powers, LargestIsItself
    <2>5. CASE r.voltage = NotAvailable
      <3>1. (2^15 - 1) % 2^16 = 2^15 - 1
        BY <2>4, SmallMod
      <3> QED
        BY <1>2, <2>2, <2>3, <2>5, <3>1 DEF Says
    <2>6. CASE r.voltage # NotAvailable
      <3> DEFINE V == r.voltage
      <3>1. V \in -(2^15) .. 2^15 - 1 /\ V # 2^15 - 1 /\ f.voltage.value = V
        BY <1>2, <2>4, <2>6 DEF Measurable
      <3> HIDE DEF V
      <3>2. SignExtend(V % 2^16, 16) = V
        <4>1. 16 \in 1 .. 22 /\ 15 = 16 - 1
          OBVIOUS
        <4> QED
          BY <3>1, <4>1, SignsBack
      <3>3. Telemetry(bits).voltage = Quotient(V, 100)
        BY <2>2, <2>3, <2>4, <3>1, <3>2
      <3> QED
        BY <2>6, <3>1, <3>3, QuotientsSay DEF V
    <2> QED
      BY <2>5, <2>6
  <1>7. ASSUME FieldIsWhole(frame, f.current)
        PROVE  Says(Telemetry(bits).current, "current", r.current)
    <2>1. \A i \in 66 .. 87 : bits[i] = Bit(f.current, i)
      BY <1>7, DecryptedFields DEF f, bits
    <2>2. Raw(bits, 6) = f.current.value % 2^22
      <3>1. \A i \in f.current.at .. f.current.at + f.current.width - 1 :
                bits[i] = Bit(f.current, i)
        BY <1>1, <2>1
      <3>2. ReadUnsignedInt(bits, f.current.at, f.current.width) =
                f.current.value % 2^f.current.width
        BY <1>5, <3>1, ReadsField
      <3> QED
        BY <1>1, <1>4, <3>2
    <2>3. Telemetry(bits).current =
              IF Raw(bits, 6) = 2^22 - 1 THEN NotAvailable ELSE Quotient(SignExtend(Raw(bits, 6), 22), 1000)
      BY DEF Telemetry, Unless
    <2>4. 2^22 \in Nat \ {0} /\ 2^22 - 1 \in 0 .. 2^22 - 1 /\ SignExtend(2^22 - 1, 22) = -1
      BY Powers, AllOnesIsMinusOne
    <2>5. CASE r.current = NotAvailable
      <3>1. (2^22 - 1) % 2^22 = 2^22 - 1
        BY <2>4, SmallMod
      <3> QED
        BY <1>2, <2>2, <2>3, <2>5, <3>1 DEF Says
    <2>6. CASE r.current # NotAvailable
      <3> DEFINE V == r.current
      <3>1. V \in -(2^21) .. 2^21 - 1 /\ V # -1 /\ f.current.value = V
        BY <1>2, <2>6 DEF Measurable
      <3> HIDE DEF V
      <3>2. SignExtend(V % 2^22, 22) = V
        <4>1. 22 \in 1 .. 22 /\ 21 = 22 - 1
          OBVIOUS
        <4> QED
          BY <3>1, <4>1, SignsBack
      <3>3. Telemetry(bits).current = Quotient(V, 1000)
        BY <2>2, <2>3, <2>4, <3>1, <3>2
      <3> QED
        BY <2>6, <3>1, <3>3, QuotientsSay DEF V
    <2> QED
      BY <2>5, <2>6
  <1>8. ASSUME FieldIsWhole(frame, f.soc)
        PROVE  Says(Telemetry(bits).soc, "soc", r.soc)
    <2>1. \A i \in 108 .. 117 : bits[i] = Bit(f.soc, i)
      BY <1>8, DecryptedFields DEF f, bits
    <2>2. Raw(bits, 8) = f.soc.value % 2^10
      <3>1. \A i \in f.soc.at .. f.soc.at + f.soc.width - 1 : bits[i] = Bit(f.soc, i)
        BY <1>1, <2>1
      <3>2. ReadUnsignedInt(bits, f.soc.at, f.soc.width) = f.soc.value % 2^f.soc.width
        BY <1>5, <3>1, ReadsField
      <3> QED
        BY <1>1, <1>4, <3>2
    <2>3. Telemetry(bits).soc =
              IF Raw(bits, 8) = 2^10 - 1 THEN NotAvailable ELSE Quotient(Raw(bits, 8), 10)
      BY DEF Telemetry, Unless
    <2>4. 2^10 \in Nat \ {0}
      BY Powers
    <2>5. f.soc.value \in 0 .. 2^10 - 1
      BY <1>2, <2>4 DEF Measurable
    <2>6. Raw(bits, 8) = f.soc.value
      BY <2>2, <2>4, <2>5, SmallMod
    <2>7. r.soc # NotAvailable => r.soc # 2^10 - 1
      BY <2>4 DEF Measurable
    <2>8. CASE r.soc = NotAvailable
      BY <1>2, <2>3, <2>6, <2>8 DEF Says
    <2>9. CASE r.soc # NotAvailable
      <3>1. Telemetry(bits).soc = Quotient(r.soc, 10) /\ r.soc \in Int
        BY <1>2, <2>3, <2>5, <2>6, <2>7, <2>9
      <3> QED
        BY <2>9, <3>1, QuotientsSay
    <2> QED
      BY <2>8, <2>9
  <1> QED
    BY <1>6, <1>7, <1>8 DEF f, bits

--------------------------------------------------------------------------------------
(* The digits of a text.                                                      *)

\* The digits of the text up to its k-th character.
DigitsUpTo(text) ==
    CHOOSE upTo : upTo = [n \in 0 .. Len(text) |->
            IF n = 0 THEN <<>>
            ELSE IF text[n] \in Digit THEN Append(upTo[n - 1], text[n]) ELSE upTo[n - 1]]

\* It has its values, and DigitsOf is the last of them.
LEMMA DigitsRun ==
    ASSUME NEW text \in Seq(Char)
    PROVE  /\ DigitsUpTo(text) \in [0 .. Len(text) -> Seq(Digit)]
           /\ DigitsUpTo(text)[0] = <<>>
           /\ \A n \in 1 .. Len(text) :
                DigitsUpTo(text)[n] = IF text[n] \in Digit
                                        THEN Append(DigitsUpTo(text)[n - 1], text[n])
                                        ELSE DigitsUpTo(text)[n - 1]
           /\ DigitsOf(text) = DigitsUpTo(text)[Len(text)]
  <1> DEFINE N == Len(text)
             F == [x \in (1 .. N) \X Seq(Digit) |->
                        IF text[x[1]] \in Digit THEN Append(x[2], text[x[1]]) ELSE x[2]]
             Eq(g) == g = [n \in 0 .. N |->
                        IF n = 0 THEN <<>>
                        ELSE IF text[n] \in Digit THEN Append(g[n - 1], text[n]) ELSE g[n - 1]]
             U == DigitsUpTo(text)
  <1>0. N \in Nat
    OBVIOUS
  <1>1. F \in [(1 .. N) \X Seq(Digit) -> Seq(Digit)]
    OBVIOUS
  <1>2. <<>> \in Seq(Digit)
    OBVIOUS
  <1>3. PICK g \in [0 .. N -> Seq(Digit)] : Loop(N, <<>>, F, g)
    <2> HIDE DEF F, N
    <2> QED
      BY <1>0, <1>1, <1>2, LoopRuns
  <1>4. Eq(g)
    <2>1. \A n \in 0 .. N : n # 0 => n \in 1 .. N /\ n - 1 \in 0 .. N
      BY <1>0
    <2>2. \A n \in 0 .. N : n # 0 => <<n, g[n - 1]>> \in (1 .. N) \X Seq(Digit)
      BY <2>1
    <2>3. \A n \in 0 .. N : n # 0 =>
            F[<<n, g[n - 1]>>] = IF text[n] \in Digit THEN Append(g[n - 1], text[n]) ELSE g[n - 1]
      BY <2>2
    <2> HIDE DEF F
    <2> QED
      BY <1>3, <2>3 DEF Loop
  <1> HIDE DEF F
  <1>5. Eq(U)
    BY <1>4 DEF DigitsUpTo
  <1>6. DigitsOf(text) = U[N]
    BY DEF DigitsOf, DigitsUpTo
  <1> HIDE DEF U
  <1>7. U[0] = <<>> /\ \A n \in 1 .. N :
                U[n] = IF text[n] \in Digit THEN Append(U[n - 1], text[n]) ELSE U[n - 1]
    <2>1. 0 \in 0 .. N /\ \A n \in 1 .. N : n \in 0 .. N /\ n # 0
      BY <1>0
    <2> HIDE DEF N
    <2> QED
      BY <1>5, <2>1
  <1> DEFINE T == {n \in 0 .. N : U[n] \in Seq(Digit)}
  <1>8. 0 \in T
    <2>1. 0 \in 0 .. N /\ U[0] \in Seq(Digit)
      BY <1>0, <1>2, <1>7
    <2> HIDE DEF N
    <2> QED
      BY <2>1
  <1>9. ASSUME NEW n \in 0 .. N - 1, n \in T PROVE n + 1 \in T
    <2>1. n + 1 \in 1 .. N /\ (n + 1) - 1 = n
      BY <1>0
    <2>2. U[n + 1] = IF text[n + 1] \in Digit THEN Append(U[n], text[n + 1]) ELSE U[n]
      BY <1>7, <2>1
    <2>3. U[n + 1] \in Seq(Digit)
      BY <1>9, <2>2
    <2> QED
      BY <2>1, <2>3
  <1>10. \A n \in 0 .. N : n \in T
    <2> HIDE DEF T, N
    <2> QED
      BY <1>0, <1>8, <1>9, Induction
  <1>11. U \in [0 .. N -> Seq(Digit)]
    <2>1. U = [n \in 0 .. N |-> U[n]]
      BY <1>5
    <2> QED
      BY <1>10, <2>1
  <1> QED
    BY <1>6, <1>7, <1>11 DEF U

--------------------------------------------------------------------------------------
(* parseBleAddrString()                                                       *)

\* What GatherDigit keeps from one character to the next.
GatherState == [digits : Seq(Digit), ok : BOOLEAN]

\* What a character changes.
LEMMA GatherFacts ==
    ASSUME NEW s \in GatherState, NEW ch \in Char
    PROVE  /\ GatherDigit(s, ch) \in GatherState
           /\ s.ok /\ ch \in Digit /\ Len(s.digits) < 2 * AddrLen =>
                GatherDigit(s, ch).ok = s.ok /\ GatherDigit(s, ch).digits = Append(s.digits, ch)
           /\ ~(s.ok /\ ch \in Digit /\ Len(s.digits) < 2 * AddrLen) =>
                /\ GatherDigit(s, ch).ok = (s.ok /\ ch = Separator)
                /\ GatherDigit(s, ch).digits = s.digits
  <1>1. CASE s.ok /\ ch \in Digit /\ Len(s.digits) < 2 * AddrLen
    <2>1. GatherDigit(s, ch) = [s EXCEPT !.digits = Append(s.digits, ch)]
      BY <1>1 DEF GatherDigit
    <2>2. Append(s.digits, ch) \in Seq(Digit)
      BY <1>1 DEF GatherState
    <2> QED
      BY <1>1, <2>1, <2>2 DEF GatherState
  <1>2. CASE ~(s.ok /\ ch \in Digit /\ Len(s.digits) < 2 * AddrLen)
    <2>1. GatherDigit(s, ch) = [s EXCEPT !.ok = s.ok /\ ch = Separator]
      BY <1>2 DEF GatherDigit
    <2> QED
      BY <1>2, <2>1 DEF GatherState
  <1> QED
    BY <1>1, <1>2

\* The digits gathered are those of the text so far, and there are no more than
\* an address has, as long as the parser goes on.
GatheredAll(s, clean, digits) ==
    /\ s.ok <=> clean /\ Len(digits) <= 2 * AddrLen
    /\ s.ok => s.digits = digits

\* Each character keeps it so.
LEMMA GatherAgrees ==
    ASSUME NEW s \in GatherState, NEW ch \in Char, NEW clean \in BOOLEAN, NEW digits \in Seq(Digit),
           GatheredAll(s, clean, digits)
    PROVE  GatheredAll(GatherDigit(s, ch), clean /\ ch # Other,
                       IF ch \in Digit THEN Append(digits, ch) ELSE digits)
  <1>1. Len(digits) \in Nat /\ AddrLen \in Nat
    BY LengthsAssumption
  <1>2. ch \in Digit => ch # Other /\ ch # Separator
    BY DEF Digit, Other, Separator
  <1>3. ch \in Digit \/ ch = Separator \/ ch = Other
    BY DEF Char
  <1>4. Separator # Other
    BY DEF Separator, Other
  <1>5. ch \in Digit => Len(Append(digits, ch)) = Len(digits) + 1
    OBVIOUS
  <1>6. s.ok \in BOOLEAN
    BY DEF GatherState
  <1>7. CASE ch \in Digit
    <2>1. s.ok /\ Len(digits) < 2 * AddrLen =>
            GatherDigit(s, ch).ok /\ GatherDigit(s, ch).digits = Append(digits, ch)
      BY <1>7, GatherFacts DEF GatheredAll
    <2>2. ~(s.ok /\ Len(digits) < 2 * AddrLen) => ~GatherDigit(s, ch).ok
      BY <1>2, <1>7, GatherFacts DEF GatheredAll
    <2>3. Len(digits) + 1 <= 2 * AddrLen <=> Len(digits) < 2 * AddrLen
      BY <1>1
    <2>4. Len(digits) < 2 * AddrLen => Len(digits) <= 2 * AddrLen
      BY <1>1
    <2> QED
      BY <1>2, <1>5, <1>7, <2>1, <2>2, <2>3, <2>4 DEF GatheredAll
  <1>8. CASE ch \notin Digit
    <2>1. GatherDigit(s, ch).ok = (s.ok /\ ch = Separator) /\ GatherDigit(s, ch).digits = s.digits
      BY <1>8, GatherFacts
    <2>2. ch = Separator <=> ch # Other
      BY <1>3, <1>4, <1>8
    <2> QED
      BY <1>8, <2>1, <2>2 DEF GatheredAll
  <1> QED
    BY <1>7, <1>8

\* No character up to the k-th is of the kind that makes a text wrong.
Clean(text, k) == \A i \in 1 .. k : text[i] # Other

\* One character more.
LEMMA CleanStep ==
    ASSUME NEW text, NEW k \in Nat
    PROVE  Clean(text, k + 1) <=> Clean(text, k) /\ text[k + 1] # Other
  BY DEF Clean

\* parseBleAddrString() after each character.
AddrUpTo(text) ==
    CHOOSE after : after = [n \in 0 .. Len(text) |->
            IF n = 0 THEN [digits |-> <<>>, ok |-> TRUE] ELSE GatherDigit(after[n - 1], text[n])]

\* Its loop has an end, and what it has gathered then.
LEMMA AddrRuns ==
    ASSUME NEW text \in Seq(Char)
    PROVE  LET s == AddrUpTo(text)[Len(text)]
           IN  s \in GatherState /\ GatheredAll(s, Clean(text, Len(text)), DigitsOf(text))
  <1> DEFINE N == Len(text)
             base == [digits |-> <<>>, ok |-> TRUE]
             F == [x \in (1 .. N) \X GatherState |-> GatherDigit(x[2], text[x[1]])]
             Eq(g) == g = [n \in 0 .. N |-> IF n = 0 THEN base ELSE GatherDigit(g[n - 1], text[n])]
             U == AddrUpTo(text)
             D == DigitsUpTo(text)
  <1>1. N \in Nat /\ \A n \in 1 .. N : text[n] \in Char
    OBVIOUS
  <1>2. base \in GatherState
    BY DEF GatherState
  <1>3. F \in [(1 .. N) \X GatherState -> GatherState]
    BY <1>1, GatherFacts
  <1>4. PICK g \in [0 .. N -> GatherState] : Loop(N, base, F, g)
    <2> HIDE DEF F, N, base
    <2> QED
      BY <1>1, <1>2, <1>3, LoopRuns
  <1>5. Eq(g)
    <2>1. \A n \in 0 .. N : n # 0 => n \in 1 .. N /\ n - 1 \in 0 .. N
      BY <1>1
    <2>2. \A n \in 0 .. N : n # 0 => <<n, g[n - 1]>> \in (1 .. N) \X GatherState
      BY <2>1
    <2>3. \A n \in 0 .. N : n # 0 => F[<<n, g[n - 1]>>] = GatherDigit(g[n - 1], text[n])
      BY <2>2
    <2> HIDE DEF F, base
    <2> QED
      BY <1>4, <2>3 DEF Loop
  <1> HIDE DEF F
  <1>6. Eq(U)
    BY <1>5 DEF AddrUpTo
  <1> HIDE DEF U
  <1>7. /\ U[0] = base
        /\ \A n \in 1 .. N : U[n] = GatherDigit(U[n - 1], text[n])
    <2>1. 0 \in 0 .. N /\ \A n \in 1 .. N : n \in 0 .. N /\ n # 0
      BY <1>1
    <2> HIDE DEF N, base
    <2> QED
      BY <1>6, <2>1
  <1>8. /\ D \in [0 .. N -> Seq(Digit)] /\ D[0] = <<>> /\ DigitsOf(text) = D[N]
        /\ \A n \in 1 .. N :
             D[n] = IF text[n] \in Digit THEN Append(D[n - 1], text[n]) ELSE D[n - 1]
    BY DigitsRun
  <1> HIDE DEF D
  <1> DEFINE T == {n \in 0 .. N : U[n] \in GatherState /\ GatheredAll(U[n], Clean(text, n), D[n])}
  <1>9. 0 \in T
    <2>1. 0 \in 0 .. N /\ U[0] \in GatherState
      BY <1>1, <1>2, <1>7
    <2>2. Clean(text, 0) /\ Len(<<>>) <= 2 * AddrLen
      BY LengthsAssumption DEF Clean
    <2>3. U[0].ok /\ U[0].digits = <<>>
      BY <1>7
    <2> HIDE DEF N
    <2> QED
      BY <1>8, <2>1, <2>2, <2>3 DEF GatheredAll
  <1>10. ASSUME NEW n \in 0 .. N - 1, n \in T PROVE n + 1 \in T
    <2>1. n + 1 \in 1 .. N /\ (n + 1) - 1 = n /\ n \in Nat /\ n + 1 \in 0 .. N
      BY <1>1
    <2>2. U[n + 1] = GatherDigit(U[n], text[n + 1])
      BY <1>7, <2>1
    <2>3. D[n + 1] = IF text[n + 1] \in Digit THEN Append(D[n], text[n + 1]) ELSE D[n]
      BY <1>8, <2>1
    <2>4. text[n + 1] \in Char /\ D[n] \in Seq(Digit) /\ Clean(text, n) \in BOOLEAN
      BY <1>1, <1>8, <2>1 DEF Clean
    <2>5. U[n] \in GatherState /\ GatheredAll(U[n], Clean(text, n), D[n])
      BY <1>10
    <2>6. U[n + 1] \in GatherState
      BY <2>2, <2>4, <2>5, GatherFacts
    <2>7. GatheredAll(U[n + 1], Clean(text, n) /\ text[n + 1] # Other, D[n + 1])
      BY <2>2, <2>3, <2>4, <2>5, GatherAgrees
    <2>8. GatheredAll(U[n + 1], Clean(text, n + 1), D[n + 1])
      BY <2>1, <2>7, CleanStep DEF GatheredAll
    <2> QED
      BY <2>1, <2>6, <2>8
  <1>11. N \in T
    <2>1. N \in 0 .. N
      BY <1>1
    <2> HIDE DEF T, N
    <2> QED
      BY <1>1, <1>9, <1>10, <2>1, Induction
  <1> QED
    BY <1>8, <1>11 DEF U

\* An address is taken if and only if the text spells one, and it is that one.
LEMMA AddrIsSpelled ==
    ASSUME NEW text \in Seq(Char)
    PROVE  /\ ParsedAddr(text).ok \in BOOLEAN
           /\ ~ParsedAddr(text).ok => Spelled(text, AddrLen) = <<>>
           /\ ParsedAddr(text).ok =>
                Spelled(text, AddrLen) = [i \in 1 .. AddrLen |-> ParsedAddr(text).value[AddrLen - i]]
  <1> DEFINE s == AddrUpTo(text)[Len(text)]
             digits == DigitsOf(text)
             whole == s.ok /\ Len(s.digits) = 2 * AddrLen
             byte(i) == 16 * s.digits[2 * i + 1] + s.digits[2 * i + 2]
  <1>1. ParsedAddr(text) =
            [ok    |-> whole,
             value |-> IF whole THEN [i \in 0 .. AddrLen - 1 |-> byte(Reversed(i))]
                                ELSE Zeros(AddrLen)]
    BY DEF ParsedAddr, AddrUpTo
  <1>2. s \in GatherState /\ GatheredAll(s, Clean(text, Len(text)), digits)
    BY AddrRuns
  <1>3. digits \in Seq(Digit) /\ Len(digits) \in Nat /\ AddrLen \in Nat
    <2>1. digits \in Seq(Digit)
      BY DigitsRun
    <2> QED
      BY <2>1, LengthsAssumption
  <1>4. Clean(text, Len(text)) <=> ~\E i \in 1 .. Len(text) : text[i] = Other
    BY DEF Clean
  <1> HIDE DEF s, digits
  <1>5. whole <=> Clean(text, Len(text)) /\ Len(digits) = 2 * AddrLen
    BY <1>2, <1>3 DEF GatheredAll
  <1>6. Spelled(text, AddrLen) =
            IF ~Clean(text, Len(text)) \/ Len(digits) # 2 * AddrLen
              THEN <<>> ELSE [i \in 1 .. AddrLen |-> 16 * digits[2 * i - 1] + digits[2 * i]]
    BY <1>4 DEF Spelled, digits
  <1>7. whole => s.digits = digits
    BY <1>2 DEF GatheredAll
  <1>8. ASSUME whole, NEW i \in 1 .. AddrLen
        PROVE  ParsedAddr(text).value[AddrLen - i] = 16 * digits[2 * i - 1] + digits[2 * i]
    <2>1. AddrLen - i \in 0 .. AddrLen - 1 /\ Reversed(AddrLen - i) = i - 1
      BY <1>3 DEF Reversed
    <2>2. 2 * (i - 1) + 1 = 2 * i - 1 /\ 2 * (i - 1) + 2 = 2 * i
      BY <1>3
    <2>3. ParsedAddr(text).value = [k \in 0 .. AddrLen - 1 |-> byte(Reversed(k))]
      BY <1>1, <1>8
    <2>4. ParsedAddr(text).value[AddrLen - i] = byte(i - 1)
      BY <2>1, <2>3
    <2> QED
      BY <1>7, <1>8, <2>2, <2>4
  <1>9. ParsedAddr(text).ok = whole /\ whole \in BOOLEAN
    BY <1>1, <1>2 DEF GatherState
  <1> HIDE DEF whole
  <1> QED
    BY <1>5, <1>6, <1>8, <1>9

--------------------------------------------------------------------------------------
(* parseHexKeyString()                                                        *)

\* What WriteDigit keeps from one character to the next.
WriteState == [out : [0 .. KeyLen - 1 -> Nat], count : Nat, ok : BOOLEAN]

\* What a character changes.
LEMMA WriteFacts ==
    ASSUME NEW s \in WriteState, NEW ch \in Char
    PROVE  /\ WriteDigit(s, ch) \in WriteState
           /\ s.ok /\ ch \in Digit /\ s.count \div 2 < KeyLen =>
                /\ WriteDigit(s, ch).ok = s.ok /\ WriteDigit(s, ch).count = s.count + 1
                /\ s.count \div 2 \in 0 .. KeyLen - 1
                /\ WriteDigit(s, ch).out =
                     [s.out EXCEPT ![s.count \div 2] = IF s.count % 2 = 0 THEN 16 * ch ELSE @ + ch]
           /\ ~(s.ok /\ ch \in Digit /\ s.count \div 2 < KeyLen) =>
                /\ WriteDigit(s, ch).ok = (s.ok /\ ch = Separator)
                /\ WriteDigit(s, ch).count = s.count /\ WriteDigit(s, ch).out = s.out
  <1>1. CASE s.ok /\ ch \in Digit /\ s.count \div 2 < KeyLen
    <2> DEFINE at == s.count \div 2
               byte == IF s.count % 2 = 0 THEN 16 * ch ELSE s.out[at] + ch
    <2>1. s.count \in Nat /\ s.out \in [0 .. KeyLen - 1 -> Nat] /\ s.ok \in BOOLEAN
      BY DEF WriteState
    <2>2. at \in 0 .. KeyLen - 1
      BY <1>1, <2>1, LengthsAssumption
    <2>3. ch \in Nat
      BY <1>1 DEF Digit
    <2> HIDE DEF at
    <2>4. byte \in Nat
      <3>1. s.out[at] \in Nat
        BY <2>1, <2>2
      <3>2. 16 * ch \in Nat /\ s.out[at] + ch \in Nat
        BY <2>3, <3>1
      <3> QED
        BY <3>2
    <2> HIDE DEF byte
    <2>5. WriteDigit(s, ch) = [s EXCEPT !.count = s.count + 1, !.out = [s.out EXCEPT ![at] = byte]]
      BY <1>1, <2>1, <2>2 DEF WriteDigit, WriteState, at, byte
    <2>6. [s.out EXCEPT ![at] = byte] \in [0 .. KeyLen - 1 -> Nat]
      BY <2>1, <2>2, <2>4
    <2>7. /\ WriteDigit(s, ch).count = s.count + 1
          /\ WriteDigit(s, ch).out = [s.out EXCEPT ![at] = byte]
          /\ WriteDigit(s, ch).ok = s.ok
          /\ WriteDigit(s, ch) \in WriteState
      <3> DEFINE out == [s.out EXCEPT ![at] = byte]
      <3>1. /\ WriteDigit(s, ch) = [s EXCEPT !.count = s.count + 1, !.out = out]
            /\ out \in [0 .. KeyLen - 1 -> Nat]
        BY <2>5, <2>6
      <3>2. s.count + 1 \in Nat
        BY <2>1
      <3> HIDE DEF out
      <3>3. WriteDigit(s, ch) = [out |-> out, count |-> s.count + 1, ok |-> s.ok]
        BY <3>1 DEF WriteState
      <3> QED
        BY <2>1, <3>1, <3>2, <3>3 DEF WriteState, out
    <2>8. [s.out EXCEPT ![at] = byte] =
            [s.out EXCEPT ![at] = IF s.count % 2 = 0 THEN 16 * ch ELSE @ + ch]
      BY DEF byte
    <2> QED
      BY <1>1, <2>2, <2>7, <2>8 DEF at
  <1>2. CASE ~(s.ok /\ ch \in Digit /\ s.count \div 2 < KeyLen)
    <2>1. WriteDigit(s, ch) = [s EXCEPT !.ok = s.ok /\ ch = Separator]
      BY <1>2 DEF WriteDigit
    <2> QED
      BY <1>2, <2>1 DEF WriteState
  <1> QED
    BY <1>1, <1>2

\* What stands at a place of the key after so many digits.
Written(digits, j) ==
    IF 2 * j + 2 <= Len(digits) THEN 16 * digits[2 * j + 1] + digits[2 * j + 2]
    ELSE IF 2 * j + 1 = Len(digits) THEN 16 * digits[2 * j + 1]
    ELSE 0

\* The key holds the digits of the text so far, half a byte included, as long as
\* the parser goes on.
WrittenAll(s, clean, digits) ==
    /\ s.ok <=> clean /\ Len(digits) <= 2 * KeyLen
    /\ s.ok => s.count = Len(digits) /\ \A j \in 0 .. KeyLen - 1 : s.out[j] = Written(digits, j)

\* One digit more, in the half of a byte that is next.
LEMMA WrittenStep ==
    ASSUME NEW digits \in Seq(Digit), NEW ch \in Digit, NEW j \in Nat
    PROVE  Written(Append(digits, ch), j) =
             IF j # Len(digits) \div 2 THEN Written(digits, j)
             ELSE IF Len(digits) % 2 = 0 THEN 16 * ch ELSE Written(digits, j) + ch
  <1> DEFINE n == Len(digits)
             after == Append(digits, ch)
  <1>1. n \in Nat /\ Len(after) = n + 1 /\ after[n + 1] = ch
    OBVIOUS
  <1>2. \A i \in 1 .. n : after[i] = digits[i] /\ digits[i] \in Nat
    BY DEF Digit
  <1>3. ch \in Nat
    BY DEF Digit
  <1> DEFINE h == n \div 2
  <1>4. h \in Nat /\ (n = 2 * h \/ n = 2 * h + 1) /\ (n % 2 = 0 <=> n = 2 * h)
    BY <1>1
  <1> HIDE DEF n, after, h
  <1>5. Written(after, j) =
            IF 2 * j + 2 <= n + 1 THEN 16 * after[2 * j + 1] + after[2 * j + 2]
            ELSE IF 2 * j + 1 = n + 1 THEN 16 * after[2 * j + 1] ELSE 0
    BY <1>1 DEF Written
  <1>6. Written(digits, j) =
            IF 2 * j + 2 <= n THEN 16 * digits[2 * j + 1] + digits[2 * j + 2]
            ELSE IF 2 * j + 1 = n THEN 16 * digits[2 * j + 1] ELSE 0
    BY DEF Written, n
  <1>7. CASE j < h
    <2>1. 2 * j + 1 \in 1 .. n /\ 2 * j + 2 \in 1 .. n
      BY <1>1, <1>4, <1>7
    <2>2. after[2 * j + 1] = digits[2 * j + 1] /\ after[2 * j + 2] = digits[2 * j + 2]
      BY <1>2, <2>1
    <2>3. 2 * j + 2 <= n /\ 2 * j + 2 <= n + 1 /\ j # h
      BY <1>1, <1>4, <1>7
    <2> QED
      BY <1>5, <1>6, <2>2, <2>3 DEF after, n, h
  <1>8. CASE j > h
    <2>1. ~(2 * j + 2 <= n) /\ ~(2 * j + 2 <= n + 1) /\ 2 * j + 1 # n /\ 2 * j + 1 # n + 1 /\ j # h
      BY <1>1, <1>4, <1>8
    <2> QED
      BY <1>5, <1>6, <2>1 DEF after, n, h
  <1>9. CASE j = h /\ n = 2 * h
    <2>1. ~(2 * j + 2 <= n + 1) /\ 2 * j + 1 = n + 1 /\ n % 2 = 0
      BY <1>1, <1>4, <1>9
    <2>2. Written(after, j) = 16 * ch
      BY <1>1, <1>5, <2>1
    <2> QED
      BY <1>9, <2>1, <2>2 DEF after, n, h
  <1>10. CASE j = h /\ n = 2 * h + 1
    <2>1. 2 * j + 2 = n + 1 /\ 2 * j + 1 = n /\ ~(2 * j + 2 <= n) /\ n % 2 # 0 /\ n \in 1 .. n
      BY <1>1, <1>4, <1>10
    <2>2. Written(after, j) = 16 * digits[n] + ch
      BY <1>1, <1>2, <1>5, <2>1
    <2>3. Written(digits, j) = 16 * digits[n]
      BY <1>6, <2>1
    <2> QED
      BY <1>10, <2>1, <2>2, <2>3 DEF after, n, h
  <1> QED
    BY <1>4, <1>7, <1>8, <1>9, <1>10

\* Each character keeps it so.
LEMMA WriteAgrees ==
    ASSUME NEW s \in WriteState, NEW ch \in Char, NEW clean \in BOOLEAN, NEW digits \in Seq(Digit),
           WrittenAll(s, clean, digits)
    PROVE  WrittenAll(WriteDigit(s, ch), clean /\ ch # Other,
                      IF ch \in Digit THEN Append(digits, ch) ELSE digits)
  <1>1. Len(digits) \in Nat /\ KeyLen \in Nat
    BY LengthsAssumption
  <1>2. ch \in Digit => ch # Other /\ ch # Separator
    BY DEF Digit, Other, Separator
  <1>3. ch \in Digit \/ ch = Separator \/ ch = Other
    BY DEF Char
  <1>4. Separator # Other
    BY DEF Separator, Other
  <1>5. s.ok => s.count = Len(digits)
    BY DEF WrittenAll
  <1>6. Len(digits) \div 2 < KeyLen <=> Len(digits) < 2 * KeyLen
    BY <1>1
  <1>7. CASE ch \in Digit
    <2> DEFINE after == Append(digits, ch)
    <2>1. after \in Seq(Digit) /\ Len(after) = Len(digits) + 1
      BY <1>7
    <2>2. Len(after) <= 2 * KeyLen <=> Len(digits) < 2 * KeyLen
      BY <1>1, <2>1
    <2>3. Len(digits) < 2 * KeyLen => Len(digits) <= 2 * KeyLen
      BY <1>1
    <2> HIDE DEF after
    <2>4. CASE s.ok /\ Len(digits) < 2 * KeyLen
      <3> DEFINE at == Len(digits) \div 2
      <3>1. /\ WriteDigit(s, ch).ok = s.ok /\ WriteDigit(s, ch).count = s.count + 1
            /\ at \in 0 .. KeyLen - 1
            /\ WriteDigit(s, ch).out =
                 [s.out EXCEPT ![at] = IF Len(digits) % 2 = 0 THEN 16 * ch ELSE @ + ch]
        <4>1. s.count = Len(digits) /\ s.count \div 2 < KeyLen
          BY <1>5, <1>6, <2>4
        <4>2. /\ WriteDigit(s, ch).ok = s.ok /\ WriteDigit(s, ch).count = s.count + 1
              /\ s.count \div 2 \in 0 .. KeyLen - 1
              /\ WriteDigit(s, ch).out =
                   [s.out EXCEPT ![s.count \div 2] = IF s.count % 2 = 0 THEN 16 * ch ELSE @ + ch]
          BY <1>7, <2>4, <4>1, WriteFacts
        <4> QED
          BY <4>1, <4>2
      <3>2. s.out \in [0 .. KeyLen - 1 -> Nat]
        BY DEF WriteState
      <3> HIDE DEF at
      <3>3. ASSUME NEW j \in 0 .. KeyLen - 1
            PROVE  WriteDigit(s, ch).out[j] = Written(after, j)
        <4>1. s.out[j] = Written(digits, j) /\ j \in Nat
          BY <2>4 DEF WrittenAll
        <4>2. Written(after, j) = IF j # at THEN Written(digits, j)
                                  ELSE IF Len(digits) % 2 = 0 THEN 16 * ch
                                  ELSE Written(digits, j) + ch
          BY <1>7, <4>1, WrittenStep DEF after, at
        <4>3. WriteDigit(s, ch).out[j] = IF j # at THEN s.out[j]
                                  ELSE IF Len(digits) % 2 = 0 THEN 16 * ch ELSE s.out[j] + ch
          BY <3>1, <3>2
        <4> QED
          BY <4>1, <4>2, <4>3
      <3>4. WriteDigit(s, ch).count = Len(after)
        BY <1>5, <2>1, <2>4, <3>1
      <3>5. WrittenAll(WriteDigit(s, ch), clean /\ ch # Other, after)
        BY <1>2, <1>7, <2>2, <2>4, <3>1, <3>3, <3>4 DEF WrittenAll
      <3> QED
        BY <1>7, <3>5 DEF after
    <2>5. CASE ~(s.ok /\ Len(digits) < 2 * KeyLen)
      <3>1. ~WriteDigit(s, ch).ok
        BY <1>2, <1>5, <1>6, <1>7, <2>5, WriteFacts
      <3>2. ~(clean /\ Len(after) <= 2 * KeyLen)
        BY <2>2, <2>3, <2>5 DEF WrittenAll
      <3> QED
        BY <1>7, <3>1, <3>2 DEF WrittenAll, after
    <2> QED
      BY <2>4, <2>5
  <1>8. CASE ch \notin Digit
    <2>1. /\ WriteDigit(s, ch).ok = (s.ok /\ ch = Separator)
          /\ WriteDigit(s, ch).count = s.count /\ WriteDigit(s, ch).out = s.out
      BY <1>8, WriteFacts
    <2>2. ch = Separator <=> ch # Other
      BY <1>3, <1>4, <1>8
    <2> QED
      BY <1>8, <2>1, <2>2 DEF WrittenAll
  <1> QED
    BY <1>7, <1>8

\* parseHexKeyString() after each character.
KeyUpTo(text) ==
    CHOOSE after : after = [n \in 0 .. Len(text) |->
            IF n = 0 THEN [out |-> Zeros(KeyLen), count |-> 0, ok |-> TRUE]
                     ELSE WriteDigit(after[n - 1], text[n])]

\* Its loop has an end, and what it has written then.
LEMMA KeyRuns ==
    ASSUME NEW text \in Seq(Char)
    PROVE  LET s == KeyUpTo(text)[Len(text)]
           IN  s \in WriteState /\ WrittenAll(s, Clean(text, Len(text)), DigitsOf(text))
  <1> DEFINE N == Len(text)
             base == [out |-> Zeros(KeyLen), count |-> 0, ok |-> TRUE]
             F == [x \in (1 .. N) \X WriteState |-> WriteDigit(x[2], text[x[1]])]
             Eq(g) == g = [n \in 0 .. N |-> IF n = 0 THEN base ELSE WriteDigit(g[n - 1], text[n])]
             U == KeyUpTo(text)
             D == DigitsUpTo(text)
  <1>1. N \in Nat /\ \A n \in 1 .. N : text[n] \in Char
    OBVIOUS
  <1>2. base \in WriteState
    BY DEF WriteState, Zeros
  <1>3. F \in [(1 .. N) \X WriteState -> WriteState]
    BY <1>1, WriteFacts
  <1>4. PICK g \in [0 .. N -> WriteState] : Loop(N, base, F, g)
    <2> HIDE DEF F, N, base
    <2> QED
      BY <1>1, <1>2, <1>3, LoopRuns
  <1>5. Eq(g)
    <2>1. \A n \in 0 .. N : n # 0 => n \in 1 .. N /\ n - 1 \in 0 .. N
      BY <1>1
    <2>2. \A n \in 0 .. N : n # 0 => <<n, g[n - 1]>> \in (1 .. N) \X WriteState
      BY <2>1
    <2>3. \A n \in 0 .. N : n # 0 => F[<<n, g[n - 1]>>] = WriteDigit(g[n - 1], text[n])
      BY <2>2
    <2> HIDE DEF F, base
    <2> QED
      BY <1>4, <2>3 DEF Loop
  <1> HIDE DEF F
  <1>6. Eq(U)
    BY <1>5 DEF KeyUpTo
  <1> HIDE DEF U
  <1>7. /\ U[0] = base
        /\ \A n \in 1 .. N : U[n] = WriteDigit(U[n - 1], text[n])
    <2>1. 0 \in 0 .. N /\ \A n \in 1 .. N : n \in 0 .. N /\ n # 0
      BY <1>1
    <2> HIDE DEF N, base
    <2> QED
      BY <1>6, <2>1
  <1>8. /\ D \in [0 .. N -> Seq(Digit)] /\ D[0] = <<>> /\ DigitsOf(text) = D[N]
        /\ \A n \in 1 .. N :
             D[n] = IF text[n] \in Digit THEN Append(D[n - 1], text[n]) ELSE D[n - 1]
    BY DigitsRun
  <1> HIDE DEF D
  <1> DEFINE T == {n \in 0 .. N : U[n] \in WriteState /\ WrittenAll(U[n], Clean(text, n), D[n])}
  <1>9. 0 \in T
    <2>1. 0 \in 0 .. N /\ U[0] \in WriteState
      BY <1>1, <1>2, <1>7
    <2>2. Clean(text, 0) /\ Len(<<>>) = 0 /\ 0 <= 2 * KeyLen
      BY LengthsAssumption DEF Clean
    <2>3. U[0].ok /\ U[0].count = 0 /\ U[0].out = Zeros(KeyLen)
      BY <1>7
    <2>4. \A j \in 0 .. KeyLen - 1 : Written(<<>>, j) = 0
      BY <2>2 DEF Written
    <2>5. \A j \in 0 .. KeyLen - 1 : U[0].out[j] = Written(<<>>, j)
      BY <2>3, <2>4 DEF Zeros
    <2> HIDE DEF N
    <2>6. WrittenAll(U[0], Clean(text, 0), D[0])
      BY <1>8, <2>2, <2>3, <2>5 DEF WrittenAll
    <2> QED
      BY <2>1, <2>6
  <1>10. ASSUME NEW n \in 0 .. N - 1, n \in T PROVE n + 1 \in T
    <2>1. n + 1 \in 1 .. N /\ (n + 1) - 1 = n /\ n \in Nat /\ n + 1 \in 0 .. N
      BY <1>1
    <2>2. U[n + 1] = WriteDigit(U[n], text[n + 1])
      BY <1>7, <2>1
    <2>3. D[n + 1] = IF text[n + 1] \in Digit THEN Append(D[n], text[n + 1]) ELSE D[n]
      BY <1>8, <2>1
    <2>4. text[n + 1] \in Char /\ D[n] \in Seq(Digit) /\ Clean(text, n) \in BOOLEAN
      BY <1>1, <1>8, <2>1 DEF Clean
    <2>5. U[n] \in WriteState /\ WrittenAll(U[n], Clean(text, n), D[n])
      BY <1>10
    <2>6. U[n + 1] \in WriteState
      BY <2>2, <2>4, <2>5, WriteFacts
    <2>7. WrittenAll(U[n + 1], Clean(text, n) /\ text[n + 1] # Other, D[n + 1])
      BY <2>2, <2>3, <2>4, <2>5, WriteAgrees
    <2>8. WrittenAll(U[n + 1], Clean(text, n + 1), D[n + 1])
      BY <2>1, <2>7, CleanStep DEF WrittenAll
    <2> QED
      BY <2>1, <2>6, <2>8
  <1>11. N \in T
    <2>1. N \in 0 .. N
      BY <1>1
    <2> HIDE DEF T, N
    <2> QED
      BY <1>1, <1>9, <1>10, <2>1, Induction
  <1> QED
    BY <1>8, <1>11 DEF U

\* A key is taken if and only if the text spells one, and it is that one.
LEMMA KeyIsSpelled ==
    ASSUME NEW text \in Seq(Char)
    PROVE  /\ ParsedKey(text).ok \in BOOLEAN
           /\ ~ParsedKey(text).ok => Spelled(text, KeyLen) = <<>>
           /\ ParsedKey(text).ok =>
                Spelled(text, KeyLen) = [i \in 1 .. KeyLen |-> ParsedKey(text).value[i - 1]]
  <1> DEFINE s == KeyUpTo(text)[Len(text)]
             digits == DigitsOf(text)
             whole == s.ok /\ s.count = 2 * KeyLen
  <1>1. ParsedKey(text) = [ok |-> whole, value |-> s.out]
    BY DEF ParsedKey, KeyUpTo, Filled
  <1>2. s \in WriteState /\ WrittenAll(s, Clean(text, Len(text)), digits)
    BY KeyRuns
  <1>3. digits \in Seq(Digit) /\ Len(digits) \in Nat /\ KeyLen \in Nat
    <2>1. digits \in Seq(Digit)
      BY DigitsRun
    <2> QED
      BY <2>1, LengthsAssumption
  <1>4. Clean(text, Len(text)) <=> ~\E i \in 1 .. Len(text) : text[i] = Other
    BY DEF Clean
  <1> HIDE DEF s, digits
  <1>5. whole <=> Clean(text, Len(text)) /\ Len(digits) = 2 * KeyLen
    BY <1>2, <1>3 DEF WrittenAll
  <1>6. Spelled(text, KeyLen) =
            IF ~Clean(text, Len(text)) \/ Len(digits) # 2 * KeyLen
              THEN <<>> ELSE [i \in 1 .. KeyLen |-> 16 * digits[2 * i - 1] + digits[2 * i]]
    BY <1>4 DEF Spelled, digits
  <1>7. ASSUME whole, NEW i \in 1 .. KeyLen
        PROVE  ParsedKey(text).value[i - 1] = 16 * digits[2 * i - 1] + digits[2 * i]
    <2>1. i - 1 \in 0 .. KeyLen - 1 /\ 2 * (i - 1) + 1 = 2 * i - 1 /\ 2 * (i - 1) + 2 = 2 * i
      BY <1>3
    <2>2. 2 * i <= Len(digits)
      BY <1>3, <1>5, <1>7
    <2>3. Written(digits, i - 1) = 16 * digits[2 * i - 1] + digits[2 * i]
      BY <2>1, <2>2 DEF Written
    <2> QED
      BY <1>1, <1>2, <1>7, <2>1, <2>3 DEF WrittenAll
  <1>8. ParsedKey(text).ok = whole /\ whole \in BOOLEAN
    BY <1>1, <1>2 DEF WriteState
  <1> HIDE DEF whole
  <1> QED
    BY <1>5, <1>6, <1>7, <1>8

--------------------------------------------------------------------------------------
(* From the texts and the frames to what is stored.                           *)

\* What the parsers answer to the configured texts.
AddrOk == ParsedAddr(texts.addr).ok
KeyOk == ParsedKey(texts.key).ok

\* The flags say what the parsers found, and the values are theirs.
ConfigIsParsed ==
    /\ stage = "boot" => ~victron_key_configured_ /\ last = NoFrame
    /\ stage # "boot" =>
        /\ target_addr = ParsedAddr(texts.addr).value
        /\ target_addr_configured_ = AddrOk
        /\ victron_key_configured_ <=> AddrOk /\ texts.key # <<>> /\ KeyOk
        /\ victron_key_configured_ => victron_key = ParsedKey(texts.key).value
    /\ stage = "scanning" => AddrOk /\ (texts.key = <<>> \/ KeyOk)
    /\ stage = "off" => ~AddrOk \/ (texts.key # <<>> /\ ~KeyOk)

\* The snapshot is what the last frame decodes to.
SnapshotIsDecoded ==
    last # NoFrame =>
        /\ last \in Frames /\ last.wrong = "nothing"
        /\ snapshot = Telemetry(Decrypted(last))

\* The inductive invariant of the readout.
ReadoutInv ==
    /\ texts \in Texts
    /\ stage \in {"boot", "parsed", "scanning", "off"}
    /\ ConfigIsParsed
    /\ SnapshotIsDecoded

\* They answer.
LEMMA ParsersAnswer ==
    ASSUME texts \in Texts
    PROVE  AddrOk \in BOOLEAN /\ KeyOk \in BOOLEAN
  BY TextsAssumption, AddrIsSpelled, KeyIsSpelled DEF AddrOk, KeyOk

\* Nothing is parsed and nothing stored.
LEMMA ReadoutInitially == ReadoutInit => ReadoutInv
  BY DEF ReadoutInit, ReadoutInv, ConfigIsParsed, SnapshotIsDecoded

\* The parsers are asked once, before any frame.
LEMMA LoadConfigPreserves == ReadoutInv /\ LoadConfig => ReadoutInv'
  <1> SUFFICES ASSUME ReadoutInv, LoadConfig PROVE ReadoutInv'
    OBVIOUS
  <1>1. AddrOk \in BOOLEAN /\ KeyOk \in BOOLEAN
    BY ParsersAnswer DEF ReadoutInv
  <1>2. stage = "boot" /\ stage' = "parsed" /\ UNCHANGED <<texts, snapshot, last>>
    BY DEF LoadConfig
  <1>3. ~victron_key_configured_ /\ last = NoFrame
    BY <1>2 DEF ReadoutInv, ConfigIsParsed
  <1>4. target_addr' = ParsedAddr(texts.addr).value /\ target_addr_configured_' = AddrOk
    BY DEF LoadConfig, AddrOk
  <1>5. (AddrOk' = AddrOk) /\ (KeyOk' = KeyOk)
    BY <1>2 DEF AddrOk, KeyOk
  <1>6. /\ victron_key_configured_' <=> AddrOk /\ texts.key # <<>> /\ KeyOk
        /\ victron_key_configured_' => victron_key' = ParsedKey(texts.key).value
    <2>1. CASE AddrOk /\ texts.key # <<>>
      BY <2>1 DEF LoadConfig, AddrOk, KeyOk
    <2>2. CASE ~(AddrOk /\ texts.key # <<>>)
      BY <1>3, <2>2 DEF LoadConfig, AddrOk, KeyOk
    <2> QED
      BY <2>1, <2>2
  <1>7. ConfigIsParsed'
    BY <1>2, <1>4, <1>5, <1>6 DEF ConfigIsParsed
  <1>8. SnapshotIsDecoded'
    BY <1>2, <1>3 DEF SnapshotIsDecoded
  <1> QED
    BY <1>2, <1>7, <1>8 DEF ReadoutInv

\* The flags tell start() what the parsers answered.
LEMMA StartPreserves == ReadoutInv /\ Start => ReadoutInv'
  <1> SUFFICES ASSUME ReadoutInv, Start PROVE ReadoutInv'
    OBVIOUS
  <1>1. AddrOk \in BOOLEAN /\ KeyOk \in BOOLEAN
    BY ParsersAnswer DEF ReadoutInv
  <1>2. stage = "parsed" /\ UNCHANGED <<configVars, snapshot, last>>
    BY DEF Start
  <1>3. (AddrOk' = AddrOk) /\ (KeyOk' = KeyOk)
    BY <1>2 DEF AddrOk, KeyOk, configVars
  <1>4. stage' \in {"scanning", "off"}
    BY DEF Start
  <1>5. stage' = "scanning" <=> AddrOk /\ (texts.key = <<>> \/ KeyOk)
    BY <1>1, <1>2 DEF Start, ReadoutInv, ConfigIsParsed
  <1>6. ConfigIsParsed'
    BY <1>2, <1>3, <1>4, <1>5 DEF ReadoutInv, ConfigIsParsed, configVars
  <1>7. SnapshotIsDecoded'
    <2>1. UNCHANGED victron_key /\ UNCHANGED <<snapshot, last>>
      BY <1>2 DEF configVars
    <2>2. Telemetry(Decrypted(last))' = Telemetry(Decrypted(last))
      BY <2>1 DEF Decrypted, KeyIsRight, Telemetry, Raw
    <2> QED
      BY <2>1, <2>2 DEF ReadoutInv, SnapshotIsDecoded
  <1> QED
    BY <1>2, <1>4, <1>6, <1>7 DEF ReadoutInv, configVars

\* A frame that passes every test is stored whole.
LEMMA AdvertisePreserves ==
    ASSUME ReadoutInv, NEW frame \in Frames, Advertise(frame)
    PROVE  ReadoutInv'
  <1>1. stage = "scanning" /\ UNCHANGED <<configVars, stage>>
    BY DEF Advertise
  <1>2. frame.wrong = "nothing"
    BY FramesAssumption DEF Advertise, IsTarget, Decodes
  <1>3. snapshot' = Telemetry(Decrypted(frame)) /\ last' = frame
    BY DEF Advertise, Stored
  <1>4. Telemetry(Decrypted(last))' = Telemetry(Decrypted(frame))
    BY <1>1, <1>3 DEF Decrypted, KeyIsRight, Telemetry, Raw, configVars
  <1>5. SnapshotIsDecoded'
    BY <1>2, <1>3, <1>4 DEF SnapshotIsDecoded
  <1>6. ConfigIsParsed'
    BY <1>1 DEF ReadoutInv, ConfigIsParsed, AddrOk, KeyOk, configVars
  <1> QED
    BY <1>1, <1>5, <1>6 DEF ReadoutInv, configVars

\* So does a frame that fails one, which changes nothing.
LEMMA ReadoutStutters == ReadoutInv /\ UNCHANGED readoutVars => ReadoutInv'
  <1> SUFFICES ASSUME ReadoutInv, UNCHANGED readoutVars PROVE ReadoutInv'
    OBVIOUS
  <1>1. Telemetry(Decrypted(last))' = Telemetry(Decrypted(last))
    BY DEF Decrypted, KeyIsRight, Telemetry, Raw, readoutVars, configVars
  <1>2. SnapshotIsDecoded'
    BY <1>1 DEF ReadoutInv, SnapshotIsDecoded, readoutVars
  <1>3. ConfigIsParsed'
    BY DEF ReadoutInv, ConfigIsParsed, AddrOk, KeyOk, readoutVars, configVars
  <1> QED
    BY <1>2, <1>3 DEF ReadoutInv, readoutVars, configVars

\* At every point of the readout, what is configured is what was parsed, and
\* what is stored is what the last frame decodes to.
THEOREM ReadoutInvariance == ReadoutSpec => []ReadoutInv
  <1>1. ReadoutInv /\ [ReadoutNext]_readoutVars => ReadoutInv'
    BY LoadConfigPreserves, StartPreserves, AdvertisePreserves, ReadoutStutters
    DEF ReadoutNext, AdvertiseInVain
  <1> QED
    BY <1>1, ReadoutInitially, PTL DEF ReadoutSpec

\* Whatever texts are configured, of whatever length and with whatever
\* characters, start() goes on with the address and the key they spell or does
\* not go on (BluetoothScanner.cpp:669-701).
THEOREM ConfigurationIsWhole == ReadoutSpec => []ConfigIsWhole
  <1>1. ReadoutInv => ConfigIsWhole
    <2> SUFFICES ASSUME ReadoutInv PROVE ConfigIsWhole
      OBVIOUS
    <2>1. texts.addr \in Seq(Char) /\ texts.key \in Seq(Char)
      BY TextsAssumption DEF ReadoutInv
    <2>2. /\ ~AddrOk => Spelled(texts.addr, AddrLen) = <<>>
          /\ AddrOk => Spelled(texts.addr, AddrLen) =
                         [i \in 1 .. AddrLen |-> ParsedAddr(texts.addr).value[AddrLen - i]]
      BY <2>1, AddrIsSpelled DEF AddrOk
    <2>3. /\ ~KeyOk => Spelled(texts.key, KeyLen) = <<>>
          /\ KeyOk => Spelled(texts.key, KeyLen) =
                        [i \in 1 .. KeyLen |-> ParsedKey(texts.key).value[i - 1]]
      BY <2>1, KeyIsSpelled DEF KeyOk
    <2>4. ASSUME stage = "scanning"
          PROVE  /\ Spelled(texts.addr, AddrLen) = [i \in 1 .. AddrLen |-> target_addr[AddrLen - i]]
                 /\ texts.key = <<>> => ~victron_key_configured_
                 /\ texts.key # <<>> =>
                      Spelled(texts.key, KeyLen) = [i \in 1 .. KeyLen |-> victron_key[i - 1]]
      <3>1. AddrOk /\ (texts.key = <<>> \/ KeyOk) /\ target_addr = ParsedAddr(texts.addr).value
        BY <2>4 DEF ReadoutInv, ConfigIsParsed
      <3>2. /\ texts.key = <<>> => ~victron_key_configured_
            /\ texts.key # <<>> => victron_key = ParsedKey(texts.key).value
        BY <2>4, <3>1 DEF ReadoutInv, ConfigIsParsed
      <3> QED
        BY <2>2, <2>3, <3>1, <3>2
    <2>5. ASSUME stage = "off"
          PROVE  \/ Spelled(texts.addr, AddrLen) = <<>>
                 \/ texts.key # <<>> /\ Spelled(texts.key, KeyLen) = <<>>
      BY <2>2, <2>3, <2>5 DEF ReadoutInv, ConfigIsParsed
    <2> QED
      BY <2>4, <2>5 DEF ConfigIsWhole
  <1> QED
    BY <1>1, ReadoutInvariance, PTL

\* For every reading, every length of a frame and every filling of the other
\* fields: a field that the ciphertext holds to its end is stored as what the
\* shunt measured, in volts, amperes or percent (BluetoothScanner.cpp:290-317).
THEOREM StoringIsFaithful == ReadoutSpec => []StoredIsMeasured
  <1>1. ReadoutInv => StoredIsMeasured
    <2> SUFFICES ASSUME ReadoutInv, last # NoFrame, KeyIsRight
                 PROVE  /\ last.wrong = "nothing"
                        /\ \A f \in DOMAIN LastBit :
                             LastBit[f] < 8 * CipherLen(last) => Says(snapshot[f], f, last.reading[f])
      BY DEF StoredIsMeasured
    <2>1. last \in Frames /\ last.wrong = "nothing" /\ snapshot = Telemetry(Decrypted(last))
      BY DEF ReadoutInv, SnapshotIsDecoded
    <2>2. Measurable(last.reading) /\ last.len \in Nat
      BY <2>1, FramesAssumption
    <2> DEFINE fd == Field(last.reading)
    <2>3. /\ FieldIsWhole(last, fd.voltage) => Says(snapshot.voltage, "voltage", last.reading.voltage)
          /\ FieldIsWhole(last, fd.current) => Says(snapshot.current, "current", last.reading.current)
          /\ FieldIsWhole(last, fd.soc) => Says(snapshot.soc, "soc", last.reading.soc)
      BY <2>1, <2>2, DecodesMeasured
    <2>4. /\ LastBit.voltage < 8 * CipherLen(last) => FieldIsWhole(last, fd.voltage)
          /\ LastBit.current < 8 * CipherLen(last) => FieldIsWhole(last, fd.current)
          /\ LastBit.soc < 8 * CipherLen(last) => FieldIsWhole(last, fd.soc)
      <3>1. /\ fd.voltage.at = 16 /\ fd.voltage.width = 16
            /\ fd.current.at = 66 /\ fd.current.width = 22
            /\ fd.soc.at = 108 /\ fd.soc.width = 10
        BY <2>2, FieldFacts
      <3>2. CipherLen(last) \in Int
        BY <2>2 DEF CipherLen
      <3>3. LastBit.voltage = 31 /\ LastBit.current = 87 /\ LastBit.soc = 117
        BY DEF LastBit
      <3> HIDE DEF fd
      <3> QED
        BY <3>1, <3>2, <3>3 DEF FieldIsWhole
    <2>5. DOMAIN LastBit = {"voltage", "current", "soc"}
      BY DEF LastBit
    <2> HIDE DEF fd
    <2> QED
      BY <2>1, <2>3, <2>4, <2>5
  <1> QED
    BY <1>1, ReadoutInvariance, PTL
======================================================================================
