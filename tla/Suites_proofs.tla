---------------------------- MODULE Suites_proofs ---------------------------
(***************************************************************************)
(* The tests of the suites, whatever the constants: what a test of a       *)
(* suite says when it passes is true, and every state is type correct.     *)
(*                                                                         *)
(* The four parts are those of the machine under test.  Flash: a loop      *)
(* takes an image for its own only if it could not tell it from another    *)
(* test's (OnlyOwn, OnlyStaged).                                           *)
(* Kernels: SystemInv relates what runs, what kexec has loaded and what    *)
(* the boot loader takes; KernelShape says which test is where and what it *)
(* asks of the command line; BisectInv keeps the first bad commit between  *)
(* the marks; ArgsInv follows an argument from the command line to the     *)
(* system that runs and back.  Platform: a test that has not failed is in  *)
(* its footprint (InFootprint), whatever the tests before it have done.    *)
(* KernelDump: the dumps of an LPAR and the monitors of its console, with  *)
(* the names of MCKernelDump.                                              *)
(***************************************************************************)
EXTENDS MCSuites, MCKernelDump, TLAPS

-----------------------------------------------------------------------------
(* Flash: the types                                                        *)

\* What the loops of a test and the machine are made of.
TestType ==
    /\ left \in 0 .. Last
    /\ kind \in Kinds \cup {"none"}
    /\ version \in Versions
    /\ img \in Images \cup {NoImage}
    /\ todo \subseteq Images
    /\ drained \in BOOLEAN
    /\ others \subseteq Images /\ already \in BOOLEAN

Counting ==
    /\ pc \in Requests \cup Reads \cup Steps
    /\ tries \in 0 .. IF pc \in Requests THEN Attempts - 1 ELSE Polls
    /\ outcome \in {"none", "passed", "failed"}

MachineType ==
    /\ uploads \subseteq Images
    /\ image \in [Images -> {"absent", "NotReady", "Ready", "Activating", "Active", "Failed"}]
    /\ staged \subseteq Images
    /\ priority \in Images /\ functional \in Images
    /\ bmc \in {"up", "asked", "down", "booting"}
    /\ session \in BOOLEAN

LEMMA FlashTypes ==
    /\ TypeOK <=> TestType /\ Counting /\ MachineType
    /\ TypeOK' <=> TestType' /\ Counting' /\ MachineType'
BY DEF TypeOK, TestType, Counting, MachineType

LEMMA FlashInitTypeOK == Init => TypeOK
<1> SUFFICES ASSUME Init PROVE TypeOK
  OBVIOUS
<1>1. Counting
  BY LimitsAssumption DEF Init, Counting, Requests, Reads, Steps
<1>2. TestType
  <2>1. left \in 0 .. Last /\ version \in Versions
    BY VersionsAssumption, LimitsAssumption DEF Init
  <2>2. img \in Images \cup {NoImage} /\ todo \subseteq Images
    BY Zenon DEF Init
  <2> QED BY <2>1, <2>2 DEF Init, TestType
<1>3. MachineType
  <2>1. <<"bmc", Old>> \in Images
    BY VersionsAssumption DEF Images
  <2>2. image \in [Images -> {"absent", "NotReady", "Ready", "Activating", "Active", "Failed"}]
    BY DEF Init
  <2> QED BY <2>1, <2>2 DEF Init, MachineType
<1> QED BY <1>1, <1>2, <1>3, FlashTypes

\* A loop that begins counts from 0.
LEMMA GoesCounts ==
    ASSUME NEW to \in Requests \cup Reads \cup Steps, Goes(to),
           outcome' \in {"none", "passed", "failed"}
    PROVE  Counting'
BY LimitsAssumption DEF Goes, Counting

LEMMA EndsCounts == ASSUME NEW how \in {"passed", "failed"}, Ends(how) PROVE Counting'
BY LimitsAssumption DEF Ends, Goes, Counting, Steps

LEMMA StaysCounted ==
    ASSUME Counting, UNCHANGED <<pc, tries, outcome>> PROVE Counting'
BY DEF Counting

\* A request that is sent again, or given up.
LEMMA AgainCounts == ASSUME Counting, pc \in Requests, Again PROVE Counting'
<1>1. CASE OnceMore /\ Counted /\ UNCHANGED <<pc, outcome>>
  BY <1>1, LimitsAssumption DEF Counting, OnceMore, Counted
<1>2. CASE GivesUp
  <2>1. CASE pc = "delete"
    BY <1>2, <2>1, GoesCounts DEF GivesUp, Counting, Requests
  <2>2. CASE pc # "delete"
    BY <1>2, <2>2, EndsCounts DEF GivesUp
  <2> QED BY <2>1, <2>2
<1> QED BY <1>1, <1>2 DEF Again

LEMMA RaisedCounts == ASSUME Counting, pc \in Requests, Raised PROVE Counting'
BY AgainCounts, EndsCounts DEF Raised

LEMMA ContinuesCounts ==
    ASSUME Counting, pc \in Requests, Continues, UNCHANGED outcome PROVE Counting'
<1>1. \E to \in Requests \cup Reads \cup Steps : Goes(to)
  BY DEF Continues, Requests, Reads, Steps
<1> QED BY <1>1, GoesCounts DEF Counting


-----------------------------------------------------------------------------
(* Flash: where a test is                                                  *)

OfBMC == {"clean", "find", "active", "functional", "ready", "priority", "reboot",
          "down", "up", "runtime", "validate"}
OfPNOR == {"list", "sweep", "delete", "erase", "appear", "pick"}

\* Which test is where, and what of the image it found active.
FlashShape ==
    /\ pc \in OfBMC => kind = "bmc"
    /\ pc \in OfPNOR => kind = "pnor"
    /\ pc # "idle" => kind \in {"bmc", "pnor"}
    /\ pc \in {"active", "functional", "priority"} => img = Mine
    /\ pc \in {"activate", "await"} => img \in Images
    /\ pc \in {"functional", "priority"} => already
    /\ already => kind = "bmc" /\ pc \in {"idle", "functional", "priority", "reboot",
                                         "down", "up", "runtime"}

LEMMA AcceptsTypes ==
    ASSUME TestType, FlashShape, MachineType, Accepts, pc \in Requests,
           UNCHANGED <<functional, bmc, session>>
    PROVE  MachineType'
<1>1. pc # "idle"
  BY DEF Requests
<1>2. Mine \in Images
  BY <1>1 DEF TestType, FlashShape, Mine, Images
<1>3. CASE Accepts!1
  BY <1>2, <1>3 DEF MachineType
<1>4. CASE Accepts!2
  BY <1>4 DEF MachineType
<1>5. CASE Accepts!3
  BY <1>5 DEF MachineType
<1>6. CASE Accepts!4
  BY <1>2, <1>6 DEF MachineType, FlashShape
<1> QED BY <1>3, <1>4, <1>5, <1>6 DEF Accepts

\* A request leaves the test as it is, but for where it is.
LEMMA RequestTypes ==
    ASSUME TypeOK, FlashShape, Accepted \/ AnswerLost \/ NotAnswered \/ Refused \/ Unauthorized
    PROVE  TypeOK'
<1> USE FlashTypes
<1>1. pc \in Requests
  BY DEF Accepted, AnswerLost, NotAnswered, Refused, Unauthorized
<1>2. TestType'
  <2>1. UNCHANGED <<left, kind, version, img, todo, others, already>> /\ drained' \in BOOLEAN
    BY DEF Accepted, AnswerLost, NotAnswered, Refused, Unauthorized, history, TestType
  <2> QED BY <2>1 DEF TestType
<1>3. CASE Accepted
  <2>1. MachineType'
    BY <1>1, <1>3, AcceptsTypes DEF Accepted
  <2>2. Counting'
    BY <1>1, <1>3, ContinuesCounts DEF Accepted, history
  <2> QED BY <1>2, <2>1, <2>2
<1>4. CASE AnswerLost
  <2>1. MachineType'
    BY <1>1, <1>4, AcceptsTypes DEF AnswerLost
  <2>2. Counting'
    BY <1>1, <1>4, RaisedCounts DEF AnswerLost
  <2> QED BY <1>2, <2>1, <2>2
<1>5. CASE NotAnswered
  <2>1. MachineType'
    BY <1>5 DEF NotAnswered, machine, MachineType
  <2>2. Counting'
    BY <1>1, <1>5, RaisedCounts DEF NotAnswered
  <2> QED BY <1>2, <2>1, <2>2
<1>6. CASE Refused
  <2>1. MachineType'
    BY <1>6 DEF Refused, machine, MachineType
  <2>2. Counting'
    BY <1>1, <1>6, AgainCounts, ContinuesCounts DEF Refused
  <2> QED BY <1>2, <2>1, <2>2
<1>7. CASE Unauthorized
  <2>1. MachineType'
    BY <1>7 DEF Unauthorized, MachineType
  <2>2. Counting'
    BY <1>1, <1>7, AgainCounts, RaisedCounts DEF Unauthorized
  <2> QED BY <1>2, <2>1, <2>2
<1> QED BY <1>3, <1>4, <1>5, <1>6, <1>7


\* The steps of the tests between their requests.
LEMMA FlashTestTypes ==
    ASSUME TypeOK, FlashShape, OpTest,
           ~(Accepted \/ AnswerLost \/ NotAnswered \/ Refused \/ Unauthorized)
    PROVE  TypeOK'
<1> USE FlashTypes
<1>1. CASE BeginTest
  <2>1. TestType' /\ MachineType'
    <3>1. left' \in 0 .. Last
      BY <1>1, LimitsAssumption DEF BeginTest, TestType
    <3>2. img' \in Images \cup {NoImage} /\ todo' \subseteq Images
      BY <1>1, Zenon DEF BeginTest
    <3> QED BY <1>1, <3>1, <3>2 DEF BeginTest, TestType, MachineType
  <2>2. Counting'
    BY <1>1, GoesCounts DEF BeginTest, Reads, Steps
  <2> QED BY <2>1, <2>2
<1>2. CASE DeleteImagesDir
  <2>1. TestType' /\ MachineType'
    BY <1>2 DEF DeleteImagesDir, TestType, MachineType
  <2>2. Counting'
    BY <1>2, GoesCounts DEF DeleteImagesDir, Requests, Counting
  <2> QED BY <2>1, <2>2
<1>3. CASE ReadFails
  <2>1. TestType' /\ MachineType'
    BY <1>3 DEF ReadFails, TestType, MachineType, machine
  <2>2. Counting'
    BY <1>3, EndsCounts DEF ReadFails
  <2> QED BY <2>1, <2>2
<1>4. CASE Reboot
  <2>1. TestType' /\ MachineType'
    BY <1>4 DEF Reboot, TestType, MachineType, history
  <2>2. Counting'
    BY <1>4, GoesCounts DEF Reboot, Steps, Counting, history
  <2> QED BY <2>1, <2>2
<1>5. ASSUME KeepsElse, Counting', img' \in Images \cup {NoImage}, todo' \subseteq Images,
             already' \in BOOLEAN
      PROVE  TypeOK'
  BY <1>5 DEF KeepsElse, TestType, MachineType, machine
<1>6. CASE GetImageId
  <2>1. Mine \in Images
    BY <1>6 DEF GetImageId, Reading, FlashShape, OfBMC, Mine, TestType, Images
  <2>2. Counting'
    BY <1>6, GoesCounts DEF GetImageId, Reads, Counting
  <2> QED BY <1>5, <1>6, <2>1, <2>2 DEF GetImageId, TestType
<1>7. CASE IsImageAlreadyActive
  <2>1. Counting'
    BY <1>7, GoesCounts DEF IsImageAlreadyActive, Reads, Counting
  <2> QED BY <1>5, <1>7, <2>1 DEF IsImageAlreadyActive, TestType
<1>8. CASE IsFunctional
  <2>1. Counting'
    BY <1>8, GoesCounts, EndsCounts DEF IsFunctional, Requests, Counting
  <2> QED BY <1>5, <1>8, <2>1 DEF IsFunctional, TestType
<1>9. CASE WaitForReady
  <2>1. Counting'
    <3>1. CASE Goes("activate") /\ UNCHANGED outcome
      BY <3>1, GoesCounts DEF Requests, Counting
    <3>2. CASE Ends("failed")
      BY <3>2, EndsCounts
    <3>3. CASE tries + 1 < Polls /\ tries' = tries + 1 /\ UNCHANGED <<pc, outcome>>
      BY <1>9, <3>3, LimitsAssumption DEF Counting, WaitForReady, Reading, Requests
    <3> QED BY <1>9, <3>1, <3>2, <3>3 DEF WaitForReady
  <2>2. img' \in Images \cup {NoImage}
    BY <1>9 DEF WaitForReady, TestType
  <2> QED BY <1>5, <1>9, <2>1, <2>2 DEF WaitForReady, TestType
<1>10. CASE ListToDelete
  <2>1. Counting' /\ HostImages \subseteq Images
    BY <1>10, GoesCounts DEF ListToDelete, Steps, Counting, HostImages
  <2> QED BY <1>10, <2>1 DEF ListToDelete, TestType, MachineType, machine
<1>11. CASE Sweep
  <2>1. Counting'
    BY <1>11, GoesCounts DEF Sweep, Requests, Counting
  <2> QED BY <1>5, <1>11, <2>1 DEF Sweep, TestType
<1>12. CASE Appears
  <2>1. Counting'
    <3>1. CASE Goes("pick") /\ UNCHANGED outcome
      BY <3>1, GoesCounts DEF Reads, Counting
    <3>2. CASE Ends("failed")
      BY <3>2, EndsCounts
    <3>3. CASE tries < Polls /\ tries' = tries + 1 /\ UNCHANGED <<pc, outcome>>
      BY <1>12, <3>3, LimitsAssumption DEF Counting, Appears, Reading, Requests
    <3> QED BY <1>12, <3>1, <3>2, <3>3 DEF Appears
  <2> QED BY <1>5, <1>12, <2>1 DEF Appears, TestType
<1>13. CASE Pick
  <2>1. Counting' /\ img' \in Images
    BY <1>13, GoesCounts DEF Pick, Requests, Counting, HostImages
  <2> QED BY <1>5, <1>13, <2>1 DEF Pick, TestType
<1>14. CASE WaitForActive
  <2>1. Counting'
    <3>1. CASE Goes("reboot") /\ UNCHANGED outcome
      BY <3>1, GoesCounts DEF Steps, Counting
    <3>2. CASE Ends("passed") \/ Ends("failed")
      BY <3>2, EndsCounts
    <3>3. CASE tries < Polls /\ tries' = tries + 1 /\ UNCHANGED <<pc, outcome>>
      BY <1>14, <3>3, LimitsAssumption DEF Counting, WaitForActive, Reading, Requests
    <3> QED BY <1>14, <3>1, <3>2, <3>3 DEF WaitForActive
  <2> QED BY <1>5, <1>14, <2>1 DEF WaitForActive, TestType
<1>15. CASE PingFailCheck \/ PingFunc
  <2>1. Counting'
    BY <1>15, GoesCounts, EndsCounts DEF PingFailCheck, PingFunc, Steps, Reads, Counting
  <2> QED BY <1>5, <1>15, <2>1 DEF PingFailCheck, PingFunc, TestType
<1>16. CASE WaitForBmcRuntime \/ Validate
  <2>1. Counting'
    BY <1>16, GoesCounts, EndsCounts DEF WaitForBmcRuntime, Validate, Reads, Counting
  <2> QED BY <1>5, <1>16, <2>1 DEF WaitForBmcRuntime, Validate, TestType
<1> QED BY <1>1, <1>2, <1>3, <1>4, <1>6, <1>7, <1>8, <1>9, <1>10, <1>11, <1>12, <1>13, <1>14,
           <1>15, <1>16 DEF OpTest

LEMMA BMCTypes == ASSUME TypeOK, BMC PROVE TypeOK'
<1> USE FlashTypes
<1>1. UNCHANGED <<test, outcome, already>> /\ others' \subseteq Images
  BY DEF BMC, Unpacks, Verifies, GoesDown, ComesUp, SessionExpires, history, TestType, MachineType
<1>2. TestType' /\ Counting'
  BY <1>1 DEF test, TestType, Counting
<1>7. CASE Unpacks
  BY <1>2, <1>7 DEF Unpacks, MachineType
<1>3. CASE Verifies
  BY <1>2, <1>3 DEF Verifies, MachineType
<1>4. CASE GoesDown
  BY <1>2, <1>4 DEF GoesDown, MachineType
<1>5. CASE ComesUp
  <2>1. \A v \in Versions : <<"bmc", v>> \in Images
    BY DEF Images
  <2> QED BY <1>2, <1>5, <2>1 DEF ComesUp, MachineType
<1>6. CASE SessionExpires
  BY <1>2, <1>6 DEF SessionExpires, MachineType
<1> QED BY <1>3, <1>4, <1>5, <1>6, <1>7 DEF BMC

\* A step leads to where the kind of test it is of may be.
LEMMA FlashStepShape == ASSUME TypeOK, FlashShape, [Next]_vars PROVE FlashShape'
<1> USE DEF FlashShape, OfBMC, OfPNOR
<1>1. CASE BMC \/ UNCHANGED vars
  <2>1. UNCHANGED <<test, already>>
    BY <1>1 DEF BMC, Unpacks, Verifies, GoesDown, ComesUp, SessionExpires, vars, history
  <2> QED BY <2>1 DEF test, Mine
<1>2. CASE BeginTest
  BY <1>2, KindsAssumption DEF BeginTest, Goes
<1>3. ASSUME UNCHANGED <<kind, version, img, already>>, pc' \in {pc, "idle", "erase"},
             pc' = "erase" => pc \in {"delete", "erase"}
      PROVE  FlashShape'
  BY <1>3 DEF Mine
<1>4. ASSUME pc \in Requests, Again \/ Raised
      PROVE  pc' \in {pc, "idle", "erase"} /\ (pc' = "erase" => pc \in {"delete", "erase"})
  BY <1>4 DEF Again, Raised, GivesUp, Goes, Ends
<1>5. CASE AnswerLost \/ NotAnswered \/ Unauthorized \/ ReadFails
  BY <1>3, <1>4, <1>5 DEF AnswerLost, NotAnswered, Unauthorized, ReadFails, Ends, Goes
<1>6. ASSUME pc \in Requests, Continues, UNCHANGED <<kind, version, img, already>> PROVE FlashShape'
  BY <1>6 DEF Continues, Goes, Mine, Requests
<1>7. CASE Accepted \/ Refused
  BY <1>3, <1>4, <1>6, <1>7 DEF Accepted, Refused, history
<1>8. CASE DeleteImagesDir \/ Reboot
  BY <1>8 DEF DeleteImagesDir, Reboot, Goes, Mine, history
<1>9. CASE GetImageId \/ IsImageAlreadyActive \/ IsFunctional
  BY <1>9 DEF GetImageId, IsImageAlreadyActive, IsFunctional, Reading, KeepsElse, Goes, Ends, Mine
<1>10. CASE WaitForReady
  BY <1>10 DEF WaitForReady, Reading, KeepsElse, Goes, Ends, Mine
<1>11. CASE ListToDelete \/ Sweep \/ Appears \/ Pick
  BY <1>11 DEF ListToDelete, Sweep, Appears, Pick, HostImages, Reading, KeepsElse, Goes, Ends, Mine
<1>12. CASE WaitForActive \/ PingFailCheck \/ PingFunc
  BY <1>12 DEF WaitForActive, PingFailCheck, PingFunc, Reading, KeepsElse, Goes, Ends, Mine
<1>13. CASE WaitForBmcRuntime \/ Validate
  BY <1>13 DEF WaitForBmcRuntime, Validate, Reading, KeepsElse, Goes, Ends, Mine
<1> QED BY <1>1, <1>2, <1>5, <1>7, <1>8, <1>9, <1>10, <1>11, <1>12, <1>13 DEF Next, OpTest

-----------------------------------------------------------------------------
(* Flash: whose image it is                                                *)

\* The images that a test cannot tell from the one it was given.
Alike == {Mine} \cup others

\* Between the sweep and the upload of a PNOR image no other is left.
OnlyOwn ==
    kind = "pnor" =>
        /\ pc = "sweep" => HostImages \subseteq todo \cup Alike
        /\ pc \in {"delete", "erase"} => HostImages \subseteq todo \cup {img} \cup Alike
        /\ pc \in {"upload", "appear", "pick"} => HostImages \subseteq Alike
        /\ pc \in {"activate", "await"} => img \in Alike

\* With /tmp/images emptied, an image of an earlier test may still be taken for
\* this one's, but the BMC has no file to activate it from.
OnlyStaged ==
    kind = "bmc" =>
        /\ pc \notin {"idle", "clean"} => staged \subseteq Alike
        /\ pc \in {"activate", "await"} /\ image[img] = "Active" => img \in Alike
        /\ pc \in {"reboot", "down", "up", "runtime", "validate"} /\ ~already => img \in Alike

\* An image that was active stays so.
StillActive == already => img = Mine /\ image[img] = "Active"

FlashOwn == OnlyOwn /\ OnlyStaged /\ StillActive
FlashInv == TypeOK /\ FlashShape /\ FlashOwn

\* The BMC makes appear only what a test cannot tell from its own, and only what is
\* staged active.
LEMMA BMCOwn == ASSUME FlashInv, BMC PROVE FlashOwn'
<1>1. UNCHANGED <<kind, version, pc, img, todo, already>>
  BY DEF BMC, Unpacks, Verifies, GoesDown, ComesUp, SessionExpires, test, history
<1>2. Alike \subseteq Alike' /\ HostImages' \subseteq HostImages \cup Alike'
  <2>1. CASE Unpacks
    BY <2>1 DEF Unpacks, test, Alike, Mine, HostImages, FlashInv, TypeOK
  <2>2. CASE Verifies \/ GoesDown \/ ComesUp \/ SessionExpires
    <3>1. \A i \in Images : image'[i] # "absent" => image[i] # "absent"
      BY <2>2 DEF Verifies, GoesDown, ComesUp, SessionExpires, FlashInv, TypeOK
    <3>2. UNCHANGED <<kind, version, others>>
      BY <2>2 DEF Verifies, GoesDown, ComesUp, SessionExpires, test, history
    <3> QED BY <3>1, <3>2 DEF HostImages, Alike, Mine
  <2> QED BY <2>1, <2>2 DEF BMC
<1>3. /\ staged' \subseteq staged \cup Alike'
      /\ \A i \in Images : image'[i] = "Active" => image[i] = "Active" \/ i \in staged
      /\ \A i \in Images : image[i] = "Active" => image'[i] = "Active"
  <2>1. CASE Unpacks
    BY <2>1 DEF Unpacks, test, Alike, Mine, FlashInv, TypeOK
  <2>2. CASE Verifies \/ GoesDown \/ ComesUp \/ SessionExpires
    BY <2>2 DEF Verifies, GoesDown, ComesUp, SessionExpires, FlashInv, TypeOK
  <2> QED BY <2>1, <2>2 DEF BMC
<1>4. OnlyOwn'
  BY <1>1, <1>2 DEF FlashInv, FlashOwn, OnlyOwn
<1>5. OnlyStaged'
  BY <1>1, <1>2, <1>3 DEF FlashInv, FlashOwn, OnlyStaged, FlashShape
<1>6. StillActive'
  <2>1. already => Mine \in Images
    BY DEF FlashInv, TypeOK, FlashShape, Mine, Images
  <2> QED BY <1>1, <1>3, <2>1 DEF FlashInv, FlashOwn, StillActive, Mine
<1> QED BY <1>4, <1>5, <1>6 DEF FlashOwn


\* A request that is accepted changes the image it names.
LEMMA AcceptsOwn ==
    ASSUME FlashInv, Accepts, pc \in Requests, UNCHANGED <<kind, version, img, todo, others, already>>
    PROVE  /\ HostImages' \subseteq HostImages /\ staged' \subseteq staged
           /\ StillActive'
           /\ pc \in {"delete", "erase"} => HostImages' \subseteq HostImages \ {img}
           /\ pc = "activate" => image'[img] = image[img] \/ image'[img] = "Activating"
<1> USE DEF FlashInv, TypeOK, HostImages, FlashOwn, StillActive, Mine
<1>1. CASE Accepts!1
  BY <1>1
<1>2. CASE Accepts!2
  BY <1>2 DEF FlashShape, OfPNOR
<1>3. CASE Accepts!3
  <2>1. pc = "activate" /\ img \in Images
    BY <1>3 DEF FlashShape
  <2> QED BY <1>3, <2>1
<1>4. CASE Accepts!4
  BY <1>4
<1> QED BY <1>1, <1>2, <1>3, <1>4 DEF Accepts

\* A request that is sent again, or given up, leads nowhere else.
LEMMA AgainStays ==
    ASSUME pc \in Requests, Again \/ Raised
    PROVE  pc' \in {pc, "idle", "erase"} /\ (pc' = "erase" => pc \in {"delete", "erase"})
BY DEF Again, Raised, GivesUp, Goes, Ends

LEMMA RequestOwn ==
    ASSUME FlashInv, Accepted \/ AnswerLost \/ NotAnswered \/ Refused \/ Unauthorized
    PROVE  FlashOwn'
<1> USE DEF FlashInv, FlashOwn, Alike
<1>1. pc \in Requests /\ UNCHANGED <<kind, version, img, todo, others, already>>
  BY DEF Accepted, AnswerLost, NotAnswered, Refused, Unauthorized, history
<1>2. CASE Accepted
  <2>1. Accepts /\ Continues
    BY <1>2 DEF Accepted
  <2>2. OnlyOwn'
    BY <1>1, <2>1, AcceptsOwn DEF FlashInv, FlashShape, OnlyOwn, Continues, Goes, Mine, Requests
  <2>3. OnlyStaged'
    BY <1>1, <2>1, AcceptsOwn DEF FlashInv, FlashShape, OnlyStaged, Continues, Goes, Mine, Requests
  <2> QED BY <1>1, <2>1, <2>2, <2>3, AcceptsOwn
<1>3. CASE AnswerLost
  <2>1. Accepts /\ Raised
    BY <1>3 DEF AnswerLost
  <2>2. OnlyOwn'
    BY <1>1, <2>1, AcceptsOwn, AgainStays DEF FlashInv, FlashShape, OnlyOwn, Mine, Requests
  <2>3. OnlyStaged'
    BY <1>1, <2>1, AcceptsOwn, AgainStays DEF FlashInv, FlashShape, OnlyStaged, Mine, Requests
  <2> QED BY <1>1, <2>1, <2>2, <2>3, AcceptsOwn
<1>4. CASE NotAnswered \/ Unauthorized
  <2>1. UNCHANGED <<image, staged>> /\ (Again \/ Raised)
    BY <1>4 DEF NotAnswered, Unauthorized, machine
  <2>2. pc' \in {pc, "idle", "erase"} /\ (pc' = "erase" => pc \in {"delete", "erase"})
    BY <1>1, <2>1, AgainStays
  <2> QED BY <1>1, <2>1, <2>2 DEF OnlyOwn, OnlyStaged, StillActive, Mine, HostImages
<1>5. CASE Refused
  <2>1. UNCHANGED <<image, staged>>
    BY <1>5 DEF Refused, machine
  <2>2. CASE Again
    BY <1>1, <2>1, <2>2, AgainStays DEF OnlyOwn, OnlyStaged, StillActive, Mine, HostImages
  <2>3. CASE pc = "upload" /\ Continues
    BY <1>1, <2>1, <2>3 DEF OnlyOwn, OnlyStaged, StillActive, Mine, HostImages, Continues, Goes
  <2> QED BY <1>5, <2>2, <2>3 DEF Refused, Retried
<1> QED BY <1>2, <1>3, <1>4, <1>5

LEMMA TestOwn ==
    ASSUME FlashInv, OpTest, ~(Accepted \/ AnswerLost \/ NotAnswered \/ Refused \/ Unauthorized)
    PROVE  FlashOwn'
<1> USE DEF FlashInv, FlashOwn, OnlyOwn, OnlyStaged, StillActive, Alike, HostImages
<1>1. CASE BeginTest
  BY <1>1 DEF BeginTest, Goes
<1>2. CASE DeleteImagesDir
  BY <1>2 DEF DeleteImagesDir, Goes, FlashShape, OfBMC, Mine
<1>3. CASE ReadFails
  BY <1>3 DEF ReadFails, Ends, Goes, Mine, machine
<1>4. CASE GetImageId
  BY <1>4 DEF GetImageId, Reading, KeepsElse, Goes, Mine, FlashShape, OfBMC, machine
<1>11. CASE IsImageAlreadyActive
  BY <1>11 DEF IsImageAlreadyActive, Reading, KeepsElse, Goes, Mine, FlashShape, OfBMC, machine
<1>12. CASE IsFunctional
  BY <1>12 DEF IsFunctional, Reading, KeepsElse, Goes, Ends, Mine, FlashShape, OfBMC, machine
<1>5. CASE WaitForReady
  BY <1>5 DEF WaitForReady, IsReady, Reading, KeepsElse, Goes, Ends, Mine, FlashShape, OfBMC, machine
<1>6. CASE ListToDelete \/ Sweep
  BY <1>6 DEF ListToDelete, Sweep, Reading, KeepsElse, Goes, Mine, FlashShape, OfPNOR, machine
<1>7. CASE Appears \/ Pick
  BY <1>7 DEF Appears, Pick, Reading, KeepsElse, Goes, Ends, Mine, FlashShape, OfPNOR, machine
<1>8. CASE WaitForActive
  BY <1>8 DEF WaitForActive, Activated, Reading, KeepsElse, Goes, Ends, Mine, FlashShape, machine
<1>9. CASE Reboot \/ PingFailCheck \/ PingFunc
  BY <1>9 DEF Reboot, PingFailCheck, PingFunc, KeepsElse, Goes, Ends, Mine, FlashShape, OfBMC,
              machine, history
<1>10. CASE WaitForBmcRuntime \/ Validate
  BY <1>10 DEF WaitForBmcRuntime, Validate, Reading, KeepsElse, Goes, Ends, Mine, FlashShape, OfBMC,
               machine
<1> QED BY <1>1, <1>2, <1>3, <1>4, <1>5, <1>6, <1>7, <1>8, <1>9, <1>10, <1>11, <1>12 DEF OpTest

LEMMA FlashInit == Init => FlashInv
BY FlashInitTypeOK DEF Init, FlashInv, FlashShape, FlashOwn, OnlyOwn, OnlyStaged, StillActive, OfBMC,
                       OfPNOR

LEMMA FlashStep == FlashInv /\ [Next]_vars => FlashInv'
<1> SUFFICES ASSUME FlashInv, [Next]_vars PROVE FlashInv'
  OBVIOUS
<1>1. FlashShape'
  BY FlashStepShape DEF FlashInv
<1>2. TypeOK' /\ FlashOwn'
  <2>1. CASE OpTest
    BY <2>1, RequestTypes, FlashTestTypes, RequestOwn, TestOwn DEF FlashInv
  <2>2. CASE BMC
    BY <2>2, BMCTypes, BMCOwn DEF FlashInv
  <2>3. CASE UNCHANGED vars
    BY <2>3 DEF vars, test, history, machine, FlashInv, TypeOK, FlashOwn, OnlyOwn, OnlyStaged,
                StillActive, Alike, HostImages, Mine
  <2> QED BY <2>1, <2>2, <2>3 DEF Next
<1> QED BY <1>1, <1>2 DEF FlashInv

\* A flash that passes passes in one of four places.
LEMMA FlashPasses ==
    ASSUME FlashInv, [Next]_vars, outcome' = "passed", outcome' # outcome
    PROVE  /\ img \in Alike
           /\ kind = "pnor" \/ already' => image[img] = "Active"
           /\ kind = "bmc" /\ ~already' => functional = img
<1> USE DEF FlashInv, FlashOwn, Alike
<1>1. OpTest
  BY DEF Next, BMC, Unpacks, Verifies, GoesDown, ComesUp, SessionExpires, vars, history
<1>2. IsFunctional \/ WaitForActive \/ WaitForBmcRuntime \/ Validate
  BY <1>1 DEF OpTest, BeginTest, Accepted, AnswerLost, NotAnswered, Refused, Unauthorized, Again,
              Raised, GivesUp, Goes, Ends, DeleteImagesDir, ReadFails, GetImageId,
              IsImageAlreadyActive, WaitForReady, ListToDelete, Sweep, Appears, Pick, Reboot,
              PingFailCheck, PingFunc, history
<1>3. CASE IsFunctional
  BY <1>3 DEF IsFunctional, Reading, FlashShape, StillActive
<1>4. CASE WaitForActive
  BY <1>4 DEF WaitForActive, Activated, Reading, Ends, Goes, OnlyOwn, FlashShape
<1>5. CASE WaitForBmcRuntime
  BY <1>5 DEF WaitForBmcRuntime, Reading, Ends, FlashShape, OfBMC, StillActive
<1>6. CASE Validate
  BY <1>6 DEF Validate, BootsRight, Reading, Ends, FlashShape, OnlyStaged, OfBMC
<1> QED BY <1>2, <1>3, <1>4, <1>5, <1>6

-----------------------------------------------------------------------------
(* Kernels: the machine                                                    *)

\* One setting at a time.
OneEach(args) == \A x, y \in args \cap K!Setting : x = y

\* What kexec has loaded was loaded from the system that runs, which is the last to
\* have been booted.
SystemInv ==
    /\ believes \in {"OS", "OFF", "UNKNOWN", "BAD"}
    /\ host \in {"up", "going", "booting", "jumping", "off"}
    /\ running \in K!Systems /\ loaded \in K!Systems \cup {K!NoSystem}
    /\ default \in 0 .. Commits /\ config \subseteq K!Args
    /\ loaded # K!NoSystem => loaded.args = running.args
    /\ host = "jumping" => loaded \in K!Systems /\ loaded.args = running.args
    /\ OneEach(config) /\ OneEach(running.args)

LEMMA SettingsAreArgs ==
    /\ a \in K!Args /\ K!Setting \subseteq K!Args
    /\ \A i \in 1 .. Len(Settings) : Settings[i] \in K!Setting
BY DEF K!Args, K!Setting

LEMMA PoweredIsOne == SystemInv => K!Powered \in K!Systems /\ OneEach(K!Powered.args)
BY DEF SystemInv, K!Powered, K!Systems

\* What the state machine does to the machine, as far as the rest is concerned: it
\* may boot it with what the boot loader takes, and then nothing is loaded.
LEMMA SystemMoves ==
    ASSUME SystemInv, K!Reaches \/ K!Gives \/ K!GoesOff, UNCHANGED K!loader
    PROVE  /\ SystemInv'
           /\ running' = running \/ running' = K!Powered
<1> USE DEF SystemInv, K!loader
<1>1. CASE K!Reaches
  <2>1. CASE UNCHANGED K!system
    BY <2>1 DEF K!system, OneEach
  <2>2. CASE host = "up" /\ believes' = "OS" /\ UNCHANGED <<host, running, loaded>>
    BY <2>2 DEF OneEach
  <2>3. CASE believes' = "OS" /\ host' = "up" /\ running' = K!Powered /\ loaded' = K!NoSystem
    BY <2>3, PoweredIsOne DEF OneEach
  <2> QED BY <1>1, <2>1, <2>2, <2>3 DEF K!Reaches
<1>2. CASE K!Gives
  BY <1>2 DEF K!Gives, OneEach
<1>3. CASE K!GoesOff
  BY <1>3 DEF K!GoesOff, OneEach
<1> QED BY <1>1, <1>2, <1>3


LEMMA NewIsCommit == K!New \in 0 .. Commits /\ K!New \in 1 .. Commits
BY KernelsAssumption DEF K!New

\* Loading and unloading; a kernel is entered only when one is loaded.
LEMMA SystemLoads ==
    ASSUME SystemInv, host' \in {"up", "going", "booting", "jumping", "off"},
           UNCHANGED <<believes, running>>, default' \in 0 .. Commits, UNCHANGED config,
           \/ UNCHANGED loaded /\ (host' = "jumping" => host = "jumping" \/ loaded # K!NoSystem)
           \/ \E k \in 0 .. Commits : K!Load(k)
           \/ loaded' = K!NoSystem /\ host' # "jumping"
    PROVE  SystemInv'
<1> USE DEF SystemInv, OneEach
<1>1. CASE UNCHANGED loaded /\ (host' = "jumping" => host = "jumping" \/ loaded # K!NoSystem)
  BY <1>1
<1>2. ASSUME NEW k \in 0 .. Commits, K!Load(k) PROVE SystemInv'
  <2>1. loaded' \in K!Systems /\ loaded'.args = running.args
    BY <1>2 DEF K!Load, K!Systems
  <2> QED BY <2>1
<1>3. CASE loaded' = K!NoSystem /\ host' # "jumping"
  BY <1>3
<1> QED BY <1>1, <1>2, <1>3

\* The tests' own steps on the machine, but for goto_state(), the change of the
\* command line and the end of execute_kexec_cmd().
LEMMA SystemCommands ==
    ASSUME SystemInv, kernelsKind \in AllKinds, head \in 1 .. Commits,
           K!RebootByCommand \/ K!TriggerCrash \/ K!Make \/ K!Install \/ K!Kexec \/ K!LoadKexecKernel
           \/ K!UnloadKexecKernel \/ K!Exec
    PROVE  SystemInv' /\ UNCHANGED <<running, config>>
<1>1. running.kernel \in 0 .. Commits /\ head \in 0 .. Commits
  BY KernelsAssumption DEF SystemInv, K!Systems
<1>2. host \in {"up", "going", "booting", "jumping", "off"} /\ default \in 0 .. Commits
  BY DEF SystemInv
<1>3. CASE K!RebootByCommand
  BY <1>2, <1>3, SystemLoads DEF K!RebootByCommand, K!loader
<1>4. CASE K!TriggerCrash
  BY <1>2, <1>4, SystemLoads DEF K!TriggerCrash, K!loader
<1>5. CASE K!Make
  BY <1>1, <1>2, <1>5, SystemLoads DEF K!Make, K!system
<1>6. CASE K!Install
  BY <1>1, <1>2, <1>6, SystemLoads, NewIsCommit DEF K!Install
<1>7. CASE K!Kexec
  <2>1. default' \in 0 .. Commits /\ UNCHANGED <<believes, running, config>>
    BY <1>1, <1>2, <1>7 DEF K!Kexec
  <2>2. CASE UNCHANGED <<host, loaded>>
    BY <1>2, <2>1, <2>2, SystemLoads
  <2>3. CASE K!Load(head) /\ host' \in {host, "jumping"}
    BY <1>1, <1>2, <2>1, <2>3, SystemLoads
  <2> QED BY <1>7, <2>1, <2>2, <2>3 DEF K!Kexec
<1>8. CASE K!LoadKexecKernel
  BY <1>1, <1>2, <1>8, SystemLoads DEF K!LoadKexecKernel, K!KeepsLoader, K!loader
<1>9. CASE K!UnloadKexecKernel
  BY <1>2, <1>9, SystemLoads DEF K!UnloadKexecKernel, K!KeepsLoader, K!loader, K!Answers
<1>10. CASE K!Exec
  <2>1. UNCHANGED <<believes, running, default, config>>
    BY <1>10 DEF K!Exec, K!KeepsLoader, K!loader
  <2>2. CASE UNCHANGED <<host, loaded>>
    BY <1>2, <2>1, <2>2, SystemLoads
  <2>3. CASE UNCHANGED loaded /\ (host' = "going" \/ (loaded # K!NoSystem /\ host' = "jumping"))
    BY <1>2, <2>1, <2>3, SystemLoads
  <2>4. CASE K!Load(running.kernel) /\ host' = "jumping"
    BY <1>1, <1>2, <2>1, <2>4, SystemLoads
  <2> QED BY <1>10, <2>1, <2>2, <2>3, <2>4 DEF K!Exec
<1> QED BY <1>3, <1>4, <1>5, <1>6, <1>7, <1>8, <1>9, <1>10

LEMMA SystemChange ==
    ASSUME SystemInv, K!Change, add \subseteq K!Args, OneEach(add)
    PROVE  SystemInv' /\ UNCHANGED running
<1>1. config' \in {config, K!Changed} /\ UNCHANGED <<believes, host, running, loaded, default>>
  BY DEF K!Change, K!system
<1>2. K!Changed \subseteq K!Args
  BY DEF K!Changed, SystemInv
<1>3. OneEach(K!Changed)
  <2> SUFFICES ASSUME NEW x \in K!Changed \cap K!Setting, NEW y \in K!Changed \cap K!Setting
               PROVE  x = y
    BY DEF OneEach
  <2>1. CASE x \in need \cap add /\ y \in need \cap add
    BY <2>1 DEF OneEach
  <2>2. CASE x \notin need \cap add /\ y \notin need \cap add
    BY <2>2 DEF OneEach, SystemInv, K!Changed
  <2>3. CASE x \in need \cap add /\ y \notin need \cap add
    BY <2>3 DEF K!Changed, K!SameKey
  <2>4. CASE x \notin need \cap add /\ y \in need \cap add
    BY <2>4 DEF K!Changed, K!SameKey
  <2> QED BY <2>1, <2>2, <2>3, <2>4
<1> QED BY <1>1, <1>2, <1>3 DEF SystemInv, OneEach

\* A boot runs what the boot loader takes, a kexec keeps the arguments.
LEMMA SystemMachine ==
    ASSUME SystemInv, K!Machine
    PROVE  /\ SystemInv' /\ UNCHANGED config
           /\ running' = running \/ running'.args = running.args \/ running' = K!Powered
<1> USE DEF K!Machine, K!loader, SystemInv
<1>1. CASE K!GoesDown
  BY <1>1 DEF K!GoesDown, K!ComesUp, OneEach
<1>2. CASE K!ComesUp
  <2>1. CASE host = "jumping"
    BY <1>2, <2>1 DEF K!ComesUp, OneEach
  <2>2. CASE host # "jumping"
    BY <1>2, <2>2, PoweredIsOne DEF K!ComesUp, OneEach
  <2> QED BY <2>1, <2>2
<1> QED BY <1>1, <1>2

LEMMA SystemReset ==
    ASSUME SystemInv, K!Reset
    PROVE  SystemInv' /\ UNCHANGED config /\ (running' = running \/ running' = K!Powered)
<1>1. UNCHANGED <<default, config>>
  BY DEF K!Reset, K!KeepsLoader, K!loader
<1>2. CASE UNCHANGED K!system
  BY <1>1, <1>2 DEF K!system, SystemInv, OneEach
<1>3. CASE believes' \in {"OS", "UNKNOWN", "BAD"} /\ UNCHANGED running
           /\ host' \in {host, "off", "booting"}
           /\ loaded' = IF host' = host THEN loaded ELSE K!NoSystem
  BY <1>1, <1>3 DEF SystemInv, OneEach
<1>4. CASE believes' = "OS" /\ host = "up" /\ UNCHANGED <<host, running, loaded>>
  BY <1>1, <1>4 DEF SystemInv, OneEach
<1>5. CASE believes' = "OS" /\ host' = "up" /\ running' = K!Powered /\ loaded' = K!NoSystem
  BY <1>1, <1>5, PoweredIsOne DEF SystemInv, OneEach
<1> QED BY <1>2, <1>3, <1>4, <1>5 DEF K!Reset


-----------------------------------------------------------------------------
(* Kernels: where a test is, and what it asks of the command line          *)

KernelPlaces == {"idle"} \cup K!InUpdate \cup K!InTest

PlanType ==
    /\ kernelsLeft \in 0 .. KernelsLast
    /\ kernelsPc \in KernelPlaces
    /\ kernelsKind \in AllKinds \cup {"none"}
    /\ kernelsOutcome \in {"none", "passed", "failed", "skipped"}
    /\ unread \in BOOLEAN /\ missed \in BOOLEAN /\ misjudged \in BOOLEAN
    /\ ran \in K!Systems \cup {K!NoSystem}

UpdateType ==
    /\ stage \in {"add", "undo", "remove"} /\ byCommand \in BOOLEAN
    /\ add \subseteq K!Args /\ remove \subseteq K!Args /\ need \subseteq K!Args
    /\ round \in 0 .. Len(Settings) + Iterations

BisectType ==
    /\ good \in 1 .. Commits /\ bad \in 1 .. Commits /\ head \in 1 .. Commits
    /\ named \in 0 .. Commits /\ culprit \in 2 .. Commits

\* The tests that come to each step.
Comes(to, k) ==
    /\ to = "setup" => k \in {"kuap", "exec", "unload", "loop"}
    /\ to \in {"check", "change", "recheck"} => k \in {"arg", "kuap", "hotplug"}
    /\ to \in {"restart", "ssh"} => k \in {"arg", "hotplug"}
    /\ to \in {"off", "on"} => k \in {"arg", "kuap", "install", "kexec", "boot"}
    /\ to \in {"verify", "lkdtm", "crash", "cleaned"} => k = "kuap"
    /\ to = "hotplug" => k = "hotplug"
    /\ to = "make" => k \in {"install", "kexec", "build", "perf", "boot"}
    /\ to = "install" => k \in {"install", "kexec"}
    /\ to = "load" => k \in {"exec", "unload"}
    /\ to = "unload" => k = "unload"
    /\ to = "exec" => k \in {"install", "kexec", "exec", "loop"}
    /\ to = "login" => k \in {"install", "kexec", "exec", "loop", "boot"}
    /\ to = "uname" => k \in {"install", "kexec", "perf"}
    /\ to = "kexec" => k \in {"perf", "boot"}
    /\ to = "judge" => k = "perf"
    /\ to = "reset" => k \in {"exec", "loop"}

\* What each kind of test asks for, and after which stage it is where.
Asks(to, k) ==
    /\ k = "hotplug" /\ to # "idle" =>
          /\ byCommand /\ round \in 1 .. Len(Settings)
          /\ \/ stage = "add" /\ add = {Settings[round]} /\ remove = {}
             \/ /\ stage = "remove" /\ add = {} /\ remove = {Settings[round]}
                /\ round = Len(Settings) /\ to # "hotplug"
    /\ k = "kuap" /\ to # "idle" =>
          /\ ~byCommand
          /\ \/ stage = "add" /\ add = {a} /\ remove = {} /\ to # "cleaned"
             \/ /\ stage = "remove" /\ add = {} /\ remove = {a}
                /\ to \notin {"setup", "verify", "lkdtm", "crash"}
             \/ /\ stage = "undo" /\ add = {} /\ remove = {a}
                /\ to \notin {"setup", "verify", "lkdtm", "crash", "cleaned"}

KernelShape ==
    /\ kernelsPc # "idle" => kernelsKind \in AllKinds
    /\ Comes(kernelsPc, kernelsKind) /\ Asks(kernelsPc, kernelsKind) /\ OneEach(add)

\* A test that goes on with what it asks for.
LEMMA KernelGoes ==
    ASSUME KernelShape, kernelsPc # "idle", UNCHANGED <<kernelsKind, stage, byCommand, add, remove, round>>,
           kernelsPc' = "idle" \/ Comes(kernelsPc', kernelsKind),
           kernelsPc' \in {"idle", "setup", "verify", "lkdtm", "crash", "cleaned", "hotplug"}
               => kernelsPc' = "idle" \/ Asks(kernelsPc', kernelsKind)
    PROVE  KernelShape'
<1>1. OneEach(add)' /\ (kernelsPc' # "idle" => kernelsKind' \in AllKinds)
  BY DEF KernelShape, OneEach
<1>2. CASE kernelsPc' = "idle"
  BY <1>1, <1>2 DEF KernelShape, Comes, Asks
<1>3. CASE kernelsPc' # "idle"
  <2>1. Comes(kernelsPc, kernelsKind)'
    BY <1>3 DEF Comes
  <2>2. Asks(kernelsPc', kernelsKind)
    BY <1>3 DEF KernelShape, Asks
  <2>3. Asks(kernelsPc, kernelsKind)'
    BY <2>2 DEF Asks
  <2> QED BY <1>1, <2>1, <2>3 DEF KernelShape
<1> QED BY <1>2, <1>3


\* What update_kernel_cmdline() returns sends a test on, or ends it.
LEMMA ReturnsGoes ==
    ASSUME KernelShape, kernelsPc # "idle", NEW answer, K!Returns(answer),
           UNCHANGED <<kernelsKind, stage, byCommand, add, remove, round>>
    PROVE  KernelShape'
<1>1. CASE kernelsKind = "arg"
  BY <1>1, KernelGoes DEF K!Returns, K!KernelArg, K!Ends
<1>2. CASE kernelsKind = "kuap"
  <2>1. kernelsPc' = "idle" \/ (stage = "add" /\ kernelsPc' = "verify")
        \/ (stage = "remove" /\ kernelsPc' = "cleaned")
    BY <1>2 DEF K!Returns, K!KuepKuap, K!Ends, K!Goes, KernelShape, Asks
  <2>2. kernelsPc' = "idle" \/ Asks(kernelsPc', kernelsKind)
    BY <1>2, <2>1 DEF KernelShape, Asks
  <2>3. kernelsPc' = "idle" \/ Comes(kernelsPc', kernelsKind)
    BY <1>2, <2>1 DEF Comes
  <2> QED BY <2>2, <2>3, KernelGoes
<1>3. CASE kernelsKind = "hotplug"
  <2>1. kernelsPc' = "idle" \/ (stage = "add" /\ kernelsPc' = "hotplug")
    BY <1>3 DEF K!Returns, K!DlparMemHotplug, K!Ends, K!Goes
  <2>2. kernelsPc' = "idle" \/ Asks(kernelsPc', kernelsKind)
    BY <1>3, <2>1 DEF KernelShape, Asks
  <2>3. kernelsPc' = "idle" \/ Comes(kernelsPc', kernelsKind)
    BY <1>3, <2>1 DEF Comes
  <2> QED BY <2>2, <2>3, KernelGoes
<1> QED BY <1>1, <1>2, <1>3 DEF K!Returns

LEMMA KernelUpdates ==
    ASSUME KernelShape,
           K!Check \/ K!Change \/ K!RebootByCommand \/ K!WaitForSSH \/ K!GotoOFF \/ K!GotoOS \/ K!Recheck
    PROVE  KernelShape'
<1> USE DEF KernelShape
<1>1. /\ UNCHANGED <<kernelsKind, stage, byCommand, add, remove, round>>
      /\ kernelsPc \in {"check", "change", "restart", "ssh", "off", "on", "recheck"}
  BY DEF K!Check, K!Change, K!RebootByCommand, K!WaitForSSH, K!GotoOFF, K!GotoOS, K!Recheck, K!KeepsTest
<1>2. ASSUME NEW answer, K!Returns(answer) PROVE KernelShape'
  BY <1>1, <1>2, ReturnsGoes
<1>3. ASSUME kernelsPc' \in {"change", "restart", "ssh", "off", "on", "recheck", "make"},
             Comes(kernelsPc', kernelsKind)
      PROVE  KernelShape'
  BY <1>1, <1>3, KernelGoes
<1>4. CASE K!Check
  BY <1>2, <1>3, <1>4 DEF K!Check, K!Goes, Comes
<1>5. CASE K!Change
  <2>1. CASE \E answer : K!Returns(answer)
    BY <1>2, <2>1
  <2>2. CASE K!Goes(IF byCommand THEN "restart" ELSE "off")
    <3>1. kernelsKind \in {"arg", "kuap", "hotplug"}
      BY <1>5 DEF K!Change, Comes
    <3>2. /\ kernelsKind = "kuap" => ~byCommand
          /\ kernelsKind = "hotplug" => byCommand
      BY <1>5 DEF K!Change, Asks
    <3>3. Comes(kernelsPc', kernelsKind) /\ kernelsPc' \in {"restart", "off"}
      BY <2>2, <3>1, <3>2 DEF K!Goes, Comes
    <3> QED BY <1>3, <3>3
  <2> QED BY <1>5, <2>1, <2>2 DEF K!Change
<1>6. CASE K!RebootByCommand
  BY <1>3, <1>6 DEF K!RebootByCommand, K!Goes, Comes
<1>7. CASE K!WaitForSSH
  BY <1>2, <1>3, <1>7 DEF K!WaitForSSH, K!Goes, Comes
<1>8. CASE K!GotoOFF
  <2>1. CASE K!Ends("failed")
    BY <1>1, <2>1, KernelGoes DEF K!Ends
  <2>2. CASE K!Goes("on")
    BY <1>3, <1>8, <2>2 DEF K!GotoOFF, K!Goes, Comes
  <2> QED BY <1>2, <1>8, <2>1, <2>2 DEF K!GotoOFF
<1>9. CASE K!GotoOS
  <2>1. CASE K!Ends("failed")
    BY <1>1, <2>1, KernelGoes DEF K!Ends
  <2>2. CASE K!Goes(IF K!InstallsFirst THEN "make" ELSE "recheck")
    BY <1>3, <1>9, <2>2 DEF K!GotoOS, K!Goes, K!InstallsFirst, Comes
  <2> QED BY <1>2, <1>9, <2>1, <2>2 DEF K!GotoOS
<1>10. CASE K!Recheck
  BY <1>2, <1>10 DEF K!Recheck
<1> QED BY <1>4, <1>5, <1>6, <1>7, <1>8, <1>9, <1>10

LEMMA KernelBegins ==
    ASSUME K!BeginTest PROVE KernelShape' /\ UpdateType'
<1> USE SettingsAreArgs, KernelsAssumption
<1>1. kernelsKind' \in AllKinds /\ round' = 1 /\ round' \in 1 .. Len(Settings)
  BY DEF K!BeginTest
<1>2. CASE kernelsKind' = "arg"
  BY <1>1, <1>2 DEF K!BeginTest, K!Wants, KernelShape, Comes, Asks, OneEach, UpdateType, AllKinds
<1>3. CASE kernelsKind' = "hotplug"
  BY <1>1, <1>3 DEF K!BeginTest, K!Wants, KernelShape, Comes, Asks, OneEach, UpdateType, AllKinds
<1>4. ASSUME stage' = "add", remove' = {}, need' = {}, add' \in {{}, {a}}, byCommand' = FALSE,
             Comes(kernelsPc, kernelsKind)', kernelsKind' # "hotplug",
             kernelsKind' = "kuap" => add' = {a} /\ kernelsPc' = "setup"
      PROVE  KernelShape' /\ UpdateType'
  <2>1. Asks(kernelsPc, kernelsKind)' /\ OneEach(add)'
    BY <1>4 DEF Asks, OneEach
  <2>2. UpdateType'
    <3>1. round' \in 0 .. Len(Settings) + Iterations
      BY <1>1
    <3>2. add' \subseteq K!Args
      BY <1>4
    <3> QED BY <1>4, <3>1, <3>2 DEF UpdateType
  <2> QED BY <1>1, <1>4, <2>1, <2>2 DEF KernelShape
<1>5. CASE kernelsKind' \in {"kuap", "exec", "unload", "loop"}
  <2>1. kernelsPc' = "setup" /\ byCommand' = FALSE /\ K!Wants("add", {a}, {})
    BY <1>5 DEF K!BeginTest
  <2> QED BY <1>4, <1>5, <2>1 DEF K!Wants, Comes
<1>6. CASE kernelsKind' \in {"install", "kexec", "boot", "build", "perf"}
  <2>1. /\ kernelsPc' = IF kernelsKind' \in {"build", "perf"} THEN "make" ELSE "off"
        /\ byCommand' = FALSE /\ K!Wants("add", {}, {})
    BY <1>6 DEF K!BeginTest
  <2> QED BY <1>4, <1>6, <2>1 DEF K!Wants, Comes
<1> QED BY <1>1, <1>2, <1>3, <1>4, <1>5, <1>6 DEF AllKinds

LEMMA KernelFaults ==
    ASSUME KernelShape, UpdateType,
           K!Setup \/ K!Verify \/ K!LoadLkdtm \/ K!TriggerCrash \/ K!Cleaned \/ K!Hotplug
    PROVE  KernelShape' /\ UpdateType'
<1> USE SettingsAreArgs, KernelsAssumption
<1>0. kernelsPc # "idle"
  BY DEF K!Setup, K!Verify, K!LoadLkdtm, K!TriggerCrash, K!Cleaned, K!Hotplug
<1>1. CASE K!Setup
  <2>1. UNCHANGED <<kernelsKind, stage, byCommand, add, remove, need, round>>
    BY <1>1 DEF K!Setup, K!update
  <2>2. kernelsPc' = "idle" \/ (kernelsKind = "kuap" /\ kernelsPc' = "check")
        \/ (kernelsKind \in {"exec", "unload"} /\ kernelsPc' = "load")
        \/ (kernelsKind = "loop" /\ kernelsPc' = "exec")
    BY <1>1 DEF K!Setup, K!Goes, K!Ends, KernelShape, Comes
  <2>3. kernelsPc' = "idle" \/ Comes(kernelsPc', kernelsKind)
    BY <2>2 DEF Comes
  <2> QED BY <1>0, <2>1, <2>2, <2>3, KernelGoes DEF UpdateType
<1>2. CASE K!Verify \/ K!LoadLkdtm \/ K!Cleaned
  <2>1. UNCHANGED <<kernelsKind, stage, byCommand, add, remove, need, round>>
    BY <1>2 DEF K!Verify, K!LoadLkdtm, K!Cleaned, K!KeepsUpdate, K!update
  <2>2. kernelsPc' = "idle" \/ (kernelsPc = "verify" /\ kernelsPc' = "lkdtm")
        \/ (kernelsPc = "lkdtm" /\ kernelsPc' = "crash")
    BY <1>2 DEF K!Verify, K!LoadLkdtm, K!Cleaned, K!Goes, K!Ends
  <2>3. kernelsPc' = "idle" \/ (Comes(kernelsPc', kernelsKind) /\ Asks(kernelsPc', kernelsKind))
    BY <2>2 DEF KernelShape, Comes, Asks
  <2> QED BY <1>0, <2>1, <2>2, <2>3, KernelGoes DEF UpdateType
<1>3. CASE K!TriggerCrash
  <2>1. kernelsKind = "kuap" /\ ~byCommand
    BY <1>3 DEF K!TriggerCrash, KernelShape, Comes, Asks
  <2> QED
    BY <1>3, <2>1 DEF K!TriggerCrash, K!Goes, K!Wants, KernelShape, Comes, Asks, OneEach, UpdateType, AllKinds
<1>4. CASE K!Hotplug
  <2>1. kernelsKind = "hotplug" /\ byCommand /\ stage = "add" /\ round \in 1 .. Len(Settings)
    BY <1>4 DEF K!Hotplug, KernelShape, Comes, Asks
  <2>2. CASE round < Len(Settings) /\ round' = round + 1 /\ K!Goes("check")
             /\ K!Wants("add", {Settings[round + 1]}, {})
    <3>1. round' \in 1 .. Len(Settings)
      BY <2>1, <2>2
    <3> QED
      BY <1>4, <2>1, <2>2, <3>1 DEF K!Hotplug, K!Goes, K!Wants, KernelShape, Comes, Asks, OneEach, UpdateType, AllKinds
  <2>3. CASE round = Len(Settings) /\ UNCHANGED round /\ K!Goes("check")
             /\ K!Wants("remove", {}, {Settings[round]})
    BY <1>4, <2>1, <2>3 DEF K!Hotplug, K!Goes, K!Wants, KernelShape, Comes, Asks, OneEach, UpdateType, AllKinds
  <2>4. CASE K!Ends("failed") /\ UNCHANGED <<stage, add, remove, need, round>>
    BY <1>0, <1>4, <2>4, KernelGoes DEF K!Hotplug, K!Ends, UpdateType
  <2> QED BY <1>4, <2>2, <2>3, <2>4 DEF K!Hotplug
<1> QED BY <1>1, <1>2, <1>3, <1>4


\* A mark sends the search on, or ends it.
LEMMA MarksGoes ==
    ASSUME BisectType, NEW isGood \in BOOLEAN, K!Marks(isGood)
    PROVE  /\ good' \in 1 .. Commits /\ bad' \in 1 .. Commits /\ head' \in 1 .. Commits
           /\ named' \in 0 .. Commits
           /\ (kernelsPc' = "idle" /\ kernelsOutcome' = "passed" /\ kernelsKind # "boot" /\ named' # 0)
              \/ (kernelsPc' = "make" /\ UNCHANGED kernelsOutcome)
<1> USE KernelsAssumption DEF BisectType
<1>1. good' \in 1 .. Commits /\ bad' \in 1 .. Commits
  BY DEF K!Marks
<1>2. head' \in 1 .. Commits /\ named' \in 0 .. Commits
  BY <1>1 DEF K!Marks
<1>3. (kernelsPc' = "idle" /\ kernelsOutcome' = "passed" /\ kernelsKind # "boot" /\ named' # 0)
      \/ (kernelsPc' = "make" /\ UNCHANGED kernelsOutcome)
  BY DEF K!Marks, K!Ends, K!Goes
<1> QED BY <1>1, <1>2, <1>3

\* How the tests that build, install and enter kernels go on.
LEMMA KernelBuilds ==
    ASSUME KernelShape, UpdateType, BisectType,
           K!Make \/ K!Install \/ K!Kexec \/ K!LoadKexecKernel \/ K!UnloadKexecKernel \/ K!Exec
           \/ K!ExpectLogin \/ K!Uname \/ K!Judge \/ K!Reset
    PROVE  KernelShape' /\ UpdateType' /\ BisectType'
<1> USE KernelsAssumption
<1>1. UNCHANGED <<kernelsKind, K!update, culprit>> /\ kernelsPc # "idle"
  BY DEF K!Make, K!Install, K!Kexec, K!LoadKexecKernel, K!UnloadKexecKernel, K!Exec, K!ExpectLogin,
         K!Uname, K!Judge, K!Reset, K!KeepsArgs
<1>2. kernelsKind \in {"install", "kexec", "build", "perf", "boot", "exec", "unload", "loop"}
  BY DEF K!Make, K!Install, K!Kexec, K!LoadKexecKernel, K!UnloadKexecKernel, K!Exec, K!ExpectLogin,
         K!Uname, K!Judge, K!Reset, KernelShape, Comes
<1>3. ASSUME kernelsPc' = "idle" \/ Comes(kernelsPc', kernelsKind) PROVE KernelShape'
  <2>1. Comes(kernelsPc, kernelsKind)'
    BY <1>1, <1>3, <1>2 DEF Comes
  <2>2. Asks(kernelsPc, kernelsKind)'
    BY <1>1, <1>2 DEF Asks
  <2> QED BY <1>1, <1>2, <2>1, <2>2 DEF KernelShape, OneEach, AllKinds, K!update
<1>4. ASSUME K!NoMark PROVE UpdateType' /\ BisectType'
  BY <1>1, <1>4 DEF K!NoMark, UpdateType, BisectType, K!update
<1>5. ASSUME NEW isGood \in BOOLEAN, NEW justly, K!Judges(isGood, justly), kernelsKind \in {"build", "perf", "boot"}
      PROVE  KernelShape' /\ UpdateType' /\ BisectType'
  <2>1. KernelShape'
    BY <1>3, <1>5, MarksGoes DEF K!Judges, Comes
  <2>2. UpdateType' /\ BisectType'
    BY <1>1, <1>5, MarksGoes DEF K!Judges, UpdateType, BisectType, K!update
  <2> QED BY <2>1, <2>2
<1>6. ASSUME K!BeginsBisection, kernelsKind = "boot" PROVE KernelShape' /\ UpdateType' /\ BisectType'
  <2>1. KernelShape'
    BY <1>3, <1>6 DEF K!BeginsBisection, K!Goes, Comes
  <2>2. UpdateType' /\ BisectType'
    BY <1>1, <1>6 DEF K!BeginsBisection, UpdateType, BisectType, K!update
  <2> QED BY <2>1, <2>2
<1>7. ASSUME K!Ends("failed") \/ K!Ends("passed") \/ K!Ends("skipped") PROVE KernelShape'
  BY <1>3, <1>7 DEF K!Ends
<1>8. CASE K!Make
  <2>1. CASE kernelsKind \in {"install", "kexec"} /\ K!Goes("install") /\ K!NoMark
    BY <1>3, <1>4, <2>1 DEF K!Goes, Comes
  <2>2. CASE kernelsKind \in {"perf", "boot"} /\ K!Goes("kexec") /\ K!NoMark
    BY <1>3, <1>4, <2>2 DEF K!Goes, Comes
  <2>3. CASE K!Ends("failed") /\ K!NoMark
    BY <1>4, <1>7, <2>3
  <2> QED BY <1>5, <1>8, <2>1, <2>2, <2>3 DEF K!Make, K!IsBad
<1>9. CASE K!Install \/ K!LoadKexecKernel \/ K!UnloadKexecKernel \/ K!Exec
  <2>1. K!NoMark /\ (kernelsPc' = "idle" \/ Comes(kernelsPc', kernelsKind))
    BY <1>9 DEF K!Install, K!LoadKexecKernel, K!UnloadKexecKernel, K!Exec, K!Goes, K!Ends, KernelShape, Comes
  <2> QED BY <1>3, <1>4, <2>1
<1>10. CASE K!Kexec \/ K!Uname
  <2>1. K!NoMark /\ (kernelsPc' = "idle" \/ Comes(kernelsPc', kernelsKind))
    BY <1>10 DEF K!Kexec, K!Uname, K!Goes, K!Ends, KernelShape, Comes
  <2> QED BY <1>3, <1>4, <2>1
<1>11. CASE K!ExpectLogin
  <2>1. CASE K!Goes("uname") /\ K!NoMark /\ kernelsKind \in {"install", "kexec"}
    BY <1>3, <1>4, <2>1 DEF K!Goes, Comes
  <2>2. CASE K!Goes("reset") /\ K!NoMark /\ kernelsKind \in {"exec", "loop"}
    BY <1>3, <1>4, <2>2 DEF K!Goes, Comes
  <2>3. CASE kernelsKind = "boot" /\ K!Judges(~K!Warns, running.kernel = head)
    BY <1>5, <2>3
  <2>4. CASE kernelsKind = "boot" /\ K!BeginsBisection
    BY <1>6, <2>4
  <2>5. CASE K!Ends("passed") /\ UNCHANGED <<round, good, bad, head, named>>
    BY <1>1, <1>7, <2>5 DEF UpdateType, BisectType, K!update
  <2>6. CASE K!Raises
    BY <1>4, <1>6, <1>7, <2>6 DEF K!Raises, K!Bisecting
  <2> QED BY <1>11, <2>1, <2>2, <2>3, <2>4, <2>5, <2>6 DEF K!ExpectLogin
<1>12. CASE K!Judge
  <2>1. CASE K!Ends("failed") /\ K!NoMark
    BY <1>4, <1>7, <2>1
  <2>2. ASSUME NEW isGood \in IF running.kernel = 0 THEN BOOLEAN ELSE {~K!IsBad(running.kernel)},
               K!Judges(isGood, running.kernel = head)
        PROVE  KernelShape' /\ UpdateType' /\ BisectType'
    <3>1. isGood \in BOOLEAN
      OBVIOUS
    <3>2. kernelsKind = "perf"
      BY <1>12 DEF K!Judge, KernelShape, Comes
    <3> QED BY <1>5, <2>2, <3>1, <3>2
  <2> QED BY <1>12, <2>1, <2>2 DEF K!Judge
<1>13. CASE K!Reset
  <2>1. UNCHANGED <<good, bad, head, named>> /\ round' \in {round, round + 1}
        /\ (round' = round + 1 => round < Iterations)
    BY <1>13 DEF K!Reset, UpdateType
  <2>2. UpdateType' /\ BisectType'
    BY <1>1, <2>1 DEF UpdateType, BisectType, K!update
  <2>3. kernelsPc' = "idle" \/ (kernelsKind = "loop" /\ kernelsPc' = "exec")
    BY <1>13 DEF K!Reset, K!Goes, K!Ends
  <2> QED BY <1>3, <2>2, <2>3 DEF Comes
<1> QED BY <1>8, <1>9, <1>10, <1>11, <1>12, <1>13


\* The parts of TypeOK.
LEMMA KernelTypes ==
    /\ K!TypeOK <=> PlanType /\ UpdateType /\ BisectType
                    /\ believes \in {"OS", "OFF", "UNKNOWN", "BAD"}
                    /\ host \in {"up", "going", "booting", "jumping", "off"}
                    /\ running \in K!Systems /\ loaded \in K!Systems \cup {K!NoSystem}
                    /\ default \in 0 .. Commits /\ config \subseteq K!Args
BY DEF K!TypeOK, PlanType, UpdateType, BisectType, KernelPlaces

LEMMA UpdatesTypes ==
    ASSUME UpdateType, BisectType,
           K!Check \/ K!Change \/ K!RebootByCommand \/ K!WaitForSSH \/ K!GotoOFF \/ K!GotoOS \/ K!Recheck
    PROVE  UpdateType' /\ BisectType'
<1>1. UNCHANGED <<stage, byCommand, add, remove, round, K!bisect>>
  BY DEF K!Check, K!Change, K!RebootByCommand, K!WaitForSSH, K!GotoOFF, K!GotoOS, K!Recheck, K!KeepsTest
<1>2. need' \subseteq K!Args
  BY DEF K!Check, K!Change, K!RebootByCommand, K!WaitForSSH, K!GotoOFF, K!GotoOS, K!Recheck, UpdateType, K!Lacking
<1> QED BY <1>1, <1>2 DEF UpdateType, BisectType, K!bisect

LEMMA ReturnsPlan ==
    ASSUME PlanType, NEW answer, K!Returns(answer)
    PROVE  /\ kernelsPc' \in KernelPlaces /\ kernelsOutcome' \in {"none", "passed", "failed", "skipped"}
           /\ missed' \in BOOLEAN
<1> USE DEF PlanType, KernelPlaces, K!InUpdate, K!InTest, K!Returns, K!Goes, K!Ends
<1>1. CASE K!KernelArg(answer)
  BY <1>1 DEF K!KernelArg
<1>2. CASE K!KuepKuap(answer)
  BY <1>2 DEF K!KuepKuap
<1>3. CASE K!DlparMemHotplug(answer)
  BY <1>3 DEF K!DlparMemHotplug
<1> QED BY <1>1, <1>2, <1>3

LEMMA UpdatesPlan ==
    ASSUME PlanType,
           K!Check \/ K!Change \/ K!RebootByCommand \/ K!WaitForSSH \/ K!GotoOFF \/ K!GotoOS \/ K!Recheck
    PROVE  PlanType'
<1>1. UNCHANGED <<kernelsLeft, kernelsKind, misjudged, ran>>
  BY DEF K!Check, K!Change, K!RebootByCommand, K!WaitForSSH, K!GotoOFF, K!GotoOS, K!Recheck, K!KeepsTest
<1>2. unread' \in BOOLEAN
  BY DEF K!Check, K!Change, K!RebootByCommand, K!WaitForSSH, K!GotoOFF, K!GotoOS, K!Recheck, PlanType
<1>3. kernelsPc' \in KernelPlaces /\ kernelsOutcome' \in {"none", "passed", "failed", "skipped"}
      /\ missed' \in BOOLEAN
  <2>1. \/ \E answer : K!Returns(answer)
        \/ UNCHANGED missed /\ (K!Ends("failed")
             \/ \E to \in {"change", "restart", "ssh", "off", "on", "recheck", "make"} : K!Goes(to))
    BY DEF K!Check, K!Change, K!RebootByCommand, K!WaitForSSH, K!GotoOFF, K!GotoOS, K!Recheck
  <2>2. CASE \E answer : K!Returns(answer)
    BY <2>2, ReturnsPlan
  <2>3. CASE ~\E answer : K!Returns(answer)
    BY <2>1, <2>3 DEF K!Goes, K!Ends, PlanType, KernelPlaces, K!InUpdate, K!InTest
  <2> QED BY <2>2, <2>3
<1> QED BY <1>1, <1>2, <1>3 DEF PlanType

LEMMA BeginsTypes ==
    ASSUME PlanType, BisectType, K!BeginTest PROVE PlanType' /\ BisectType'
<1> USE KernelsAssumption
<1>1. kernelsPc' \in {"check", "setup", "off", "make"}
  BY DEF K!BeginTest
<1>2. kernelsLeft' \in 0 .. KernelsLast
  BY DEF K!BeginTest, PlanType
<1>3. PlanType'
  BY <1>1, <1>2 DEF K!BeginTest, PlanType, KernelPlaces, K!InUpdate, K!InTest
<1>4. culprit' \in 2 .. Commits /\ head' \in 1 .. Commits
  BY DEF K!BeginTest
<1>5. BisectType'
  BY <1>4 DEF K!BeginTest, BisectType
<1> QED BY <1>3, <1>5

LEMMA FaultsTypes ==
    ASSUME PlanType, BisectType, SystemInv, KernelShape,
           K!Setup \/ K!Verify \/ K!LoadLkdtm \/ K!TriggerCrash \/ K!Cleaned \/ K!Hotplug
    PROVE  PlanType' /\ BisectType'
<1>1. UNCHANGED <<kernelsLeft, kernelsKind, K!bisect, misjudged, missed>>
  BY DEF K!Setup, K!Verify, K!LoadLkdtm, K!TriggerCrash, K!Cleaned, K!Hotplug, K!KeepsUpdate, K!history
<1>2. unread' \in BOOLEAN
  BY DEF K!Setup, K!Verify, K!LoadLkdtm, K!TriggerCrash, K!Cleaned, K!Hotplug, K!history, PlanType, K!Answers
<1>3. ran' \in K!Systems \cup {K!NoSystem}
  BY DEF K!Setup, K!Verify, K!LoadLkdtm, K!TriggerCrash, K!Cleaned, K!Hotplug, K!history, PlanType, SystemInv
<1>4. kernelsPc' \in KernelPlaces /\ kernelsOutcome' \in {"none", "passed", "failed", "skipped"}
  <2>1. CASE K!Setup
    BY <2>1 DEF K!Setup, K!Goes, K!Ends, PlanType, KernelShape, Comes, KernelPlaces, K!InUpdate, K!InTest
  <2>2. CASE ~K!Setup
    BY <2>2 DEF K!Verify, K!LoadLkdtm, K!TriggerCrash, K!Cleaned, K!Hotplug, K!Goes, K!Ends,
                PlanType, KernelPlaces, K!InUpdate, K!InTest
  <2> QED BY <2>1, <2>2
<1> QED BY <1>1, <1>2, <1>3, <1>4 DEF PlanType, BisectType, K!bisect

LEMMA BuildsPlan ==
    ASSUME PlanType, BisectType,
           K!Make \/ K!Install \/ K!Kexec \/ K!LoadKexecKernel \/ K!UnloadKexecKernel \/ K!Exec
           \/ K!ExpectLogin \/ K!Uname \/ K!Judge \/ K!Reset
    PROVE  PlanType'
<1>1. UNCHANGED <<kernelsLeft, kernelsKind, unread, missed, ran>>
  BY DEF K!Make, K!Install, K!Kexec, K!LoadKexecKernel, K!UnloadKexecKernel, K!Exec, K!ExpectLogin,
         K!Uname, K!Judge, K!Reset, K!KeepsArgs
<1>2. \/ UNCHANGED misjudged
         /\ (K!Ends("failed") \/ K!Ends("passed") \/ K!Ends("skipped")
             \/ \E to \in KernelPlaces : K!Goes(to))
      \/ K!Ends("passed") /\ misjudged' \in BOOLEAN
      \/ \E isGood \in BOOLEAN, justly \in BOOLEAN : K!Judges(isGood, justly)
  <2> USE DEF KernelPlaces, K!InUpdate, K!InTest
  <2>1. CASE K!Make
    <3>1. CASE K!NoMark
      BY <2>1, <3>1 DEF K!Make, K!NoMark, K!Judges
    <3>2. CASE ~K!NoMark
      <4>1. K!IsBad(head) \in BOOLEAN /\ (~K!IsBad(head)) \in BOOLEAN
        BY DEF K!IsBad
      <4>2. K!Judges(TRUE, TRUE) \/ K!Judges(FALSE, K!IsBad(head)) \/ K!Judges(TRUE, ~K!IsBad(head))
        BY <2>1, <3>2 DEF K!Make
      <4> QED BY <4>1, <4>2, Zenon
    <3> QED BY <3>1, <3>2
  <2>2. CASE K!Install \/ K!Kexec \/ K!LoadKexecKernel \/ K!UnloadKexecKernel \/ K!Exec \/ K!Uname \/ K!Reset
    BY <2>2 DEF K!Install, K!Kexec, K!LoadKexecKernel, K!UnloadKexecKernel, K!Exec, K!Uname, K!Reset, K!NoMark
  <2>3. CASE K!ExpectLogin
    BY <2>3 DEF K!ExpectLogin, K!Raises, K!BeginsBisection, K!NoMark, K!Warns, K!IsBad
  <2>4. CASE K!Judge
    BY <2>4 DEF K!Judge, K!NoMark, K!IsBad
  <2> QED BY <2>1, <2>2, <2>3, <2>4
<1>3. ASSUME NEW isGood \in BOOLEAN, NEW justly \in BOOLEAN, K!Judges(isGood, justly)
      PROVE  /\ kernelsPc' \in KernelPlaces /\ kernelsOutcome' \in {"none", "passed", "failed", "skipped"}
             /\ misjudged' \in BOOLEAN
  <2>1. K!Marks(isGood) /\ misjudged' \in BOOLEAN
    BY <1>3 DEF K!Judges, PlanType
  <2> QED BY <2>1, MarksGoes DEF PlanType, KernelPlaces, K!InUpdate, K!InTest
<1> QED BY <1>1, <1>2, <1>3 DEF K!Goes, K!Ends, PlanType, KernelPlaces

LEMMA MachineTypes ==
    ASSUME PlanType, UpdateType, BisectType, KernelShape, K!Machine
    PROVE  PlanType' /\ UpdateType' /\ BisectType' /\ KernelShape'
<1>1. UNCHANGED <<kernelsLeft, kernelsPc, kernelsKind, K!update, round, K!bisect, kernelsOutcome, missed, misjudged, ran>>
  BY DEF K!Machine
<1>2. unread' \in BOOLEAN
  BY DEF K!Machine, PlanType
<1>3. PlanType' /\ BisectType'
  BY <1>1, <1>2 DEF PlanType, BisectType, K!bisect
<1>4. UpdateType'
  BY <1>1 DEF UpdateType, K!update
<1>5. KernelShape'
  BY <1>1 DEF KernelShape, Comes, Asks, OneEach, K!update
<1> QED BY <1>3, <1>4, <1>5

KernelBase == PlanType /\ UpdateType /\ BisectType /\ KernelShape /\ SystemInv

LEMMA KernelBaseInit == K!Init => KernelBase
<1> SUFFICES ASSUME K!Init PROVE KernelBase
  OBVIOUS
<1> USE KernelsAssumption DEF K!Init
<1>1. kernelsLeft \in 0 .. KernelsLast
  OBVIOUS
<1>2. PlanType
  BY <1>1 DEF PlanType, KernelPlaces
<1>3. 0 \in 0 .. Len(Settings) + Iterations
  OBVIOUS
<1>4. UpdateType
  BY <1>3 DEF UpdateType
<1>5. BisectType
  BY DEF BisectType
<1>6. KernelShape
  BY DEF KernelShape, Comes, Asks, OneEach
<1>7. SystemInv
  BY DEF SystemInv, OneEach, K!Systems
<1> QED BY <1>2, <1>4, <1>5, <1>6, <1>7 DEF KernelBase

\* The steps that move the machine on behalf of goto_state().
LEMMA SystemGotos ==
    ASSUME SystemInv, K!Setup \/ K!GotoOFF \/ K!GotoOS
    PROVE  SystemInv' /\ UNCHANGED config /\ (running' = running \/ running' = K!Powered)
<1>1. UNCHANGED K!loader /\ (K!Reaches \/ K!Gives \/ K!GoesOff)
  BY DEF K!Setup, K!GotoOFF, K!GotoOS
<1> QED BY <1>1, SystemMoves DEF K!loader

LEMMA KernelBaseStep ==
    ASSUME KernelBase, K!Next PROVE KernelBase'
<1> USE DEF KernelBase
<1>1. CASE K!BeginTest
  BY <1>1, KernelBegins, BeginsTypes DEF K!BeginTest, K!system, K!loader, SystemInv, OneEach
<1>2. CASE K!Check \/ K!Change \/ K!RebootByCommand \/ K!WaitForSSH \/ K!GotoOFF \/ K!GotoOS \/ K!Recheck
  <2>1. PlanType' /\ UpdateType' /\ BisectType' /\ KernelShape'
    BY <1>2, UpdatesPlan, UpdatesTypes, KernelUpdates
  <2>2. SystemInv'
    <3>1. CASE K!Check \/ K!WaitForSSH \/ K!Recheck
      BY <3>1 DEF K!Check, K!WaitForSSH, K!Recheck, K!system, K!loader, SystemInv, OneEach
    <3>2. CASE K!Change
      BY <3>2, SystemChange DEF UpdateType, KernelShape
    <3>3. CASE K!RebootByCommand
      <4>1. kernelsKind \in AllKinds /\ head \in 1 .. Commits
        BY <3>3 DEF K!RebootByCommand, KernelShape, BisectType
      <4> QED BY <3>3, <4>1, SystemCommands
    <3>4. CASE K!GotoOFF \/ K!GotoOS
      BY <3>4, SystemGotos
    <3> QED BY <1>2, <3>1, <3>2, <3>3, <3>4
  <2> QED BY <2>1, <2>2
<1>3. CASE K!Setup \/ K!Verify \/ K!LoadLkdtm \/ K!TriggerCrash \/ K!Cleaned \/ K!Hotplug
  <2>1. PlanType' /\ UpdateType' /\ BisectType' /\ KernelShape'
    BY <1>3, FaultsTypes, KernelFaults
  <2>2. SystemInv'
    <3>1. CASE K!Setup
      BY <3>1, SystemGotos
    <3>2. CASE K!Verify \/ K!LoadLkdtm \/ K!Cleaned \/ K!Hotplug
      BY <3>2 DEF K!Verify, K!LoadLkdtm, K!Cleaned, K!Hotplug, K!system, K!loader, SystemInv, OneEach
    <3>3. CASE K!TriggerCrash
      <4>1. kernelsKind \in AllKinds /\ head \in 1 .. Commits
        BY <3>3 DEF K!TriggerCrash, KernelShape, BisectType
      <4> QED BY <3>3, <4>1, SystemCommands
    <3> QED BY <1>3, <3>1, <3>2, <3>3
  <2> QED BY <2>1, <2>2
<1>4. CASE K!Make \/ K!Install \/ K!Kexec \/ K!LoadKexecKernel \/ K!UnloadKexecKernel \/ K!Exec
           \/ K!ExpectLogin \/ K!Uname \/ K!Judge \/ K!Reset
  <2>1. PlanType' /\ UpdateType' /\ BisectType' /\ KernelShape'
    BY <1>4, BuildsPlan, KernelBuilds
  <2>2. SystemInv'
    <3>1. CASE K!ExpectLogin \/ K!Uname \/ K!Judge
      BY <3>1 DEF K!ExpectLogin, K!Uname, K!Judge, K!KeepsLoader, K!system, K!loader, SystemInv, OneEach
    <3>2. CASE K!Reset
      BY <3>2, SystemReset
    <3>3. CASE K!Make \/ K!Install \/ K!Kexec \/ K!LoadKexecKernel \/ K!UnloadKexecKernel \/ K!Exec
      <4>1. kernelsKind \in AllKinds /\ head \in 1 .. Commits
        BY <3>3 DEF K!Make, K!Install, K!Kexec, K!LoadKexecKernel, K!UnloadKexecKernel, K!Exec,
                    KernelShape, BisectType
      <4> QED BY <3>3, <4>1, SystemCommands
    <3> QED BY <1>4, <3>1, <3>2, <3>3
  <2> QED BY <2>1, <2>2
<1>5. CASE K!Machine
  BY <1>5, MachineTypes, SystemMachine
<1> QED BY <1>1, <1>2, <1>3, <1>4, <1>5 DEF K!Next, K!OpTest

-----------------------------------------------------------------------------
(* Kernels: the bisections                                                 *)

\* As long as no commit was judged by something else, the first bad one is between
\* the marks.  A search for a boot tries the last commit before it begins.
BisectInv ==
    kernelsPc # "idle" =>
        /\ kernelsKind \in {"build", "perf"} => named = 0
        /\ named # 0 => bad <= good + 1
        /\ kernelsKind \in K!Bisections /\ ~misjudged /\ named = 0 => good < culprit /\ culprit <= bad
        /\ kernelsKind = "boot" /\ round # 2 => head = Commits

BisectPasses ==
    kernelsKind \in K!Bisections /\ kernelsOutcome' = "passed" /\ kernelsOutcome' # kernelsOutcome
        => named' = culprit \/ misjudged'

\* A mark moves to a commit that was rightly judged.
LEMMA JudgesRight ==
    ASSUME BisectType, BisectInv, kernelsPc # "idle", kernelsKind \in K!Bisections,
           UNCHANGED <<kernelsKind, culprit>>, kernelsKind = "boot" => round = 2,
           NEW isGood \in BOOLEAN, NEW justly \in BOOLEAN, K!Judges(isGood, justly),
           justly => (isGood <=> head < culprit)
    PROVE  BisectInv' /\ BisectPasses
<1> USE DEF BisectType, BisectInv
<1>1. K!Marks(isGood) /\ misjudged' = (misjudged \/ ~justly) /\ UNCHANGED round
  BY DEF K!Judges
<1>2. good' \in 1 .. Commits /\ bad' \in 1 .. Commits /\ head' \in 1 .. Commits /\ named' \in 0 .. Commits
  BY <1>1, MarksGoes
<1>3. named # 0 => named' # 0
  BY <1>1 DEF K!Marks
<1>4. named' # 0 => bad' <= good' + 1
  BY <1>1, <1>2 DEF K!Marks
<1>5. ~misjudged' /\ named = 0 => good' < culprit /\ culprit <= bad'
  <2> SUFFICES ASSUME ~misjudged', named = 0 PROVE good' < culprit /\ culprit <= bad'
    OBVIOUS
  <2>1. good < culprit /\ culprit <= bad /\ (isGood <=> head < culprit)
    BY <1>1
  <2> QED BY <1>1, <2>1 DEF K!Marks
<1>6. BisectInv'
  <2>1. kernelsPc' # "idle" /\ kernelsKind \in {"build", "perf"} => named' = 0
    BY <1>1 DEF K!Marks, K!Ends, K!Goes
  <2> QED BY <1>1, <1>3, <1>4, <1>5, <2>1
<1>7. BisectPasses
  <2> SUFFICES ASSUME kernelsOutcome' = "passed", kernelsOutcome' # kernelsOutcome, ~misjudged'
               PROVE  named' = culprit
    BY DEF BisectPasses
  <2>1. named' # 0 /\ kernelsKind # "boot"
    BY <1>1, MarksGoes
  <2>2. named = 0
    BY <2>1 DEF K!Bisections
  <2>3. named' = bad' /\ bad' <= good' + 1 /\ good' < culprit /\ culprit <= bad'
    BY <1>1, <1>4, <1>5, <2>1, <2>2 DEF K!Marks
  <2>4. good' \in Nat /\ bad' \in Nat /\ culprit \in Nat
    BY <1>2
  <2> HIDE DEF BisectType, BisectInv
  <2>5. \A x, y, z \in Nat : x <= y + 1 /\ y < z /\ z <= x => z = x
    OBVIOUS
  <2>6. culprit = bad'
    BY <2>3, <2>4, <2>5
  <2> QED BY <2>3, <2>6
<1> QED BY <1>6, <1>7

\* The steps that leave the search alone.
LEMMA SearchKept ==
    ASSUME BisectInv, kernelsPc # "idle", UNCHANGED <<kernelsKind, K!bisect>>,
           UNCHANGED misjudged, kernelsKind = "boot" => UNCHANGED round
    PROVE  BisectInv'
BY DEF BisectInv, K!bisect

LEMMA SearchStep ==
    ASSUME KernelBase, BisectInv, K!Next
    PROVE  BisectInv' /\ BisectPasses
<1> USE KernelsAssumption DEF KernelBase
<1>1. CASE K!BeginTest
  <2>1. /\ named' = 0 /\ good' = 1 /\ bad' = Commits /\ culprit' \in 2 .. Commits /\ kernelsOutcome' = "none"
        /\ kernelsKind' = "boot" => head' = Commits
    BY <1>1 DEF K!BeginTest
  <2> QED BY <2>1 DEF BisectInv, BisectPasses
<1>2. CASE K!Machine
  <2>1. UNCHANGED <<kernelsPc, kernelsKind, K!bisect, misjudged, round, kernelsOutcome>>
    BY <1>2 DEF K!Machine
  <2> QED BY <2>1 DEF BisectInv, BisectPasses, K!bisect
<1>3. CASE K!Check \/ K!Change \/ K!RebootByCommand \/ K!WaitForSSH \/ K!GotoOFF \/ K!GotoOS \/ K!Recheck
  <2>1. kernelsPc # "idle" /\ UNCHANGED <<kernelsKind, K!bisect, misjudged, round>>
    BY <1>3 DEF K!Check, K!Change, K!RebootByCommand, K!WaitForSSH, K!GotoOFF, K!GotoOS, K!Recheck, K!KeepsTest
  <2>2. CASE kernelsKind \in {"arg", "kuap", "hotplug"}
    BY <2>1, <2>2, SearchKept DEF BisectPasses, K!Bisections
  <2>3. CASE kernelsKind \notin {"arg", "kuap", "hotplug"}
    <3>1. K!GotoOFF \/ K!GotoOS
      BY <1>3, <2>3 DEF K!Check, K!Change, K!RebootByCommand, K!WaitForSSH, K!Recheck, KernelShape, Comes
    <3>2. UNCHANGED kernelsOutcome \/ kernelsOutcome' = "failed"
      BY <2>3, <3>1 DEF K!GotoOFF, K!GotoOS, K!Goes, K!Ends, K!Returns
    <3> QED BY <2>1, <3>2, SearchKept DEF BisectPasses
  <2> QED BY <2>2, <2>3
<1>4. CASE K!Setup \/ K!Verify \/ K!LoadLkdtm \/ K!TriggerCrash \/ K!Cleaned \/ K!Hotplug
  <2>1. kernelsPc # "idle" /\ UNCHANGED <<kernelsKind, K!bisect, misjudged>>
    BY <1>4 DEF K!Setup, K!Verify, K!LoadLkdtm, K!TriggerCrash, K!Cleaned, K!Hotplug, K!KeepsUpdate, K!history
  <2>2. kernelsKind \notin K!Bisections
    BY <1>4 DEF K!Setup, K!Verify, K!LoadLkdtm, K!TriggerCrash, K!Cleaned, K!Hotplug, KernelShape, Comes, K!Bisections
  <2> QED BY <2>1, <2>2, SearchKept DEF BisectPasses, K!Bisections
<1>5. ASSUME kernelsPc # "idle", UNCHANGED <<kernelsKind, culprit>>, K!NoMark,
             kernelsKind \notin K!Bisections \/ UNCHANGED kernelsOutcome \/ kernelsOutcome' # "passed"
      PROVE  BisectInv' /\ BisectPasses
  BY <1>5, SearchKept DEF K!NoMark, K!bisect, BisectPasses
<1>6. ASSUME kernelsPc # "idle", UNCHANGED <<kernelsKind, culprit>>, K!BeginsBisection, kernelsKind = "boot"
      PROVE  BisectInv' /\ BisectPasses
  BY <1>6 DEF K!BeginsBisection, K!Goes, BisectInv, BisectPasses
<1>7. CASE K!Make \/ K!Install \/ K!Kexec \/ K!LoadKexecKernel \/ K!UnloadKexecKernel \/ K!Exec
           \/ K!ExpectLogin \/ K!Uname \/ K!Judge \/ K!Reset
  <2>1. kernelsPc # "idle" /\ UNCHANGED <<kernelsKind, culprit>>
    BY <1>7 DEF K!Make, K!Install, K!Kexec, K!LoadKexecKernel, K!UnloadKexecKernel, K!Exec, K!ExpectLogin,
                K!Uname, K!Judge, K!Reset, K!KeepsArgs
  <2>2. head \in 1 .. Commits /\ culprit \in 2 .. Commits /\ running.kernel \in 0 .. Commits
    BY DEF BisectType, SystemInv, K!Systems
  <2>3. CASE K!Install \/ K!Kexec \/ K!LoadKexecKernel \/ K!UnloadKexecKernel \/ K!Exec \/ K!Uname
    <3>1. K!NoMark
      BY <2>3 DEF K!Install, K!Kexec, K!LoadKexecKernel, K!UnloadKexecKernel, K!Exec, K!Uname
    <3>2. kernelsKind \notin K!Bisections \/ UNCHANGED kernelsOutcome \/ kernelsOutcome' # "passed"
      BY <2>3 DEF K!Install, K!Kexec, K!LoadKexecKernel, K!UnloadKexecKernel, K!Exec, K!Uname,
                  K!Goes, K!Ends, KernelShape, Comes, K!Bisections
    <3> QED BY <1>5, <2>1, <3>1, <3>2
  <2>4. CASE K!Reset
    <3>1. kernelsKind \notin K!Bisections /\ UNCHANGED <<good, bad, head, named, misjudged>>
      BY <2>4 DEF K!Reset, K!Bisections
    <3> QED BY <2>1, <3>1, SearchKept DEF K!bisect, BisectPasses, K!Bisections
  <2>5. CASE K!Make
    <3>1. (K!IsBad(head) <=> ~(head < culprit)) /\ K!IsBad(head) \in BOOLEAN
      BY <2>2 DEF K!IsBad
    <3>2. CASE kernelsKind = "build" /\ K!Builds /\ K!Judges(TRUE, TRUE)
      BY <2>1, <3>1, <3>2, JudgesRight DEF K!Builds, K!Bisections
    <3>3. CASE kernelsKind = "build" /\ K!Judges(FALSE, K!IsBad(head))
      BY <2>1, <3>1, <3>3, JudgesRight DEF K!Bisections
    <3>4. CASE kernelsKind = "boot" /\ K!Bisecting /\ K!Judges(TRUE, ~K!IsBad(head))
      BY <2>1, <3>1, <3>4, JudgesRight DEF K!Bisections, K!Bisecting
    <3>5. CASE K!NoMark /\ ((\E to : K!Goes(to)) \/ K!Ends("failed"))
      BY <1>5, <2>1, <3>5 DEF K!Goes, K!Ends
    <3> QED BY <2>5, <3>2, <3>3, <3>4, <3>5 DEF K!Make
  <2>6. CASE K!ExpectLogin
    <3>1. K!Warns <=> ~(running.kernel < culprit)
      BY <2>2 DEF K!Warns, K!IsBad
    <3>2. CASE K!NoMark /\ ((\E to : K!Goes(to)) \/ K!Ends("failed"))
      BY <1>5, <2>1, <3>2 DEF K!Goes, K!Ends
    <3>3. CASE kernelsKind = "boot" /\ K!Bisecting /\ K!Judges(~K!Warns, running.kernel = head)
      <4>1. (~K!Warns) \in BOOLEAN /\ (running.kernel = head) \in BOOLEAN
        BY DEF K!Warns, K!IsBad
      <4>2. running.kernel = head => (~K!Warns <=> head < culprit)
        BY <3>1
      <4> QED BY <2>1, <3>3, <4>1, <4>2, JudgesRight DEF K!Bisections, K!Bisecting
    <3>4. CASE kernelsKind = "boot" /\ K!BeginsBisection
      BY <1>6, <2>1, <3>4
    <3>5. CASE kernelsKind = "boot" /\ ~K!Bisecting /\ ~K!Warns /\ K!Ends("passed")
               /\ misjudged' = (running.kernel # head) /\ UNCHANGED <<round, good, bad, head, named>>
      <4>1. head = Commits
        BY <2>1, <3>5 DEF K!Bisecting, BisectInv
      <4>2. running.kernel # head
        BY <2>2, <3>1, <3>5, <4>1
      <4> QED BY <3>5, <4>2 DEF K!Ends, BisectInv, BisectPasses
    <3> QED BY <2>6, <3>2, <3>3, <3>4, <3>5 DEF K!ExpectLogin, K!Raises, K!Bisecting
  <2>7. CASE K!Judge
    <3>1. kernelsKind = "perf"
      BY <2>7 DEF K!Judge, KernelShape, Comes
    <3>2. CASE K!Ends("failed") /\ K!NoMark
      BY <1>5, <2>1, <3>2 DEF K!Ends
    <3>3. ASSUME NEW isGood \in IF running.kernel = 0 THEN BOOLEAN ELSE {~K!IsBad(running.kernel)},
                 K!Judges(isGood, running.kernel = head)
          PROVE  BisectInv' /\ BisectPasses
      <4>1. isGood \in BOOLEAN /\ (running.kernel = head) \in BOOLEAN
        BY DEF K!IsBad
      <4>2. running.kernel = head => isGood = ~K!IsBad(head)
        BY <2>2
      <4>3. running.kernel = head => (isGood <=> head < culprit)
        <5> SUFFICES ASSUME running.kernel = head PROVE isGood <=> head < culprit
          OBVIOUS
        <5>1. isGood <=> ~(head >= culprit)
          BY <4>1, <4>2 DEF K!IsBad
        <5> QED BY <2>2, <5>1
      <4> QED BY <2>1, <3>1, <3>3, <4>1, <4>3, JudgesRight DEF K!Bisections
    <3> QED BY <2>7, <3>2, <3>3 DEF K!Judge
  <2> QED BY <1>7, <2>3, <2>4, <2>5, <2>6, <2>7
<1> QED BY <1>1, <1>2, <1>3, <1>4, <1>7 DEF K!Next, K!OpTest

-----------------------------------------------------------------------------
(* Kernels: the arguments on the command line                              *)

Updates == K!Check \/ K!Change \/ K!RebootByCommand \/ K!WaitForSSH \/ K!GotoOFF \/ K!GotoOS \/ K!Recheck
Faults == K!Setup \/ K!Verify \/ K!LoadLkdtm \/ K!TriggerCrash \/ K!Cleaned \/ K!Hotplug
Builds == K!Make \/ K!Install \/ K!Kexec \/ K!LoadKexecKernel \/ K!UnloadKexecKernel \/ K!Exec
          \/ K!ExpectLogin \/ K!Uname \/ K!Judge \/ K!Reset

\* What is needed is what the command line lacks, until the machine reboots.
LookedInv == kernelsPc = "change" /\ ~unread => need = K!Lacking

\* OpTestKuepKuap: the argument was there when the fault was made, and after the
\* update that removes it the boot loader has it no longer.
FaultedInv ==
    kernelsKind = "kuap" /\ kernelsPc # "idle" /\ ~unread =>
        /\ kernelsPc \in {"lkdtm", "crash"} => a \in running.args
        /\ stage # "add" =>
              /\ a \in ran.args
              /\ kernelsPc \in {"check", "change"} /\ a \in config => a \in running.args
              /\ kernelsPc \notin {"check", "change"} => a \notin config

\* Of the settings, the system that runs has what it was booted with.
Booted == running.args \cap K!Setting = config \cap K!Setting

\* DlparMemHotplug: the boot loader has the setting of the round, or none after
\* the last.
PluggedInv ==
    kernelsKind = "hotplug" /\ kernelsPc # "idle" /\ ~unread /\ ~missed =>
        /\ stage = "add" /\ kernelsPc \in {"check", "change"} /\ round > 1 =>
              Settings[round - 1] \in running.args \/ Booted
        /\ kernelsPc = "hotplug" \/ (stage = "remove" /\ kernelsPc \in {"check", "change"}) =>
              /\ Settings[round] \in running.args \/ Booted
              /\ round > 1 \/ Len(Settings) = 1 => config \cap K!Setting \subseteq {Settings[round]}
        /\ kernelsPc \in {"restart", "ssh", "recheck"} =>
              config \cap K!Setting \subseteq (IF stage = "add" THEN {Settings[round]} ELSE {})

ArgsInv == LookedInv /\ FaultedInv /\ PluggedInv

ArgsPass ==
    kernelsOutcome' = "passed" /\ kernelsOutcome' # kernelsOutcome /\ ~unread' =>
        /\ kernelsKind = "arg" => K!Lacking = {}
        /\ kernelsKind = "kuap" => a \in ran.args /\ a \notin config'
        /\ kernelsKind = "hotplug" /\ ~missed' => config' \cap K!Setting = {}

LEMMA Nexts == K!Next <=> K!BeginTest \/ Updates \/ Faults \/ Builds \/ K!Machine
BY DEF K!Next, K!OpTest, Updates, Faults, Builds

LEMMA UpdatesKeep ==
    ASSUME Updates
    PROVE  /\ kernelsPc \in {"check", "change", "restart", "ssh", "off", "on", "recheck"}
           /\ UNCHANGED <<kernelsKind, stage, byCommand, add, remove, round, ran>>
BY DEF Updates, K!Check, K!Change, K!RebootByCommand, K!WaitForSSH, K!GotoOFF, K!GotoOS, K!Recheck, K!KeepsTest

\* The other tests have no arguments.
LEMMA BuildsKeep ==
    ASSUME KernelShape, Builds
    PROVE  kernelsKind \notin {"arg", "kuap", "hotplug"} /\ UNCHANGED kernelsKind
BY DEF Builds, K!Make, K!Install, K!Kexec, K!LoadKexecKernel, K!UnloadKexecKernel, K!Exec, K!ExpectLogin,
       K!Uname, K!Judge, K!Reset, K!KeepsArgs, KernelShape, Comes

\* What update_kernel_cmdline() returns decides how each test goes on.
LEMMA ReturnsAnswer ==
    ASSUME KernelShape, kernelsPc # "idle", NEW answer, K!Returns(answer)
    PROVE  /\ missed' = (missed \/ answer # "True")
           /\ kernelsPc' \in {"idle", "verify", "cleaned", "hotplug"}
           /\ kernelsKind = "arg" =>
                 kernelsPc' = "idle" /\ (kernelsOutcome' = "passed" => answer = "True")
           /\ kernelsKind = "kuap" =>
                 \/ kernelsPc' = "idle" /\ kernelsOutcome' = "failed"
                 \/ /\ answer = "True" /\ UNCHANGED kernelsOutcome
                    /\ \/ stage = "add" /\ kernelsPc' = "verify"
                       \/ stage = "remove" /\ kernelsPc' = "cleaned"
           /\ kernelsKind = "hotplug" =>
                 \/ kernelsPc' = "idle" /\ kernelsOutcome' = "failed"
                 \/ stage = "add" /\ kernelsPc' = "hotplug" /\ UNCHANGED kernelsOutcome
                 \/ stage = "remove" /\ kernelsPc' = "idle"
<1> USE DEF K!Returns, K!Goes, K!Ends
<1>1. CASE kernelsKind = "arg" /\ K!KernelArg(answer)
  BY <1>1 DEF K!KernelArg
<1>2. CASE kernelsKind = "kuap" /\ K!KuepKuap(answer)
  BY <1>2 DEF K!KuepKuap, KernelShape, Asks
<1>3. CASE kernelsKind = "hotplug" /\ K!DlparMemHotplug(answer)
  BY <1>3 DEF K!DlparMemHotplug, KernelShape, Asks
<1> QED BY <1>1, <1>2, <1>3

LEMMA LookedStep ==
    ASSUME KernelBase, LookedInv, K!Next PROVE LookedInv'
<1> USE DEF KernelBase
<1>1. CASE K!BeginTest
  <2>1. kernelsPc' # "change"
    BY <1>1 DEF K!BeginTest
  <2> QED BY <2>1 DEF LookedInv
<1>2. CASE Updates
  <2>1. CASE K!Check
    <3>1. UNCHANGED <<add, remove, running>>
      BY <2>1 DEF K!Check, K!KeepsTest, K!system
    <3>2. CASE need' = K!Lacking
      BY <3>1, <3>2 DEF LookedInv, K!Lacking
    <3>3. CASE unread' = TRUE
      BY <3>3 DEF LookedInv
    <3>4. CASE K!Returns("raised")
      <4>1. kernelsPc' # "change"
        BY <2>1, <3>4, ReturnsAnswer DEF K!Check
      <4> QED BY <4>1 DEF LookedInv
    <3> QED BY <2>1, <3>2, <3>3, <3>4 DEF K!Check
  <2>2. CASE ~K!Check
    <3>1. \/ \E answer : K!Returns(answer)
          \/ K!Ends("failed")
          \/ \E to \in {"restart", "ssh", "off", "on", "recheck", "make"} : K!Goes(to)
      BY <1>2, <2>2 DEF Updates, K!Change, K!RebootByCommand, K!WaitForSSH, K!GotoOFF, K!GotoOS, K!Recheck
    <3>2. kernelsPc' # "change"
      BY <1>2, <3>1, UpdatesKeep, ReturnsAnswer DEF K!Goes, K!Ends
    <3> QED BY <3>2 DEF LookedInv
  <2> QED BY <2>1, <2>2
<1>3. CASE Faults
  <2>1. kernelsPc' # "change"
    BY <1>3 DEF Faults, K!Setup, K!Verify, K!LoadLkdtm, K!TriggerCrash, K!Cleaned, K!Hotplug, K!Goes, K!Ends,
                KernelShape, Comes
  <2> QED BY <2>1 DEF LookedInv
<1>4. CASE Builds
  <2>1. KernelShape' /\ kernelsKind' \notin {"arg", "kuap", "hotplug"}
    BY <1>4, BuildsKeep, KernelBuilds DEF Builds
  <2> QED BY <2>1 DEF KernelShape, Comes, LookedInv
<1>5. CASE K!Machine
  <2>1. UNCHANGED <<kernelsPc, add, remove, need>>
    BY <1>5 DEF K!Machine, K!update
  <2>2. (UNCHANGED <<running, unread>>) \/ (kernelsPc = "change" => unread' = TRUE)
    BY <1>5 DEF K!Machine, PlanType
  <2> QED BY <2>1, <2>2 DEF LookedInv, K!Lacking
<1> QED BY <1>1, <1>2, <1>3, <1>4, <1>5, Nexts

\* Where a test of the three other kinds passes.
LEMMA ArgPasses ==
    ASSUME KernelBase, LookedInv, K!Next, kernelsKind = "arg",
           kernelsOutcome' = "passed", kernelsOutcome' # kernelsOutcome, ~unread'
    PROVE  K!Lacking = {}
<1> USE DEF KernelBase
<1>1. CASE K!BeginTest
  BY <1>1 DEF K!BeginTest
<1>2. CASE Updates
  <2>1. ASSUME NEW answer, K!Returns(answer) PROVE answer = "True"
    BY <1>2, <2>1, UpdatesKeep, ReturnsAnswer
  <2>2. K!Change \/ K!Recheck
    BY <1>2, <2>1 DEF Updates, K!Check, K!RebootByCommand, K!WaitForSSH, K!GotoOFF, K!GotoOS, K!Goes, K!InstallsFirst
  <2>3. CASE K!Change
    <3>1. need = {} /\ UNCHANGED unread
      BY <2>1, <2>3 DEF K!Change, K!Goes
    <3> QED BY <2>3, <3>1 DEF K!Change, LookedInv
  <2>4. CASE K!Recheck
    BY <2>1, <2>4 DEF K!Recheck
  <2> QED BY <2>2, <2>3, <2>4
<1>3. CASE Faults
  <2>1. kernelsKind # "arg"
    BY <1>3 DEF Faults, K!Setup, K!Verify, K!LoadLkdtm, K!TriggerCrash, K!Cleaned, K!Hotplug, KernelShape, Comes
  <2> QED BY <2>1
<1>4. CASE Builds
  BY <1>4, BuildsKeep
<1>5. CASE K!Machine
  BY <1>5 DEF K!Machine
<1> QED BY <1>1, <1>2, <1>3, <1>4, <1>5, Nexts

LEMMA FaultedStep ==
    ASSUME KernelBase, LookedInv, FaultedInv, K!Next
    PROVE  /\ FaultedInv'
           /\ kernelsKind = "kuap" /\ kernelsOutcome' = "passed" /\ kernelsOutcome' # kernelsOutcome /\ ~unread'
                => a \in ran.args /\ a \notin config'
<1> DEFINE Passed == kernelsOutcome' = "passed" /\ kernelsOutcome' # kernelsOutcome
<1> USE DEF KernelBase
<1>1. CASE K!BeginTest
  <2>1. kernelsOutcome' = "none" /\ (kernelsKind' = "kuap" => kernelsPc' = "setup" /\ stage' = "add")
    BY <1>1 DEF K!BeginTest, K!Wants
  <2> QED BY <2>1 DEF FaultedInv
<1>2. ASSUME kernelsKind # "kuap", UNCHANGED kernelsKind PROVE FaultedInv'
  BY <1>2 DEF FaultedInv
<1>3. CASE Updates
  <2>1. kernelsPc # "idle" /\ UNCHANGED <<kernelsKind, stage, add, remove, ran>>
    BY <1>3, UpdatesKeep
  <2>2. CASE kernelsKind # "kuap"
    BY <1>2, <2>1, <2>2
  <2>3. CASE kernelsKind = "kuap"
    <3>1. stage \in {"remove", "undo"} => add = {} /\ remove = {a}
      BY <2>1, <2>3 DEF KernelShape, Asks
    <3>2. stage \in {"add", "remove", "undo"}
      BY DEF UpdateType
    <3>3. \/ kernelsPc' = "idle" /\ kernelsOutcome' = "failed"
          \/ UNCHANGED kernelsOutcome /\ kernelsPc' \notin {"lkdtm", "crash"}
      <4>1. \/ \E answer : K!Returns(answer)
            \/ K!Ends("failed")
            \/ \E to \in {"change", "restart", "ssh", "off", "on", "recheck", "make"} : K!Goes(to)
        BY <1>3 DEF Updates, K!Check, K!Change, K!RebootByCommand, K!WaitForSSH, K!GotoOFF, K!GotoOS, K!Recheck
      <4> QED BY <2>1, <2>3, <4>1, ReturnsAnswer DEF K!Goes, K!Ends
    <3>4. ASSUME stage # "add", kernelsPc' # "idle", ~unread', ~unread
          PROVE  /\ kernelsPc' \in {"check", "change"} /\ a \in config' => a \in running'.args
                 /\ kernelsPc' \notin {"check", "change"} => a \notin config'
      <4> USE DEF FaultedInv
      <4>1. CASE K!Check
        <5>1. UNCHANGED <<running, config>>
          BY <4>1 DEF K!Check, K!system, K!loader
        <5>2. kernelsPc' \in {"check", "change"} \/ K!Returns("raised")
          BY <4>1 DEF K!Check, K!Goes
        <5>3. kernelsPc' \in {"check", "change"}
          BY <2>1, <2>3, <3>4, <5>2, ReturnsAnswer
        <5> QED BY <2>3, <3>4, <4>1, <5>1, <5>3 DEF K!Check
      <4>2. CASE K!Change
        <5>1. kernelsPc' \notin {"check", "change"}
          <6>1. (\E answer : K!Returns(answer)) \/ (\E to \in {"restart", "off"} : K!Goes(to))
            BY <4>2 DEF K!Change
          <6> QED BY <2>1, <6>1, ReturnsAnswer DEF K!Goes
        <5>2. config' = K!Changed
          <6>1. ASSUME NEW answer \in {"False", "raised"}, K!Returns(answer) PROVE FALSE
            BY <2>1, <2>3, <3>4, <6>1, ReturnsAnswer
          <6> QED BY <4>2, <6>1 DEF K!Change
        <5>3. need = K!Lacking /\ (a \in config => a \in running.args)
          BY <2>3, <3>4, <4>2 DEF K!Change, LookedInv
        <5>4. a \notin K!Changed
          BY <3>1, <3>2, <3>4, <5>3 DEF K!Changed, K!Lacking
        <5> QED BY <5>1, <5>2, <5>4
      <4>3. CASE ~K!Check /\ ~K!Change
        <5>1. UNCHANGED config /\ kernelsPc \notin {"check", "change"}
          BY <1>3, <4>3 DEF Updates, K!RebootByCommand, K!WaitForSSH, K!GotoOFF, K!GotoOS, K!Recheck, K!loader
        <5>2. kernelsPc' \notin {"check", "change"}
          <6>1. \/ \E answer : K!Returns(answer)
                \/ K!Ends("failed")
                \/ \E to \in {"restart", "ssh", "off", "on", "recheck", "make"} : K!Goes(to)
            BY <1>3, <4>3 DEF Updates, K!RebootByCommand, K!WaitForSSH, K!GotoOFF, K!GotoOS, K!Recheck
          <6> QED BY <2>1, <6>1, ReturnsAnswer DEF K!Goes, K!Ends
        <5> QED BY <2>1, <2>3, <3>4, <5>1, <5>2
      <4> QED BY <4>1, <4>2, <4>3
    <3>5. unread => unread'
      BY <1>3 DEF Updates, K!Check, K!Change, K!RebootByCommand, K!WaitForSSH, K!GotoOFF, K!GotoOS, K!Recheck
    <3>6. FaultedInv'
      BY <2>1, <3>3, <3>4, <3>5 DEF FaultedInv
    <3> QED BY <3>3, <3>6
  <2> QED BY <2>2, <2>3
<1>4. CASE Faults
  <2>1. CASE kernelsKind # "kuap"
    <3>1. UNCHANGED kernelsKind
      BY <1>4 DEF Faults, K!Setup, K!Verify, K!LoadLkdtm, K!TriggerCrash, K!Cleaned, K!Hotplug, K!KeepsUpdate
    <3> QED BY <1>2, <2>1, <3>1
  <2>2. CASE kernelsKind = "kuap"
    <3> USE DEF FaultedInv
    <3>1. CASE K!Setup
      <4>1. stage = "add" /\ UNCHANGED stage
        BY <2>2, <3>1 DEF K!Setup, K!update, KernelShape, Asks
      <4>2. kernelsPc' \in {"idle", "check"} /\ ~Passed
        BY <2>2, <3>1 DEF K!Setup, K!Goes, K!Ends
      <4> QED BY <4>1, <4>2
    <3>2. CASE K!Verify
      <4>1. stage = "add" /\ UNCHANGED <<stage, running>>
        BY <2>2, <3>2 DEF K!Verify, K!KeepsUpdate, K!update, K!system, KernelShape, Asks
      <4> QED BY <3>2, <4>1 DEF K!Verify, K!Goes, K!Ends
    <3>3. CASE K!LoadLkdtm
      <4>1. stage = "add" /\ UNCHANGED <<stage, running, unread>>
        BY <2>2, <3>3 DEF K!LoadLkdtm, K!KeepsUpdate, K!update, K!system, K!history, KernelShape, Asks
      <4> QED BY <2>2, <3>3, <4>1 DEF K!LoadLkdtm, K!Goes, K!Ends
    <3>4. CASE K!TriggerCrash
      <4>1. /\ kernelsPc' = "check" /\ UNCHANGED <<running, config, kernelsOutcome>> /\ ran' = running
            /\ ~unread' => ~unread
        BY <3>4 DEF K!TriggerCrash, K!Goes, K!loader
      <4>2. ~unread => a \in running.args
        BY <2>2, <3>4 DEF K!TriggerCrash
      <4> QED BY <4>1, <4>2
    <3>5. CASE K!Cleaned
      <4>1. kernelsPc' = "idle" /\ UNCHANGED config /\ (unread' = TRUE \/ UNCHANGED unread)
        BY <3>5 DEF K!Cleaned, K!Ends, K!loader
      <4>2. stage = "remove" /\ kernelsPc = "cleaned"
        BY <2>2, <3>5 DEF K!Cleaned, KernelShape, Asks
      <4> QED BY <2>2, <4>1, <4>2
    <3>6. CASE K!Hotplug
      BY <2>2, <3>6 DEF K!Hotplug, KernelShape, Comes
    <3> QED BY <1>4, <3>1, <3>2, <3>3, <3>4, <3>5, <3>6 DEF Faults
  <2> QED BY <2>1, <2>2
<1>5. CASE Builds
  BY <1>2, <1>5, BuildsKeep
<1>6. CASE K!Machine
  <2>1. UNCHANGED <<kernelsPc, kernelsKind, stage, ran, config, kernelsOutcome>>
    BY <1>6 DEF K!Machine, K!update, K!loader
  <2>2. UNCHANGED <<running, unread>> \/ (K!ComesUp /\ unread' = (unread \/ kernelsPc \in {"change", "lkdtm", "crash"}))
    BY <1>6 DEF K!Machine
  <2>3. running' = running \/ running'.args = running.args \/ running'.args = config
    BY <1>6, SystemMachine DEF K!Powered
  <2> QED BY <2>1, <2>2, <2>3 DEF FaultedInv
<1> QED BY <1>1, <1>3, <1>4, <1>5, <1>6, Nexts

\* The settings are different ones.
LEMMA OtherSetting ==
    ASSUME round \in 1 .. Len(Settings), round > 1 PROVE Settings[round - 1] # Settings[round] /\ Settings[round - 1] \in K!Setting
<1>1. round - 1 \in 1 .. Len(Settings) /\ round - 1 # round
  BY KernelsAssumption
<1> QED BY <1>1, KernelsAssumption, SettingsAreArgs

LEMMA PluggedStep ==
    ASSUME KernelBase, LookedInv, PluggedInv, K!Next
    PROVE  /\ PluggedInv'
           /\ kernelsKind = "hotplug" /\ kernelsOutcome' = "passed" /\ kernelsOutcome' # kernelsOutcome
              /\ ~unread' /\ ~missed' => config' \cap K!Setting = {}
<1> USE DEF KernelBase
<1>1. CASE K!BeginTest
  <2>1. kernelsOutcome' = "none" /\ (kernelsKind' = "hotplug" => kernelsPc' = "check" /\ stage' = "add" /\ round' = 1)
    BY <1>1 DEF K!BeginTest, K!Wants
  <2> QED BY <2>1 DEF PluggedInv
<1>2. ASSUME kernelsKind # "hotplug", UNCHANGED kernelsKind PROVE PluggedInv'
  BY <1>2 DEF PluggedInv
<1>3. CASE Updates
  <2>1. kernelsPc # "idle" /\ UNCHANGED <<kernelsKind, stage, add, remove, round>>
    BY <1>3, UpdatesKeep
  <2>2. CASE kernelsKind # "hotplug"
    BY <1>2, <2>1, <2>2
  <2>3. CASE kernelsKind = "hotplug" /\ (unread' \/ missed')
    BY <2>3 DEF PluggedInv
  <2>4. CASE kernelsKind = "hotplug" /\ ~unread' /\ ~missed'
    <3> DEFINE s == Settings[round]
               Passed == kernelsOutcome' = "passed" /\ kernelsOutcome' # kernelsOutcome
    <3>1. /\ byCommand /\ round \in 1 .. Len(Settings) /\ s \in K!Setting
          /\ \/ stage = "add" /\ add = {s} /\ remove = {}
             \/ stage = "remove" /\ add = {} /\ remove = {s} /\ round = Len(Settings)
      BY <2>1, <2>4, SettingsAreArgs DEF KernelShape, Asks
    <3>2. ~unread /\ ~missed
      <4>1. ASSUME NEW answer, K!Returns(answer) PROVE ~missed
        BY <2>1, <2>4, <4>1, ReturnsAnswer
      <4> QED
        BY <1>3, <2>4, <4>1 DEF Updates, K!Check, K!Change, K!RebootByCommand, K!WaitForSSH, K!GotoOFF, K!GotoOS, K!Recheck
    <3>3. ASSUME NEW answer, K!Returns(answer)
          PROVE  /\ answer = "True"
                 /\ \/ stage = "add" /\ kernelsPc' = "hotplug" /\ ~Passed
                    \/ kernelsPc' = "idle" /\ ~Passed
                    \/ stage = "remove" /\ kernelsPc' = "idle"
      BY <2>1, <2>4, <3>3, ReturnsAnswer
    <3>4. CASE K!Check
      <4>1. UNCHANGED <<running, config>> /\ kernelsPc' = "change" /\ ~Passed /\ kernelsPc = "check"
        BY <3>3, <3>4 DEF K!Check, K!system, K!loader, K!Goes
      <4> QED BY <2>1, <2>4, <3>2, <4>1 DEF PluggedInv, Booted
    <3>5. CASE K!Change
      <4>1. /\ config' = K!Changed /\ UNCHANGED running
            /\ need = {} => K!Returns("True")
            /\ need # {} => kernelsPc' = "restart" /\ UNCHANGED kernelsOutcome
        BY <3>1, <3>3, <3>5 DEF K!Change, K!Goes, K!system
      <4>2. need = K!Lacking /\ kernelsPc = "change"
        BY <3>2, <3>5 DEF K!Change, LookedInv
      <4>3. OneEach(config) /\ OneEach(running.args)
        BY DEF SystemInv
      <4>4. CASE stage = "add"
        <5>1. add = {s} /\ remove = {}
          BY <3>1, <4>4
        <5>2. CASE need # {}
          <6>1. need = {s}
            BY <4>2, <5>1, <5>2 DEF K!Lacking
          <6>2. K!Changed \cap K!Setting \subseteq {s}
            BY <3>1, <5>1, <6>1 DEF K!Changed, K!SameKey
          <6> QED BY <2>1, <4>1, <4>4, <5>2, <6>2 DEF PluggedInv
        <5>3. CASE need = {}
          <6>1. s \in running.args /\ config' = config
            BY <4>1, <4>2, <5>1, <5>3 DEF K!Lacking, K!Changed
          <6>2. round > 1 => config \cap K!Setting \subseteq {s}
            <7> SUFFICES ASSUME round > 1 PROVE config \cap K!Setting \subseteq {s}
              OBVIOUS
            <7>1. Booted
              BY <2>4, <3>1, <3>2, <4>2, <4>3, <4>4, <6>1, OtherSetting DEF PluggedInv, OneEach
            <7> QED BY <3>1, <4>3, <6>1, <7>1 DEF Booted, OneEach
          <6>3. Len(Settings) = 1 => config \cap K!Setting \subseteq {s}
            BY <3>1 DEF K!Setting
          <6> QED BY <2>1, <3>3, <4>1, <4>4, <5>3, <6>1, <6>2, <6>3 DEF PluggedInv
        <5> QED BY <5>2, <5>3
      <4>5. CASE stage = "remove"
        <5>1. add = {} /\ remove = {s}
          BY <3>1, <4>5
        <5>2. (s \in running.args \/ Booted) /\ config \cap K!Setting \subseteq {s}
          <6>1. round > 1 \/ Len(Settings) = 1
            BY <3>1, <4>5
          <6> QED BY <2>1, <2>4, <3>2, <4>2, <4>5, <6>1 DEF PluggedInv
        <5>3. config' \cap K!Setting = {}
          BY <3>1, <4>1, <4>2, <4>3, <5>1, <5>2 DEF K!Lacking, K!Changed, Booted
        <5> QED BY <2>1, <3>3, <4>1, <4>5, <5>3 DEF PluggedInv
      <4> QED BY <3>1, <4>4, <4>5
    <3>6. CASE K!RebootByCommand \/ K!WaitForSSH
      <4>1. UNCHANGED config /\ kernelsPc' \in {"ssh", "recheck"} /\ ~Passed /\ kernelsPc \in {"restart", "ssh"}
        BY <3>3, <3>6 DEF K!RebootByCommand, K!WaitForSSH, K!loader, K!Goes
      <4> QED BY <2>1, <2>4, <3>2, <4>1 DEF PluggedInv
    <3>7. CASE K!GotoOFF \/ K!GotoOS
      BY <2>4, <3>7 DEF K!GotoOFF, K!GotoOS, KernelShape, Comes
    <3>8. CASE K!Recheck
      <4>1. UNCHANGED <<config, running>> /\ K!Lacking = {} /\ K!Returns("True") /\ kernelsPc = "recheck"
        BY <2>4, <3>3, <3>8 DEF K!Recheck, K!loader, K!system
      <4>2. CASE stage = "add"
        <5>1. s \in running.args /\ config \cap K!Setting \subseteq {s}
          BY <2>1, <2>4, <3>1, <3>2, <4>1, <4>2 DEF PluggedInv, K!Lacking
        <5> QED BY <2>1, <3>3, <4>1, <4>2, <5>1 DEF PluggedInv
      <4>3. CASE stage = "remove"
        <5>1. config \cap K!Setting = {}
          BY <2>1, <2>4, <3>2, <4>1, <4>3 DEF PluggedInv
        <5> QED BY <2>1, <3>3, <4>1, <4>3, <5>1 DEF PluggedInv
      <4> QED BY <3>1, <4>2, <4>3
    <3> QED BY <1>3, <3>4, <3>5, <3>6, <3>7, <3>8 DEF Updates
  <2> QED BY <2>2, <2>3, <2>4
<1>4. CASE Faults
  <2>1. CASE kernelsKind # "hotplug"
    <3>1. UNCHANGED kernelsKind
      BY <1>4 DEF Faults, K!Setup, K!Verify, K!LoadLkdtm, K!TriggerCrash, K!Cleaned, K!Hotplug, K!KeepsUpdate
    <3> QED BY <1>2, <2>1, <3>1
  <2>2. CASE kernelsKind = "hotplug"
    <3>1. K!Hotplug
      BY <1>4, <2>2 DEF Faults, K!Setup, K!Verify, K!LoadLkdtm, K!TriggerCrash, K!Cleaned, KernelShape, Comes
    <3>2. /\ kernelsPc = "hotplug" /\ stage = "add" /\ round \in 1 .. Len(Settings)
          /\ UNCHANGED <<kernelsKind, unread, missed, running, config>>
      BY <2>2, <3>1 DEF K!Hotplug, K!history, K!system, K!loader, KernelShape, Asks
    <3>3. CASE K!Ends("failed")
      BY <3>3 DEF K!Ends, PluggedInv
    <3>4. CASE round' = round + 1 /\ stage' = "add" /\ kernelsPc' = "check" /\ UNCHANGED kernelsOutcome
      <4>1. round' - 1 = round
        BY <3>2, <3>4
      <4> QED BY <2>2, <3>2, <3>4, <4>1 DEF PluggedInv, Booted
    <3>5. CASE UNCHANGED round /\ stage' = "remove" /\ kernelsPc' = "check" /\ UNCHANGED kernelsOutcome
      BY <2>2, <3>2, <3>5 DEF PluggedInv, Booted
    <3> QED BY <3>1, <3>3, <3>4, <3>5 DEF K!Hotplug, K!Goes, K!Wants
  <2> QED BY <2>1, <2>2
<1>5. CASE Builds
  BY <1>2, <1>5, BuildsKeep
<1>6. CASE K!Machine
  <2>1. UNCHANGED <<kernelsPc, kernelsKind, stage, round, missed, config, kernelsOutcome>>
    BY <1>6 DEF K!Machine, K!update, K!loader
  <2>2. unread => unread'
    BY <1>6 DEF K!Machine
  <2>3. running' = running \/ running'.args = running.args \/ running'.args = config
    BY <1>6, SystemMachine DEF K!Powered
  <2>4. Booted' \/ running' = running \/ running'.args = running.args
    BY <2>1, <2>3 DEF Booted
  <2>5. (Booted => Booted') /\ (Booted' \/ running'.args = running.args)
    BY <2>1, <2>3 DEF Booted
  <2> QED BY <2>1, <2>2, <2>5 DEF PluggedInv
<1> QED BY <1>1, <1>3, <1>4, <1>5, <1>6, Nexts

LEMMA InstallPasses ==
    ASSUME KernelShape, K!Next, kernelsKind \in {"install", "kexec"},
           kernelsOutcome' = "passed", kernelsOutcome' # kernelsOutcome
    PROVE  running.kernel = K!New
<1>1. CASE K!BeginTest
  BY <1>1 DEF K!BeginTest
<1>2. CASE Updates
  <2>1. K!GotoOFF \/ K!GotoOS
    BY <1>2 DEF Updates, K!Check, K!Change, K!RebootByCommand, K!WaitForSSH, K!Recheck, KernelShape, Comes
  <2> QED BY <2>1 DEF K!GotoOFF, K!GotoOS, K!Goes, K!Ends, K!InstallsFirst
<1>3. CASE Faults
  BY <1>3 DEF Faults, K!Setup, K!Verify, K!LoadLkdtm, K!TriggerCrash, K!Cleaned, K!Hotplug, KernelShape, Comes
<1>4. CASE Builds
  <2>1. CASE K!Uname
    BY <2>1 DEF K!Uname, K!Goes, K!Ends, K!IsNew
  <2>2. CASE ~K!Uname
    <3>1. kernelsKind \notin {"build", "perf", "boot", "exec", "loop", "unload"}
      OBVIOUS
    <3>2. K!Make \/ K!Install \/ K!Exec \/ K!ExpectLogin
      BY <1>4, <2>2, <3>1 DEF Builds, K!Kexec, K!LoadKexecKernel, K!UnloadKexecKernel, K!Judge, K!Reset, KernelShape, Comes
    <3> QED
      BY <3>1, <3>2 DEF K!Make, K!Install, K!Exec, K!ExpectLogin, K!Raises, K!Bisecting, K!Goes, K!Ends
  <2> QED BY <2>1, <2>2
<1>5. CASE K!Machine
  BY <1>5 DEF K!Machine
<1> QED BY <1>1, <1>2, <1>3, <1>4, <1>5, Nexts

KernelInv == KernelBase /\ BisectInv /\ ArgsInv

LEMMA KernelInvInit == K!Init => KernelInv
BY KernelBaseInit DEF K!Init, KernelInv, BisectInv, ArgsInv, LookedInv, FaultedInv, PluggedInv

LEMMA KernelInvStep == KernelInv /\ (K!Next \/ UNCHANGED kernelsVars) => KernelInv'
<1>1. ASSUME KernelInv, K!Next PROVE KernelInv'
  BY <1>1, KernelBaseStep, SearchStep, LookedStep, FaultedStep, PluggedStep DEF KernelInv, ArgsInv
<1>2. ASSUME KernelInv, UNCHANGED kernelsVars PROVE KernelInv'
  <2> USE <1>2 DEF KernelInv, KernelBase, kernelsVars
  <2>1. PlanType'
    BY DEF PlanType
  <2>2. UpdateType' /\ BisectType'
    BY DEF UpdateType, BisectType
  <2>3. KernelShape'
    BY DEF KernelShape, Comes, Asks, OneEach
  <2>4. SystemInv'
    BY DEF SystemInv, OneEach
  <2>5. BisectInv'
    BY DEF BisectInv
  <2>6. ArgsInv'
    BY DEF ArgsInv, LookedInv, FaultedInv, PluggedInv, K!Lacking, Booted
  <2> QED BY <2>1, <2>2, <2>3, <2>4, <2>5, <2>6
<1> QED BY <1>1, <1>2

LEMMA KernelInvTypes == KernelInv => K!TypeOK
BY KernelTypes DEF KernelInv, KernelBase, SystemInv

\* What a step says that ends a test with a pass.
TrueNow ==
    /\ kernelsKind = "arg" /\ ~unread' => add \subseteq running.args /\ remove \cap running.args = {}
    /\ kernelsKind = "kuap" /\ ~unread' => a \in ran.args
    /\ kernelsKind \in {"install", "kexec"} => running.kernel = K!New
    /\ kernelsKind \in K!Bisections => named' = culprit \/ misjudged'

LeftNow ==
    ~unread' =>
        /\ kernelsKind = "kuap" => a \notin config'
        /\ kernelsKind = "hotplug" /\ ~missed' => config' \cap K!Setting = {}

LEMMA KernelPasses ==
    ASSUME KernelInv, K!Next, kernelsOutcome' = "passed", kernelsOutcome' # kernelsOutcome
    PROVE  TrueNow /\ LeftNow
<1> USE DEF KernelInv, ArgsInv
<1>1. kernelsKind = "arg" /\ ~unread' => K!Lacking = {}
  BY ArgPasses
<1>2. kernelsKind = "kuap" /\ ~unread' => a \in ran.args /\ a \notin config'
  BY FaultedStep
<1>3. kernelsKind = "hotplug" /\ ~unread' /\ ~missed' => config' \cap K!Setting = {}
  BY PluggedStep
<1>4. kernelsKind \in {"install", "kexec"} => running.kernel = K!New
  BY InstallPasses DEF KernelBase
<1>5. kernelsKind \in K!Bisections => named' = culprit \/ misjudged'
  BY SearchStep DEF BisectPasses
<1>6. K!Lacking = {} => add \subseteq running.args /\ remove \cap running.args = {}
  BY DEF K!Lacking
<1>7. TrueNow
  BY <1>1, <1>2, <1>4, <1>5, <1>6 DEF TrueNow
<1>8. LeftNow
  BY <1>2, <1>3 DEF LeftNow
<1> QED BY <1>7, <1>8

-----------------------------------------------------------------------------
(* Platform                                                                *)

\* A test is at one of its steps.
AtStep == platformTest # "none" => platformTest \in DOMAIN AllPrograms /\ at \in 1 .. Len(P!Steps)

PlatformOutcomes == {"none", "passed", "failed", "skipped"}

\* Where goto_state() is asked to go.
Goals == {"OFF", "PETITBOOT", "PETITBOOT_SHELL", "OS"}

LEMMA PlatformTypes ==
    P!TypeOK <=> /\ platformLeft \in 0 .. PlatformLast /\ AtStep /\ platformOutcome \in PlatformOutcomes
                 /\ state \in P!States /\ stop \in BOOLEAN /\ platformHost \in P!Hosts /\ knew \in BOOLEAN
BY DEF P!TypeOK, AtStep, PlatformOutcomes

LEMMA StepForms ==
    ASSUME platformTest # "none", AtStep
    PROVE  /\ AllPrograms[platformTest].tearDown \in Nat \ {0}
           /\ Len(P!Steps) \in Nat \ {0} /\ at \in 1 .. Len(P!Steps)
           /\ P!Steps[at].n \in Nat /\ P!Steps[at].els \subseteq Nat
           /\ P!Steps[at].op = "goto" => P!Arg \in Goals
           /\ P!Steps[at].op = "tells" => P!Arg \in P!States
           /\ P!Steps[at].op \in {"types", "commands"} => P!Arg \in {"reboot", "off", "checkstop"}
           /\ P!Steps[at].op = "powers" => P!Arg \in {"on", "off", "soft", "cycle"}
<1>1. WellFormed(AllPrograms[platformTest]) /\ at \in 1 .. Len(P!Steps)
  BY PlatformAssumption DEF AtStep
<1> QED BY <1>1 DEF WellFormed, P!Steps, P!Arg, Goals

LEMMA GoesToStep ==
    ASSUME platformTest # "none", AtStep, NEW i \in Nat \ {0}, NEW how \in PlatformOutcomes, P!GoesTo(i, how)
    PROVE  AtStep' /\ platformOutcome' \in PlatformOutcomes
<1>1. Len(P!Steps) \in Nat
  BY StepForms
<1>2. CASE i > Len(P!Steps)
  BY <1>2 DEF P!GoesTo, P!EndsWith, AtStep, PlatformOutcomes
<1>3. CASE ~(i > Len(P!Steps))
  <2>1. at' = i /\ platformOutcome' = how /\ UNCHANGED platformTest
    BY <1>3 DEF P!GoesTo
  <2>2. i \in 1 .. Len(P!Steps)
    BY <1>1, <1>3
  <2> QED BY <2>1, <2>2 DEF AtStep, P!Steps
<1> QED BY <1>2, <1>3

LEMMA GoesOnStep ==
    ASSUME platformTest # "none", AtStep, platformOutcome \in PlatformOutcomes,
           \/ P!GoesOn \/ P!Raises \/ P!GoesTo(at + P!Steps[at].n, platformOutcome)
           \/ P!GoesTo(at + 1, platformOutcome)
    PROVE  AtStep' /\ platformOutcome' \in PlatformOutcomes
<1>1. at \in Nat \ {0} /\ P!Steps[at].n \in Nat /\ P!Steps[at].els \subseteq Nat
      /\ AllPrograms[platformTest].tearDown \in Nat \ {0}
  BY StepForms
<1>2. CASE P!GoesOn \/ P!GoesTo(at + 1, platformOutcome)
  BY <1>1, <1>2, GoesToStep DEF P!GoesOn
<1>3. CASE P!GoesTo(at + P!Steps[at].n, platformOutcome)
  <2>1. at + P!Steps[at].n \in Nat \ {0}
    BY <1>1
  <2> QED BY <1>3, <2>1, GoesToStep
<1>4. CASE P!Raises
  <2>1. ASSUME NEW how \in {"failed", "skipped"}, P!Leaves(how)
        PROVE  AtStep' /\ platformOutcome' \in PlatformOutcomes
    <3>1. CASE P!EndsWith(how) \/ P!EndsWith("failed")
      BY <2>1, <3>1 DEF P!EndsWith, AtStep, PlatformOutcomes
    <3>2. CASE P!GoesTo(AllPrograms[platformTest].tearDown, P!SoFar(how))
      <4>1. P!SoFar(how) \in PlatformOutcomes
        BY <2>1 DEF P!SoFar, PlatformOutcomes
      <4> QED BY <1>1, <3>2, <4>1, GoesToStep
    <3> QED BY <2>1, <3>1, <3>2 DEF P!Leaves
  <2>2. PICK e \in P!Steps[at].els : CASE e = 0 -> P!Leaves("failed")
                                      [] e = P!Skip -> P!Leaves("skipped")
                                      [] OTHER -> P!GoesTo(at + e, platformOutcome)
    BY <1>4 DEF P!Raises
  <2>3. P!Leaves("failed") \/ P!Leaves("skipped") \/ P!GoesTo(at + e, platformOutcome)
    BY <2>2
  <2>4. at + e \in Nat \ {0}
    BY <1>1
  <2> QED BY <2>1, <2>3, <2>4, GoesToStep
<1> QED BY <1>2, <1>3, <1>4

\* Every step of a test goes on, to the next step or elsewhere, or raises.
LEMMA StepsGoOn ==
    ASSUME P!Control \/ P!GotoState \/ P!SetState \/ P!Command \/ P!PingsLost
    PROVE  \/ P!GoesOn \/ P!Raises \/ P!GoesTo(at + P!Steps[at].n, platformOutcome)
           \/ P!GoesTo(at + 1, platformOutcome)
<1>1. CASE P!Control
  BY <1>1 DEF P!Control
<1>2. CASE P!GotoState \/ P!SetState
  BY <1>2 DEF P!GotoState, P!SetState
<1>3. CASE P!Command
  BY <1>3 DEF P!Command, P!Run, P!Change, P!Changes, P!Check, P!Power, P!ResetBMC, P!Reboot, P!See,
              P!Await
<1>4. CASE P!PingsLost
  BY <1>4 DEF P!PingsLost
<1> QED BY <1>1, <1>2, <1>3, <1>4

\* A goto_state() that raises, and detection after op-test was stopped, leave a machine
\* to be found half-way.
Tossed(t) ==
    /\ P!Leaving(t, state) /\ <<state', platformHost'>> \in P!GivenUp(t, state, platformHost)
    /\ changed' \subseteq P!Kept(changed, platformHost, platformHost')

LEMMA GivesUpTossed ==
    ASSUME NEW t \in Goals, P!TypeOK, P!GivesUp(t) \/ P!Detects(t)
    PROVE  Tossed(t) /\ state' \in P!States /\ platformHost' \in P!Hosts /\ stop' \in BOOLEAN
<1>1. stop \in BOOLEAN /\ state \in P!States /\ platformHost \in P!Hosts
  BY PlatformTypes
<1>2. \A h, m : /\ P!Cycled(changed) \subseteq P!Kept(changed, h, m)
                /\ m \in {h, "rebooting"} => P!Kept(changed, h, m) = changed
                /\ m # "off" => P!Booted(changed) \subseteq P!Kept(changed, h, m)
  BY DEF P!Kept, P!Cycled, P!Booted
<1>3. CASE P!GivesUp(t)
  <2>1. PICK p \in P!GivenUp(t, state, platformHost) : state' = p[1] /\ platformHost' = p[2]
    BY <1>3 DEF P!GivesUp
  <2>2. p \in P!States \X P!Hosts
    BY DEF P!GivenUp
  <2>3. p = <<state', platformHost'>> /\ state' \in P!States /\ platformHost' \in P!Hosts
    BY <2>1, <2>2
  <2>4. stop' \in BOOLEAN
    BY <1>1, <1>3 DEF P!GivesUp
  <2>5. changed' \subseteq P!Kept(changed, platformHost, platformHost')
    BY <1>2, <1>3 DEF P!GivesUp
  <2> QED BY <1>3, <2>1, <2>3, <2>4, <2>5 DEF Tossed, P!GivesUp
<1>4. CASE P!Detects(t)
  <2>1. state = "UNKNOWN" /\ t # "OFF" /\ stop' \in BOOLEAN /\ P!Leaving(t, state)
    BY <1>1, <1>4 DEF P!Detects, P!Leaving, P!PETITBOOTs, Goals
  <2>2. CASE state' = t /\ P!StandsOrBoots(t)
    <3>1. platformHost' = P!HostOf(t) /\ P!HostOf(t) \in {"petitboot", "os"}
      BY <2>1, <2>2 DEF P!StandsOrBoots, P!Stands, P!HostOf, Goals
    <3>2. t \in P!Through(t, state) /\ platformHost' \in P!HalfWay(t, platformHost)
      BY <2>1, <3>1 DEF P!Through, P!HalfWay, Goals
    <3>3. changed' \subseteq P!Kept(changed, platformHost, platformHost')
      BY <1>2, <2>2, <3>1 DEF P!StandsOrBoots
    <3>4. t \in P!States /\ platformHost' \in P!Hosts
      BY <3>1 DEF Goals, P!States, P!Hosts
    <3> QED BY <2>1, <2>2, <3>2, <3>3, <3>4 DEF Tossed, P!GivenUp
  <2>3. CASE platformHost' = "rebooting" /\ UNCHANGED <<state, changed>>
    <3>1. state' \in P!Through(t, state) /\ platformHost' \in P!HalfWay(state', platformHost)
      BY <2>1, <2>3 DEF P!Through, P!HalfWay, P!Hosts
    <3>2. state' \in P!States /\ platformHost' \in P!Hosts
      BY <1>1, <2>3 DEF P!Hosts
    <3> QED BY <1>2, <2>1, <2>3, <3>1, <3>2 DEF Tossed, P!GivenUp
  <2> QED BY <1>4, <2>2, <2>3 DEF P!Detects
<1> QED BY <1>3, <1>4

LEMMA PlatformStep == P!TypeOK /\ (P!Next \/ UNCHANGED platformVars) => P!TypeOK'
<1> SUFFICES ASSUME P!TypeOK, P!Next \/ UNCHANGED platformVars PROVE P!TypeOK'
  OBVIOUS
<1> DEFINE Rest == platformLeft \in 0 .. PlatformLast /\ state \in P!States /\ stop \in BOOLEAN
                   /\ platformHost \in P!Hosts /\ knew \in BOOLEAN
           Moves == AtStep /\ platformOutcome \in PlatformOutcomes
<1>1. Rest /\ Moves
  BY PlatformTypes
<1>2. ASSUME Rest', Moves' PROVE P!TypeOK'
  BY <1>2 DEF P!TypeOK, AtStep, PlatformOutcomes
<1>3. ASSUME UNCHANGED platformVars PROVE Rest' /\ Moves'
  BY <1>1, <1>3 DEF platformVars, AtStep, P!Steps
<1>4. ASSUME P!BeginTest PROVE Rest' /\ Moves'
  <2>1. platformLeft' \in 0 .. PlatformLast
    BY <1>1, <1>4, PlatformAssumption DEF P!BeginTest
  <2>2. P!Agrees(state, platformHost) \in BOOLEAN
    <3>1. CASE state \in {"OFF", "OS", "PETITBOOT", "PETITBOOT_SHELL"}
      BY <3>1 DEF P!Agrees
    <3>2. CASE state \in {"IPLing", "BOOTING"}
      <4>1. P!Agrees(state, platformHost) = (platformHost \notin {"off", "halting"})
        BY <3>2 DEF P!Agrees
      <4> QED BY <4>1
    <3>3. CASE state = "POWERING_OFF"
      <4>1. P!Agrees(state, platformHost) = (platformHost \in {"off", "halting"})
        BY <3>3 DEF P!Agrees
      <4> QED BY <4>1
    <3>4. CASE state \in {"UNKNOWN", "UNKNOWN_BAD"}
      BY <3>4 DEF P!Agrees
    <3> QED BY <1>1, <3>1, <3>2, <3>3, <3>4 DEF P!States
  <2>3. platformTest' \in DOMAIN AllPrograms /\ at' = 1
    BY <1>4, PlatformAssumption DEF P!BeginTest
  <2>4. 1 \in 1 .. Len(AllPrograms[platformTest'].steps)
    BY <2>3, PlatformAssumption DEF WellFormed
  <2>5. AtStep'
    BY <2>3, <2>4 DEF AtStep, P!Steps
  <2> QED BY <1>1, <1>4, <2>1, <2>2, <2>5 DEF P!BeginTest, PlatformOutcomes
<1>5. ASSUME P!Control \/ P!GotoState \/ P!SetState \/ P!Command \/ P!PingsLost
      PROVE  Rest' /\ Moves'
  <2>1. platformTest # "none" /\ UNCHANGED <<platformLeft, knew>>
    BY <1>5 DEF P!Control, P!GotoState, P!SetState, P!Command, P!Run, P!Change, P!Check, P!Power, P!ResetBMC,
                P!Reboot, P!See, P!Await, P!PingsLost, P!Is, P!Runs, P!KeepsTest
  <2>2. \/ P!GoesOn \/ P!Raises \/ P!GoesTo(at + P!Steps[at].n, platformOutcome)
        \/ P!GoesTo(at + 1, platformOutcome)
    BY <1>5, StepsGoOn
  <2>3. Moves'
    BY <1>1, <2>1, <2>2, GoesOnStep
  <2>4. state' \in P!States /\ stop' \in BOOLEAN /\ platformHost' \in P!Hosts
    <3> USE <1>1 DEF P!Hosts
    <3>1. CASE P!Control
      BY <3>1 DEF P!Control
    <3>2. CASE P!GotoState
      <4>1. P!Arg \in Goals
        BY <1>1, <2>1, <3>2, StepForms DEF P!GotoState, P!Is, P!Runs
      <4>2. CASE P!Arrives(P!Arg)
        BY <4>1, <4>2 DEF P!Arrives, P!StandsOrBoots, P!HostOf, Goals, P!States
      <4>3. CASE P!GivesUp(P!Arg) \/ P!Detects(P!Arg)
        BY <4>1, <4>3, GivesUpTossed
      <4>4. CASE UNCHANGED <<state, stop, platformHost, changed>>
        BY <4>4
      <4> QED BY <3>2, <4>2, <4>3, <4>4 DEF P!GotoState
    <3>3. CASE P!SetState
      <4>1. P!Is("tells") => P!Arg \in P!States
        BY <1>1, <2>1, StepForms DEF P!Is, P!Runs
      <4> QED BY <3>3, <4>1 DEF P!SetState
    <3>4. CASE P!Run \/ P!Change \/ P!Check \/ P!See \/ P!Await \/ P!PingsLost
      BY <3>4 DEF P!Run, P!Change, P!Changes, P!Check, P!See, P!Await, P!PingsLost
    <3>5. CASE P!Power
      <4>1. P!Arg \in {"on", "off", "soft", "cycle"}
        BY <1>1, <2>1, <3>5, StepForms DEF P!Power, P!Is, P!Runs
      <4>2. P!Powered(P!Arg, platformHost) \in P!Hosts
        BY <4>1 DEF P!Powered
      <4> QED BY <3>5, <4>2 DEF P!Power
    <3>6. CASE P!ResetBMC
      BY <3>6 DEF P!ResetBMC
    <3>7. CASE P!Reboot
      <4>1. P!Arg \in {"reboot", "off", "checkstop"}
        BY <1>1, <2>1, <3>7, StepForms DEF P!Reboot, P!Is, P!Runs
      <4>2. P!GoingTo(P!Arg) \in {"rebooting", "halting", "ipl"}
        BY <4>1 DEF P!GoingTo
      <4> QED BY <3>7, <4>2 DEF P!Reboot
    <3> QED BY <1>5, <3>1, <3>2, <3>3, <3>4, <3>5, <3>6, <3>7 DEF P!Command
  <2> QED BY <1>1, <2>1, <2>3, <2>4
<1>6. ASSUME P!Machine PROVE Rest' /\ Moves'
  <2>1. platformHost' \in P!Hosts
    BY <1>6 DEF P!Machine, P!Hosts
  <2> QED BY <1>1, <1>6, <2>1 DEF P!Machine, AtStep, P!Steps
<1> QED BY <1>2, <1>3, <1>4, <1>5, <1>6 DEF P!Next, P!OpTest

LEMMA PlatformInit == P!Init => P!TypeOK
<1> SUFFICES ASSUME P!Init PROVE P!TypeOK
  OBVIOUS
<1>1. platformLeft \in 0 .. PlatformLast
  BY PlatformAssumption DEF P!Init
<1>2. AtStep
  BY DEF P!Init, AtStep
<1> QED BY <1>1, <1>2, PlatformTypes DEF P!Init, P!Hosts, P!States, PlatformOutcomes


-----------------------------------------------------------------------------
(* What a test of Platform leaves                                          *)

\* Of what the running test has found, what it asks for, and the rest.
FoundAsked == found \cap P!Asked(platformTest)
FoundElse == found \ P!Asked(platformTest)

Seen == P!Reached(platformTest, FoundAsked)
Here(own, trust) == P!Config(at, state, platformHost, own, trust)

\* A configuration stands for the state, and for how the test found it.
Fits(own, trust) ==
    /\ changed \subseteq FoundElse \cup own
    /\ knew /\ "bootme" \notin found => trust # "lost"
    /\ "bootme" \in FoundElse => trust = "lost"
    /\ trust = "refused" => found \cap NotBooted # {}

\* As long as nothing has failed a test is in one of its configurations.
InFootprint ==
    platformTest # "none" =>
        /\ platformOutcome # "passed"
        /\ platformOutcome = "none" =>
              \E own, trust : Fits(own, trust) /\ Here(own, trust) \in Seen[at]

PassesLeaving ==
    P!Passes => changed' \subseteq found \cup AllLeaveBehind[platformTest]
                                     \cup {c \in {"backup"} : "kdumpconf" \in found}
PassesKnowing ==
    P!Passes /\ knew /\ platformTest \notin MoveUntold /\ found \cap {"policy", "bootme"} = {}
      => \/ P!Agrees(state', platformHost')
         \/ state' \in {"IPLing", "BOOTING"} /\ found \cap NotBooted # {}
Well == InFootprint' /\ PassesLeaving /\ PassesKnowing

\* A test makes a step in a configuration, and the step leads to another one.
Stepping(own, trust) ==
    /\ platformTest # "none" /\ AtStep /\ platformOutcome = "none"
    /\ Fits(own, trust) /\ Here(own, trust) \in Seen[at]
    /\ UNCHANGED <<found, knew>>
LeadsTo(i, own, trust, more) ==
    /\ P!Config(i, state', platformHost', more, trust) \in P!After(P!Steps[at], Here(own, trust))
    /\ changed' \subseteq FoundElse \cup more

LEMMA ConfigFields == 
    ASSUME NEW i, NEW s, NEW h, NEW own, NEW trust
    PROVE  /\ P!Config(i, s, h, own, trust).at = i
           /\ P!Config(i, s, h, own, trust).state = s
           /\ P!Config(i, s, h, own, trust).host = h
           /\ P!Config(i, s, h, own, trust).own = own
           /\ P!Config(i, s, h, own, trust).trust = trust
BY DEF P!Config

LEMMA Bounded ==
    ASSUME platformTest # "none", AtStep
    PROVE  P!Bounds(Seen, platformTest, FoundAsked)
<1>1. platformTest \in DOMAIN AllPrograms /\ FoundAsked \in SUBSET P!Asked(platformTest)
  BY DEF AtStep, FoundAsked
<1> QED BY <1>1, FootprintAssumption DEF Seen

LEMMA Onward ==
    ASSUME NEW own, NEW trust, Stepping(own, trust), NEW i \in Nat \ {0}, NEW more,
           LeadsTo(i, own, trust, more), P!GoesTo(i, "none")
    PROVE  Well
<1> DEFINE d == P!Config(i, state', platformHost', more, trust)
<1>1. at \in 1 .. Len(P!Steps) /\ Len(P!Steps) \in Nat
  BY StepForms DEF Stepping
<1>2. IF d.at > Len(P!Steps) THEN P!EndsWell(platformTest, FoundAsked, d) ELSE d \in Seen[d.at]
  <2>1. P!Bounds(Seen, platformTest, FoundAsked)
    BY Bounded DEF Stepping
  <2> QED BY <1>1, <2>1 DEF P!Bounds, Stepping, LeadsTo, P!Steps
<1>3. d.at = i /\ d.state = state' /\ d.host = platformHost' /\ d.own = more /\ d.trust = trust
  BY ConfigFields
<1> HIDE DEF d
<1>4. CASE i > Len(P!Steps)
  <2>1. P!EndsWell(platformTest, FoundAsked, d)
    BY <1>2, <1>3, <1>4
  <2>2. platformTest' = "none"
    BY <1>4 DEF P!GoesTo, P!EndsWith
  <2>3. InFootprint'
    BY <2>2 DEF InFootprint
  <2>4. PassesLeaving
    BY <1>3, <2>1 DEF PassesLeaving, P!EndsWell, LeadsTo, FoundElse, FoundAsked
  <2>5. PassesKnowing
    BY <1>3, <2>1 DEF PassesKnowing, P!EndsWell, P!Knows, Stepping, Fits, FoundAsked
  <2> QED BY <2>3, <2>4, <2>5 DEF Well
<1>5. CASE ~(i > Len(P!Steps))
  <2>1. d \in Seen[i]
    BY <1>2, <1>3, <1>5
  <2>2. at' = i /\ platformOutcome' = "none" /\ UNCHANGED platformTest /\ UNCHANGED <<found, knew>>
    BY <1>5 DEF P!GoesTo, Stepping
  <2>3. Seen' = Seen /\ FoundElse' = FoundElse
    BY <2>2 DEF Seen, FoundAsked, FoundElse
  <2>4. Here(more, trust)' \in Seen'[at']
    BY <2>1, <2>2, <2>3 DEF Here, d
  <2>5. Fits(more, trust)'
    BY <2>2, <2>3 DEF Fits, Stepping, LeadsTo
  <2>6. InFootprint'
    BY <2>2, <2>4, <2>5 DEF InFootprint
  <2> QED BY <2>2, <2>6 DEF Well, PassesLeaving, PassesKnowing, P!Passes, Stepping
<1> QED BY <1>4, <1>5

LEMMA GoesOnward ==
    ASSUME NEW own, NEW trust, Stepping(own, trust), NEW more,
           LeadsTo(at + 1, own, trust, more), P!GoesOn
    PROVE  Well
<1>1. at + 1 \in Nat \ {0} /\ P!GoesTo(at + 1, "none")
  BY StepForms DEF Stepping, P!GoesOn
<1> QED BY <1>1, Onward

LEMMA RaisesOnward ==
    ASSUME NEW own, NEW trust, Stepping(own, trust), NEW more, P!Raises,
           \A i \in P!Caught(P!Steps[at], Here(own, trust)) : LeadsTo(i, own, trust, more)
    PROVE  Well
<1>1. at \in Nat \ {0} /\ P!Steps[at].els \subseteq Nat
  BY StepForms DEF Stepping
<1>2. ASSUME NEW how \in {"failed", "skipped"}, P!Leaves(how) PROVE Well
  <2>1. P!SoFar(how) = how
    BY DEF P!SoFar, Stepping
  <2>2. platformOutcome' \in {"failed", "skipped"}
    BY <1>2, <2>1 DEF P!Leaves, P!EndsWith, P!GoesTo
  <2> QED BY <2>2 DEF Well, InFootprint, PassesLeaving, PassesKnowing, P!Passes
<1>3. PICK e \in P!Steps[at].els : CASE e = 0 -> P!Leaves("failed")
                                    [] e = P!Skip -> P!Leaves("skipped")
                                    [] OTHER -> P!GoesTo(at + e, platformOutcome)
  BY DEF P!Raises
<1>4. CASE e \in {0, P!Skip}
  BY <1>2, <1>3, <1>4 DEF P!Skip
<1>5. CASE e \notin {0, P!Skip}
  <2>1. P!GoesTo(at + e, "none")
    BY <1>3, <1>5 DEF Stepping
  <2>2. at + e \in Nat \ {0}
    BY <1>1
  <2>3. Here(own, trust).at + e \in P!Caught(P!Steps[at], Here(own, trust))
    BY <1>5 DEF P!Caught
  <2>4. LeadsTo(at + e, own, trust, more)
    BY <2>3, ConfigFields DEF Here
  <2> QED BY <2>1, <2>2, <2>4, Onward
<1> QED BY <1>4, <1>5

LEMMA MovedTo ==
    ASSUME NEW own, NEW trust, NEW more, NEW places, NEW i \in places,
           NEW states, state' \in states, NEW hosts, platformHost' \in hosts
    PROVE  P!Config(i, state', platformHost', more, trust)
             \in P!Moved(Here(own, trust), places, states, hosts, more)
BY ConfigFields DEF P!Moved, Here

LEMMA StaysAt ==
    ASSUME NEW own, NEW trust, NEW places, NEW i \in places, UNCHANGED <<state, platformHost>>
    PROVE  P!Config(i, state', platformHost', own, trust) \in P!Stay(Here(own, trust), places)
BY MovedTo, ConfigFields DEF P!Stay, Here

LEMMA LeadsThere ==
    ASSUME NEW own, NEW trust, NEW more, NEW places, NEW i \in places,
           NEW states, state' \in states, NEW hosts, platformHost' \in hosts,
           P!Moved(Here(own, trust), places, states, hosts, more)
             \subseteq P!After(P!Steps[at], Here(own, trust)),
           changed' \subseteq FoundElse \cup more
    PROVE  LeadsTo(i, own, trust, more)
BY MovedTo DEF LeadsTo

LEMMA StaysThere ==
    ASSUME NEW own, NEW trust, Fits(own, trust), NEW places, NEW i \in places,
           UNCHANGED <<state, platformHost, changed>>,
           P!Stay(Here(own, trust), places) \subseteq P!After(P!Steps[at], Here(own, trust))
    PROVE  LeadsTo(i, own, trust, own)
BY StaysAt DEF LeadsTo, Fits

LEMMA LostToo ==
    ASSUME NEW own, NEW trust, Fits(own, trust)
    PROVE  /\ P!Booted(changed) \subseteq FoundElse \cup P!Booted(own)
           /\ P!Cycled(changed) \subseteq FoundElse \cup P!Cycled(own)
BY DEF Fits, P!Booted, P!Cycled

LEMMA HereFields ==
    ASSUME NEW own, NEW trust
    PROVE  /\ Here(own, trust).at = at /\ Here(own, trust).state = state
           /\ Here(own, trust).host = platformHost /\ Here(own, trust).own = own
           /\ Here(own, trust).trust = trust
BY ConfigFields DEF Here

\* What is among the configurations that each step leads to.
LEMMA ControlMoves ==
    ASSUME NEW step, NEW c
    PROVE  /\ step.op = "fails" => P!Stay(c, P!Caught(step, c)) \subseteq P!After(step, c)
           /\ step.op = "fork" => P!Stay(c, {c.at + 1, c.at + step.n}) \subseteq P!After(step, c)
           /\ step.op = "jump" => P!Stay(c, {c.at + step.n}) \subseteq P!After(step, c)
           /\ step.op = "unless" /\ step.arg \in c.own => P!Stay(c, {c.at + 1}) \subseteq P!After(step, c)
           /\ step.op = "unless" =>
                P!Moved(c, {c.at + step.n}, {c.state}, {c.host}, c.own \ {step.arg}) \subseteq P!After(step, c)
           /\ step.op = "unlessin" =>
                P!Stay(c, {c.at + (IF step.arg = c.state THEN 1 ELSE step.n)}) \subseteq P!After(step, c)
<1>1. step.op \in {"fails", "fork", "jump", "unless", "unlessin"}
        => P!After(step, c) = P!ControlMoves(step, c)
  BY DEF P!After
<1>2. P!On(c) = {c.at + 1} /\ {c.at + 1, c.at + step.n} = {c.at + 1} \cup {c.at + step.n}
  BY DEF P!On
<1>3. {c.at + (IF step.arg = c.state THEN 1 ELSE step.n)}
        = IF step.arg = c.state THEN P!On(c) ELSE {c.at + step.n}
  BY <1>2
<1> QED BY <1>1, <1>2, <1>3 DEF P!ControlMoves, P!Only

LEMMA ControlKeeps ==
    ASSUME NEW own, NEW trust, Stepping(own, trust), P!Control
    PROVE  Well
<1> DEFINE step == P!Steps[at]
           c == Here(own, trust)
<1>0. UNCHANGED <<state, platformHost, changed>> /\ changed \subseteq FoundElse \cup own
  BY DEF P!Control, Stepping, Fits
<1>1. c.at = at /\ c.state = state /\ c.host = platformHost /\ c.own = own
  BY ConfigFields DEF Here
<1>2. ASSUME NEW places, NEW i \in places, P!Stay(c, places) \subseteq P!After(step, c)
      PROVE  LeadsTo(i, own, trust, own)
  BY <1>0, <1>2, StaysAt DEF LeadsTo
<1>3. at + 1 \in Nat \ {0} /\ at + step.n \in Nat \ {0}
  BY StepForms DEF Stepping
<1>4. CASE P!Is("fails") /\ P!Raises
  <2>1. step.op = "fails"
    BY <1>4 DEF P!Is, P!Runs
  <2>2. P!Stay(c, P!Caught(step, c)) \subseteq P!After(step, c)
    BY <2>1, ControlMoves
  <2> QED BY <1>2, <1>4, <2>2, RaisesOnward
<1>5. CASE P!Is("fork") /\ (P!GoesOn \/ P!GoesTo(at + step.n, platformOutcome))
  <2>1. P!Stay(c, {at + 1, at + step.n}) \subseteq P!After(step, c)
    <3>1. step.op = "fork"
      BY <1>5 DEF P!Is, P!Runs
    <3> QED BY <1>1, <3>1, ControlMoves
  <2>2. LeadsTo(at + 1, own, trust, own) /\ LeadsTo(at + step.n, own, trust, own)
    BY <1>2, <2>1
  <2> QED BY <1>3, <1>5, <2>2, Onward, GoesOnward DEF Stepping
<1>6. CASE P!Is("jump") /\ P!GoesTo(at + step.n, platformOutcome)
  <2>1. P!Stay(c, {at + step.n}) \subseteq P!After(step, c)
    <3>1. step.op = "jump"
      BY <1>6 DEF P!Is, P!Runs
    <3> QED BY <1>1, <3>1, ControlMoves
  <2>2. LeadsTo(at + step.n, own, trust, own)
    BY <1>2, <2>1
  <2> QED BY <1>3, <1>6, <2>2, Onward DEF Stepping
<1>7. CASE /\ P!Is("unless")
           /\ P!GoesTo(at + (IF P!Arg \in changed THEN 1 ELSE step.n), platformOutcome)
  <2>1. step.op = "unless" /\ P!Arg = step.arg
    BY <1>7 DEF P!Is, P!Runs, P!Arg
  <2>2. step.arg \in P!Asked(platformTest)
    BY <2>1, StepForms DEF Stepping, P!Asked, P!Steps
  <2>3. CASE P!Arg \in changed
    <3>1. step.arg \in c.own
      BY <1>0, <1>1, <2>1, <2>2, <2>3 DEF FoundElse
    <3>2. P!Stay(c, {at + 1}) \subseteq P!After(step, c)
      BY <1>1, <2>1, <3>1, ControlMoves
    <3>3. LeadsTo(at + 1, own, trust, own)
      BY <1>2, <3>2
    <3> QED BY <1>3, <1>7, <2>3, <3>3, Onward DEF Stepping
  <2>4. CASE P!Arg \notin changed
    <3>1. P!Moved(c, {at + step.n}, {state}, {platformHost}, own \ {step.arg}) \subseteq P!After(step, c)
      BY <1>1, <2>1, ControlMoves
    <3>2. changed' \subseteq FoundElse \cup (own \ {step.arg})
      BY <1>0, <2>1, <2>4
    <3>3. LeadsTo(at + step.n, own, trust, own \ {step.arg})
      BY <1>0, <3>1, <3>2, MovedTo DEF LeadsTo
    <3> QED BY <1>3, <1>7, <2>4, <3>3, Onward DEF Stepping
  <2> QED BY <2>3, <2>4
<1>8. CASE /\ P!Is("unlessin")
           /\ P!GoesTo(at + (IF P!Arg = state THEN 1 ELSE step.n), platformOutcome)
  <2> DEFINE i == at + (IF P!Arg = state THEN 1 ELSE step.n)
  <2>1. P!Stay(c, {i}) \subseteq P!After(step, c)
    <3>1. step.op = "unlessin" /\ P!Arg = step.arg
      BY <1>8 DEF P!Is, P!Runs, P!Arg
    <3> QED BY <1>1, <3>1, ControlMoves
  <2>2. LeadsTo(i, own, trust, own)
    BY <1>2, <2>1
  <2> QED BY <1>3, <1>8, <2>2, Onward DEF Stepping
<1> QED BY <1>4, <1>5, <1>6, <1>7, <1>8 DEF P!Control

LEMMA StateMoves ==
    ASSUME NEW step, NEW c
    PROVE  /\ step.op = "tells" =>
                P!Moved(c, {c.at + 1}, {step.arg}, {c.host}, c.own) \subseteq P!After(step, c)
           /\ step.op = "unstop" => P!Stay(c, {c.at + 1}) \subseteq P!After(step, c)
<1>1. step.op \in {"tells", "unstop"} => P!After(step, c) = P!StateMoves(step, c)
  BY DEF P!After
<1>2. P!On(c) = {c.at + 1}
  BY DEF P!On
<1> QED BY <1>1, <1>2 DEF P!StateMoves, P!Only

LEMMA SetStateKeeps ==
    ASSUME NEW own, NEW trust, Stepping(own, trust), P!SetState
    PROVE  Well
<1> DEFINE step == P!Steps[at]
           c == Here(own, trust)
<1>1. c.at = at /\ c.host = platformHost /\ c.own = own
  BY HereFields
<1>2. P!GoesOn /\ UNCHANGED <<platformHost, changed>>
  BY DEF P!SetState
<1>3. Fits(own, trust) /\ changed' \subseteq FoundElse \cup own
  BY <1>2 DEF Stepping, Fits
<1>4. CASE P!Is("tells") /\ state' = P!Arg
  <2>1. step.op = "tells" /\ P!Arg = step.arg
    BY <1>4 DEF P!Is, P!Runs, P!Arg
  <2>2. P!Moved(c, {at + 1}, {step.arg}, {platformHost}, own) \subseteq P!After(step, c)
    BY <1>1, <2>1, StateMoves
  <2>3. LeadsTo(at + 1, own, trust, own)
    BY <1>2, <1>3, <1>4, <2>1, <2>2, LeadsThere
  <2> QED BY <1>2, <2>3, GoesOnward
<1>5. CASE P!Is("unstop") /\ UNCHANGED state
  <2>1. step.op = "unstop"
    BY <1>5 DEF P!Is, P!Runs
  <2>2. P!Stay(c, {at + 1}) \subseteq P!After(step, c)
    BY <1>1, <2>1, StateMoves
  <2>3. LeadsTo(at + 1, own, trust, own)
    BY <1>2, <1>3, <1>5, <2>2, StaysThere
  <2> QED BY <1>2, <2>3, GoesOnward
<1> QED BY <1>4, <1>5 DEF P!SetState

LEMMA GotoMoves ==
    ASSUME NEW step, NEW c, step.op = "goto"
    PROVE  LET t == step.arg IN
           /\ P!Stay(c, P!Caught(step, c)) \subseteq P!After(step, c)
           /\ P!Stands(t, c.state, c.host) =>
                P!Moved(c, {c.at + 1}, {t}, {c.host}, c.own) \subseteq P!After(step, c)
           /\ P!Boots(t, c.state, c.host) =>
                P!Moved(c, {c.at + 1}, {t}, {P!HostOf(t)}, P!Booted(c.own)) \subseteq P!After(step, c)
           /\ P!PowerCycles(t, c.state, c.host) =>
                P!Moved(c, {c.at + 1}, {t}, {P!HostOf(t)}, P!Cycled(c.own)) \subseteq P!After(step, c)
           /\ P!Leaving(t, c.state) =>
                \A p \in P!GivenUp(t, c.state, c.host) :
                   P!Moved(c, P!Caught(step, c), {p[1]}, {p[2]}, P!Kept(c.own, c.host, p[2]))
                     \subseteq P!After(step, c)
<1>1. P!After(step, c) = P!GotoMoves(step, c)
  BY DEF P!After
<1>2. P!On(c) = {c.at + 1}
  BY DEF P!On
<1>3. \A p \in P!GivenUp(step.arg, c.state, c.host) :
        P!Moved(c, P!Caught(step, c), {p[1]}, {p[2]}, P!Kept(c.own, c.host, p[2]))
          \subseteq P!GivesUpMoves(step, c)
  BY DEF P!GivesUpMoves
<1>4. P!Caught(step, c) = {} =>
        \A p \in P!GivenUp(step.arg, c.state, c.host) :
          P!Moved(c, P!Caught(step, c), {p[1]}, {p[2]}, P!Kept(c.own, c.host, p[2])) = {}
  BY DEF P!Moved
<1> QED BY <1>1, <1>2, <1>3, <1>4 DEF P!GotoMoves, P!Only

LEMMA GotoStateKeeps ==
    ASSUME P!TypeOK, NEW own, NEW trust, Stepping(own, trust), P!GotoState
    PROVE  Well
<1> DEFINE step == P!Steps[at]
           c == Here(own, trust)
           t == P!Arg
<1>1. c.at = at /\ c.state = state /\ c.host = platformHost /\ c.own = own
  BY HereFields
<1>2. step.op = "goto" /\ t = step.arg
  BY DEF P!GotoState, P!Is, P!Runs, P!Arg
<1>3. Fits(own, trust) /\ changed \subseteq FoundElse \cup own
  BY DEF Stepping, Fits
<1>4. CASE P!Arrives(t) /\ P!GoesOn
  <2>1. CASE P!Stands(t, state, platformHost) /\ UNCHANGED <<platformHost, changed>>
    <3>1. P!Moved(c, {at + 1}, {t}, {platformHost}, own) \subseteq P!After(step, c)
      BY <1>1, <1>2, <2>1, GotoMoves
    <3>2. LeadsTo(at + 1, own, trust, own)
      BY <1>3, <1>4, <2>1, <3>1, LeadsThere DEF P!Arrives
    <3> QED BY <1>4, <3>2, GoesOnward
  <2>2. CASE P!Boots(t, state, platformHost) /\ platformHost' = P!HostOf(t) /\ changed' = P!Booted(changed)
    <3>1. P!Moved(c, {at + 1}, {t}, {P!HostOf(t)}, P!Booted(own)) \subseteq P!After(step, c)
      BY <1>1, <1>2, <2>2, GotoMoves
    <3>2. LeadsTo(at + 1, own, trust, P!Booted(own))
      BY <1>3, <1>4, <2>2, <3>1, LeadsThere, LostToo DEF P!Arrives
    <3> QED BY <1>4, <3>2, GoesOnward
  <2>3. CASE P!PowerCycles(t, state, platformHost) /\ platformHost' = P!HostOf(t) /\ changed' = P!Cycled(changed)
    <3>1. P!Moved(c, {at + 1}, {t}, {P!HostOf(t)}, P!Cycled(own)) \subseteq P!After(step, c)
      BY <1>1, <1>2, <2>3, GotoMoves
    <3>2. LeadsTo(at + 1, own, trust, P!Cycled(own))
      BY <1>3, <1>4, <2>3, <3>1, LeadsThere, LostToo DEF P!Arrives
    <3> QED BY <1>4, <3>2, GoesOnward
  <2> QED BY <1>4, <2>1, <2>2, <2>3 DEF P!Arrives, P!StandsOrBoots
<1>5. CASE (P!GivesUp(t) \/ P!Detects(t)) /\ P!Raises
  <2> DEFINE p == <<state', platformHost'>>
             kept == P!Kept(own, platformHost, platformHost')
  <2>1. t \in Goals
    BY <1>2, StepForms DEF Stepping
  <2>2. Tossed(t)
    BY <1>5, <2>1, GivesUpTossed
  <2>3. changed' \subseteq FoundElse \cup kept
    BY <1>3, <2>2, LostToo DEF Tossed, P!Kept
  <2>4. P!Moved(c, P!Caught(step, c), {state'}, {platformHost'}, kept) \subseteq P!After(step, c)
    <3>1. P!Moved(c, P!Caught(step, c), {p[1]}, {p[2]}, P!Kept(c.own, c.host, p[2])) \subseteq P!After(step, c)
      BY <1>1, <1>2, <2>2, GotoMoves DEF Tossed
    <3> QED BY <1>1, <3>1
  <2>5. \A i \in P!Caught(step, c) : LeadsTo(i, own, trust, kept)
    BY <2>3, <2>4, LeadsThere
  <2> QED BY <1>5, <2>5, RaisesOnward
<1>6. CASE UNCHANGED <<state, stop, platformHost, changed>> /\ P!Raises
  <2>1. P!Stay(c, P!Caught(step, c)) \subseteq P!After(step, c)
    BY <1>2, GotoMoves
  <2>2. \A i \in P!Caught(step, c) : LeadsTo(i, own, trust, own)
    BY <1>3, <1>6, <2>1, StaysThere
  <2> QED BY <1>6, <2>2, RaisesOnward
<1> QED BY <1>4, <1>5, <1>6 DEF P!GotoState

LEMMA ChangeMoves ==
    ASSUME NEW step, NEW c
    PROVE  /\ step.op \in {"sets", "clears"} => P!Stay(c, P!Caught(step, c)) \subseteq P!After(step, c)
           /\ step.op \in {"sets", "clears"} /\ P!Reaches(step.way, c.host) =>
                P!Moved(c, {c.at + 1} \cup P!Caught(step, c), {c.state}, {c.host},
                        IF step.op = "sets" THEN c.own \cup {step.arg} ELSE c.own \ {step.arg})
                  \subseteq P!After(step, c)
<1> DEFINE own == IF step.op = "sets" THEN c.own \cup {step.arg} ELSE c.own \ {step.arg}
<1>1. step.op \in {"sets", "clears"} => P!After(step, c) = P!ChangeMoves(step, c)
  BY DEF P!After
<1>2. P!Either(step, c) = {c.at + 1} \cup P!Caught(step, c)
  BY DEF P!Either, P!On
<1>3. step.op \in {"sets", "clears"} => P!Changed(step, c, own) \subseteq P!After(step, c)
  BY <1>1 DEF P!ChangeMoves, P!Only
<1>4. P!Stay(c, P!Caught(step, c)) \subseteq P!Changed(step, c, own)
  BY DEF P!Changed
<1>5. P!Reaches(step.way, c.host) =>
        P!Moved(c, P!Either(step, c), {c.state}, {c.host}, own) \subseteq P!Changed(step, c, own)
  BY DEF P!Changed, P!Only
<1> HIDE DEF own
<1>6. /\ step.op \in {"sets", "clears"} => P!Stay(c, P!Caught(step, c)) \subseteq P!After(step, c)
      /\ step.op \in {"sets", "clears"} /\ P!Reaches(step.way, c.host) =>
           P!Moved(c, {c.at + 1} \cup P!Caught(step, c), {c.state}, {c.host}, own) \subseteq P!After(step, c)
  BY <1>2, <1>3, <1>4, <1>5
<1> QED BY <1>6 DEF own

LEMMA ChangeKeeps ==
    ASSUME NEW own, NEW trust, Stepping(own, trust), P!Change
    PROVE  Well
<1> DEFINE step == P!Steps[at]
           c == Here(own, trust)
           more == IF step.op = "sets" THEN own \cup {step.arg} ELSE own \ {step.arg}
           to == IF step.op = "sets" THEN changed \cup {step.arg} ELSE changed \ {step.arg}
<1>1. c.at = at /\ c.state = state /\ c.host = platformHost /\ c.own = own
  BY HereFields
<1>2. step.op \in {"sets", "clears"} /\ P!Arg = step.arg
  BY DEF P!Change, P!Is, P!Runs, P!Arg
<1>3. UNCHANGED <<state, platformHost>>
  BY DEF P!Change, P!Changes
<1>4. Fits(own, trust) /\ to \subseteq FoundElse \cup more
  BY DEF Stepping, Fits
<1>5. CASE P!Reaches(step.way, platformHost) /\ changed' = to /\ (P!GoesOn \/ P!Raises)
  <2>1. P!Moved(c, {at + 1} \cup P!Caught(step, c), {state}, {platformHost}, more) \subseteq P!After(step, c)
    BY <1>1, <1>2, <1>5, ChangeMoves
  <2>2. \A i \in {at + 1} \cup P!Caught(step, c) : LeadsTo(i, own, trust, more)
    BY <1>3, <1>4, <1>5, <2>1, LeadsThere
  <2> QED BY <1>5, <2>2, GoesOnward, RaisesOnward
<1>6. CASE UNCHANGED changed /\ P!Raises
  <2>1. P!Stay(c, P!Caught(step, c)) \subseteq P!After(step, c)
    BY <1>2, ChangeMoves
  <2>2. \A i \in P!Caught(step, c) : LeadsTo(i, own, trust, own)
    BY <1>3, <1>4, <1>6, <2>1, StaysThere
  <2> QED BY <1>6, <2>2, RaisesOnward
<1>7. \/ P!Reaches(step.way, platformHost) /\ changed' = to /\ (P!GoesOn \/ P!Raises)
      \/ UNCHANGED changed /\ P!Raises
  BY <1>2 DEF P!Change, P!Changes, P!Is, P!Runs
<1> QED BY <1>5, <1>6, <1>7

LEMMA LookMoves ==
    ASSUME NEW step, NEW c
    PROVE  /\ step.op \in {"runs", "sees", "checks"} => P!Stay(c, P!Caught(step, c)) \subseteq P!After(step, c)
           /\ step.op = "runs" /\ P!Reaches(step.arg, c.host)
                => P!Stay(c, {c.at + 1}) \subseteq P!After(step, c)
           /\ step.op = "sees" /\ P!Shown(step.arg, c.host)
                => P!Stay(c, {c.at + 1}) \subseteq P!After(step, c)
           /\ step.op = "checks" =>
                P!Moved(c, {c.at + 1}, {c.state}, {c.host}, c.own \ {step.arg}) \subseteq P!After(step, c)
<1>1. step.op \in {"runs", "sees", "checks"} => P!After(step, c) = P!LookMoves(step, c)
  BY DEF P!After
<1>2. P!On(c) = {c.at + 1}
  BY DEF P!On
<1> QED BY <1>1, <1>2 DEF P!LookMoves, P!Only

LEMMA LooksKeep ==
    ASSUME NEW own, NEW trust, Stepping(own, trust), P!Run \/ P!See \/ P!Check
    PROVE  Well
<1> DEFINE step == P!Steps[at]
           c == Here(own, trust)
<1>1. c.at = at /\ c.state = state /\ c.host = platformHost /\ c.own = own
  BY HereFields
<1>2. step.op \in {"runs", "sees", "checks"} /\ P!Arg = step.arg
  BY DEF P!Run, P!See, P!Check, P!Is, P!Runs, P!Arg
<1>3. UNCHANGED <<state, platformHost, changed>>
  BY DEF P!Run, P!See, P!Check
<1>4. Fits(own, trust) /\ changed \subseteq FoundElse \cup own
  BY DEF Stepping, Fits
<1>5. CASE P!Raises
  <2>1. P!Stay(c, P!Caught(step, c)) \subseteq P!After(step, c)
    BY <1>2, LookMoves
  <2>2. \A i \in P!Caught(step, c) : LeadsTo(i, own, trust, own)
    BY <1>3, <1>4, <2>1, StaysThere
  <2> QED BY <1>5, <2>2, RaisesOnward
<1>6. CASE P!GoesOn /\ (\/ step.op = "runs" /\ P!Reaches(step.arg, platformHost)
                        \/ step.op = "sees" /\ P!Shown(step.arg, platformHost))
  <2>1. P!Stay(c, {at + 1}) \subseteq P!After(step, c)
    BY <1>1, <1>2, <1>6, LookMoves
  <2>2. LeadsTo(at + 1, own, trust, own)
    BY <1>3, <1>4, <2>1, StaysThere
  <2> QED BY <1>6, <2>2, GoesOnward
<1>7. CASE P!GoesOn /\ step.op = "checks" /\ step.arg \notin changed
  <2>1. P!Moved(c, {at + 1}, {state}, {platformHost}, own \ {step.arg}) \subseteq P!After(step, c)
    BY <1>1, <1>7, LookMoves
  <2>2. LeadsTo(at + 1, own, trust, own \ {step.arg})
    BY <1>3, <1>4, <1>7, <2>1, LeadsThere
  <2> QED BY <1>7, <2>2, GoesOnward
<1> QED BY <1>2, <1>5, <1>6, <1>7 DEF P!Run, P!See, P!Check, P!Is, P!Runs

LEMMA AwaitKeeps ==
    ASSUME NEW own, NEW trust, Stepping(own, trust), P!Await \/ P!PingsLost
    PROVE  Well
<1> DEFINE step == P!Steps[at]
           c == Here(own, trust)
<1>1. c.at = at
  BY HereFields
<1>2. step.op = "awaits" /\ P!GoesOn /\ UNCHANGED <<state, platformHost, changed>>
  BY DEF P!Await, P!PingsLost, P!Is, P!Runs
<1>3. P!Stay(c, {at + 1}) \subseteq P!After(step, c)
  BY <1>1, <1>2 DEF P!After, P!On
<1>4. LeadsTo(at + 1, own, trust, own)
  BY <1>2, <1>3, StaysThere DEF Stepping
<1> QED BY <1>2, <1>4, GoesOnward

LEMMA PowerMoves ==
    ASSUME NEW step, NEW c
    PROVE  /\ step.op \in {"powers", "resets"} => P!Stay(c, P!Caught(step, c)) \subseteq P!After(step, c)
           /\ step.op = "powers" =>
                P!Moved(c, {c.at + 1}, {c.state}, {P!Powered(step.arg, c.host)},
                        IF P!CutsPower(step.arg, c.host) THEN P!Cycled(c.own) ELSE c.own)
                  \subseteq P!After(step, c)
           /\ step.op = "resets" =>
                P!Moved(c, {c.at + 1}, {c.state},
                        IF c.host = "off" /\ "policy" \in c.own THEN {c.host, "ipl"} ELSE {c.host}, c.own)
                  \subseteq P!After(step, c)
<1>1. step.op \in {"powers", "resets"} => P!After(step, c) = P!PowerMoves(step, c)
  BY DEF P!After
<1>2. P!On(c) = {c.at + 1}
  BY DEF P!On
<1> QED BY <1>1, <1>2 DEF P!PowerMoves, P!Only

LEMMA PowerKeeps ==
    ASSUME NEW own, NEW trust, Stepping(own, trust), P!Power \/ P!ResetBMC
    PROVE  Well
<1> DEFINE step == P!Steps[at]
           c == Here(own, trust)
<1>1. c.at = at /\ c.state = state /\ c.host = platformHost /\ c.own = own
  BY HereFields
<1>2. step.op \in {"powers", "resets"} /\ P!Arg = step.arg /\ UNCHANGED state
  BY DEF P!Power, P!ResetBMC, P!Is, P!Runs, P!Arg
<1>3. Fits(own, trust) /\ changed \subseteq FoundElse \cup own
  BY DEF Stepping, Fits
<1>4. CASE UNCHANGED <<platformHost, changed>> /\ P!Raises
  <2>1. P!Stay(c, P!Caught(step, c)) \subseteq P!After(step, c)
    BY <1>2, PowerMoves
  <2>2. \A i \in P!Caught(step, c) : LeadsTo(i, own, trust, own)
    BY <1>2, <1>3, <1>4, <2>1, StaysThere
  <2> QED BY <1>4, <2>2, RaisesOnward
<1>5. CASE /\ step.op = "powers" /\ P!GoesOn /\ platformHost' = P!Powered(step.arg, platformHost)
           /\ changed' = IF P!CutsPower(step.arg, platformHost) THEN P!Cycled(changed) ELSE changed
  <2> DEFINE more == IF P!CutsPower(step.arg, platformHost) THEN P!Cycled(own) ELSE own
  <2>1. P!Moved(c, {at + 1}, {state}, {P!Powered(step.arg, platformHost)}, more) \subseteq P!After(step, c)
    BY <1>1, <1>5, PowerMoves
  <2>2. changed' \subseteq FoundElse \cup more
    BY <1>3, <1>5, LostToo
  <2>3. LeadsTo(at + 1, own, trust, more)
    BY <1>2, <1>5, <2>1, <2>2, LeadsThere
  <2> QED BY <1>5, <2>3, GoesOnward
<1>6. CASE /\ step.op = "resets" /\ P!GoesOn /\ UNCHANGED changed
           /\ platformHost' \in IF platformHost = "off" /\ "policy" \in changed THEN {platformHost, "ipl"}
                                ELSE {platformHost}
  <2> DEFINE hosts == IF platformHost = "off" /\ "policy" \in own THEN {platformHost, "ipl"}
                      ELSE {platformHost}
  <2>1. P!Moved(c, {at + 1}, {state}, hosts, own) \subseteq P!After(step, c)
    BY <1>1, <1>6, PowerMoves
  <2>2. "policy" \in P!Asked(platformTest)
    BY <1>6, StepForms DEF Stepping, P!Asked, P!Steps
  <2>3. platformHost' \in hosts
    BY <1>3, <1>6, <2>2 DEF FoundElse
  <2>4. LeadsTo(at + 1, own, trust, own)
    BY <1>2, <1>3, <1>6, <2>1, <2>3, LeadsThere
  <2> QED BY <1>6, <2>4, GoesOnward
<1>7. CASE P!Power
  BY <1>2, <1>4, <1>5, <1>7 DEF P!Power, P!Is, P!Runs
<1>8. CASE P!ResetBMC
  BY <1>4, <1>6, <1>8 DEF P!ResetBMC, P!Is, P!Runs
<1> QED BY <1>7, <1>8

LEMMA RebootMoves ==
    ASSUME NEW step, NEW c
    PROVE  /\ step.op \in {"types", "commands"} => P!Stay(c, P!Caught(step, c)) \subseteq P!After(step, c)
           /\ step.op = "types" => P!Stay(c, {c.at + 1} \cup P!Caught(step, c)) \subseteq P!After(step, c)
           /\ step.op \in {"types", "commands"} /\ P!Obeys(step.op, c.host) =>
                P!Moved(c, {c.at + 1} \cup P!Caught(step, c), {c.state}, {P!GoingTo(step.arg)},
                        IF step.arg = "checkstop" THEN P!Booted(c.own) ELSE c.own)
                  \subseteq P!After(step, c)
<1>1. step.op \in {"types", "commands"} => P!After(step, c) = P!RebootMoves(step, c)
  BY DEF P!After
<1>2. P!Either(step, c) = {c.at + 1} \cup P!Caught(step, c)
  BY DEF P!Either, P!On
<1>3. P!Stay(c, P!Caught(step, c)) \subseteq P!Stay(c, {c.at + 1} \cup P!Caught(step, c))
  <2>1. ASSUME NEW d \in P!Stay(c, P!Caught(step, c))
        PROVE  d \in P!Stay(c, {c.at + 1} \cup P!Caught(step, c))
    <3>1. PICK i \in P!Caught(step, c), x \in {c.state}, h \in {c.host} : d = P!Config(i, x, h, c.own, c.trust)
      BY <2>1 DEF P!Stay, P!Moved
    <3>2. i \in {c.at + 1} \cup P!Caught(step, c)
      BY <3>1
    <3> QED BY <3>1, <3>2 DEF P!Stay, P!Moved
  <2> QED BY <2>1
<1> QED BY <1>1, <1>2, <1>3 DEF P!RebootMoves, P!Only

LEMMA RebootKeeps ==
    ASSUME NEW own, NEW trust, Stepping(own, trust), P!Reboot
    PROVE  Well
<1> DEFINE step == P!Steps[at]
           c == Here(own, trust)
           more == IF step.arg = "checkstop" THEN P!Booted(own) ELSE own
<1>1. c.at = at /\ c.state = state /\ c.host = platformHost /\ c.own = own
  BY HereFields
<1>2. step.op \in {"types", "commands"} /\ P!Arg = step.arg /\ UNCHANGED state
  BY DEF P!Reboot, P!Is, P!Runs, P!Arg
<1>3. Fits(own, trust) /\ changed \subseteq FoundElse \cup own
  BY DEF Stepping, Fits
<1>4. CASE /\ P!Obeys(step.op, platformHost) /\ platformHost' = P!GoingTo(step.arg)
           /\ changed' = IF step.arg = "checkstop" THEN P!Booted(changed) ELSE changed
           /\ P!GoesOn \/ P!Raises
  <2>1. P!Moved(c, {at + 1} \cup P!Caught(step, c), {state}, {P!GoingTo(step.arg)}, more)
          \subseteq P!After(step, c)
    BY <1>1, <1>2, <1>4, RebootMoves
  <2>2. changed' \subseteq FoundElse \cup more
    BY <1>3, <1>4, LostToo
  <2>3. \A i \in {at + 1} \cup P!Caught(step, c) : LeadsTo(i, own, trust, more)
    BY <1>2, <1>4, <2>1, <2>2, LeadsThere
  <2> QED BY <1>4, <2>3, GoesOnward, RaisesOnward
<1>5. CASE step.op = "types" /\ UNCHANGED <<platformHost, changed>> /\ P!GoesOn
  <2>1. P!Stay(c, {at + 1} \cup P!Caught(step, c)) \subseteq P!After(step, c)
    BY <1>1, <1>5, RebootMoves
  <2>2. LeadsTo(at + 1, own, trust, own)
    BY <1>2, <1>3, <1>5, <2>1, StaysThere
  <2> QED BY <1>5, <2>2, GoesOnward
<1>6. CASE UNCHANGED <<platformHost, changed>> /\ P!Raises
  <2>1. P!Stay(c, P!Caught(step, c)) \subseteq P!After(step, c)
    BY <1>2, RebootMoves
  <2>2. \A i \in P!Caught(step, c) : LeadsTo(i, own, trust, own)
    BY <1>2, <1>3, <1>6, <2>1, StaysThere
  <2> QED BY <1>6, <2>2, RaisesOnward
<1> QED BY <1>2, <1>4, <1>5, <1>6 DEF P!Reboot, P!Runs

LEMMA MachineKeeps ==
    ASSUME P!TypeOK, InFootprint, P!Machine
    PROVE  Well
<1>1. UNCHANGED <<platformTest, at, platformOutcome, state, found, knew>>
  BY DEF P!Machine
<1>2. Seen' = Seen /\ FoundElse' = FoundElse
  BY <1>1 DEF Seen, FoundAsked, FoundElse
<1>3. PassesLeaving /\ PassesKnowing
  BY <1>1 DEF PassesLeaving, PassesKnowing, P!Passes
<1>4. ASSUME platformTest # "none", platformOutcome = "none" PROVE InFootprint'
  <2>1. PICK own, trust : Fits(own, trust) /\ Here(own, trust) \in Seen[at]
    BY <1>4 DEF InFootprint
  <2> DEFINE c == Here(own, trust)
  <2>2. c.at = at /\ c.state = state /\ c.host = platformHost /\ c.own = own /\ c.trust = trust
    BY HereFields
  <2>3. P!MachineMoves(c) \subseteq Seen[at]
    <3>1. AtStep
      BY PlatformTypes
    <3>2. at \in 1 .. Len(AllPrograms[platformTest].steps)
      BY <1>4, <3>1 DEF AtStep, P!Steps
    <3> QED BY <1>4, <2>1, <3>1, <3>2, Bounded DEF P!Bounds
  <2>4. ASSUME NEW more, NEW now, P!Config(at, state, platformHost', more, now) \in P!MachineMoves(c),
               changed' \subseteq FoundElse \cup more, knew /\ "bootme" \notin found => now # "lost",
               "bootme" \in FoundElse => now = "lost", now = "refused" => found \cap NotBooted # {}
        PROVE  InFootprint'
    <3>1. Here(more, now)' \in Seen'[at']
      BY <1>1, <1>2, <2>3, <2>4 DEF Here
    <3>2. Fits(more, now)'
      BY <1>1, <1>2, <2>4 DEF Fits
    <3> QED BY <1>1, <1>4, <3>1, <3>2 DEF InFootprint
  <2>5. ASSUME NEW hosts, NEW h \in hosts, NEW more
        PROVE  P!Config(at, state, h, more, trust) \in P!Moved(c, {at}, {state}, hosts, more)
    BY <2>2 DEF P!Moved
  <2> HIDE DEF c
  <2>6. CASE platformHost = "rebooting" /\ platformHost' = "ipl" /\ changed' = P!Booted(changed)
    <3>1. P!Moved(c, {at}, {state}, {"ipl"}, P!Booted(own)) \subseteq P!MachineMoves(c)
      BY <2>2, <2>6 DEF P!MachineMoves, P!Only
    <3>2. P!Config(at, state, "ipl", P!Booted(own), trust) \in P!MachineMoves(c)
      BY <2>5, <3>1
    <3> QED BY <2>1, <2>4, <2>6, <3>2, LostToo DEF Fits
  <2>7. CASE platformHost = "halting" /\ platformHost' = "off" /\ changed' = P!Cycled(changed)
    <3>1. P!Moved(c, {at}, {state}, {"off"}, P!Cycled(own)) \subseteq P!MachineMoves(c)
      BY <2>2, <2>7 DEF P!MachineMoves, P!Only
    <3>2. P!Config(at, state, "off", P!Cycled(own), trust) \in P!MachineMoves(c)
      BY <2>5, <3>1
    <3> QED BY <2>1, <2>4, <2>7, <3>2, LostToo DEF Fits
  <2>8. CASE platformHost = "ipl" /\ platformHost' \in {"petitboot", "os"} /\ UNCHANGED changed
    <3>1. P!Moved(c, {at}, {state}, {"petitboot", "os"}, own) \subseteq P!MachineMoves(c)
      BY <2>2, <2>8 DEF P!MachineMoves, P!Only
    <3>2. P!Config(at, state, platformHost', own, trust) \in P!MachineMoves(c)
      BY <2>5, <2>8, <3>1
    <3> QED BY <2>1, <2>4, <2>8, <3>2 DEF Fits
  <2>9. CASE /\ platformHost = "ipl" /\ changed \cap NotBooted # {}
             /\ platformHost' = "off" /\ changed' = P!Cycled(changed)
    <3> DEFINE now == IF trust = "knew" /\ own \cap NotBooted = {} THEN "refused" ELSE trust
    <3>1. P!Config(at, state, "off", P!Cycled(own), now) \in P!MachineMoves(c)
      BY <2>2, <2>9 DEF P!MachineMoves, P!Only
    <3>2. now = "refused" => found \cap NotBooted # {}
      BY <2>1, <2>9 DEF Fits, FoundElse
    <3>3. /\ knew /\ "bootme" \notin found => now # "lost"
          /\ "bootme" \in FoundElse => now = "lost"
      BY <2>1 DEF Fits
    <3> HIDE DEF now
    <3> QED BY <2>1, <2>4, <2>9, <3>1, <3>2, <3>3, LostToo
  <2>10. CASE platformHost = "os" /\ "bootme" \in changed /\ platformHost' = "rebooting" /\ UNCHANGED changed
    <3>1. trust = "lost" \/ "bootme" \in own
      BY <2>1, <2>10 DEF Fits
    <3>2. P!Moved(c, {at}, {state}, {"rebooting"}, own) \subseteq P!MachineMoves(c)
      BY <2>2, <2>10, <3>1 DEF P!MachineMoves, P!Only
    <3>3. P!Config(at, state, "rebooting", own, trust) \in P!MachineMoves(c)
      BY <2>5, <3>2
    <3> QED BY <2>1, <2>4, <2>10, <3>3 DEF Fits
  <2> QED BY <2>6, <2>7, <2>8, <2>9, <2>10 DEF P!Machine
<1> QED BY <1>1, <1>3, <1>4 DEF Well, InFootprint

LEMMA BeginTestKeeps ==
    ASSUME P!TypeOK, P!BeginTest
    PROVE  Well
<1> DEFINE trust == IF P!Agrees(state, platformHost) /\ "bootme" \notin changed THEN "knew" ELSE "lost"
<1>1. platformTest' \in DOMAIN AllPrograms /\ at' = 1 /\ platformOutcome' = "none" /\ found' = changed
      /\ knew' = P!Agrees(state, platformHost) /\ UNCHANGED <<state, platformHost, changed>>
  BY PlatformAssumption DEF P!BeginTest
<1>2. P!Config(1, state, platformHost, FoundAsked', trust) \in P!Starts(FoundAsked')
  <2>1. state \in P!States /\ platformHost \in P!Hosts
    BY PlatformTypes
  <2>2. CASE trust = "lost"
    BY <1>1, <2>1, <2>2 DEF P!Starts
  <2>3. CASE trust = "knew"
    <3> DEFINE p == <<state, platformHost>>
    <3>1. p \in {q \in P!States \X P!Hosts : P!Agrees(q[1], q[2])}
      BY <2>1, <2>3
    <3>2. P!Config(1, p[1], p[2], FoundAsked', "knew") \in P!Starts(FoundAsked')
      BY <3>1 DEF P!Starts
    <3> QED BY <2>3, <3>2
  <2> QED BY <2>2, <2>3
<1>3. P!Starts(FoundAsked') \subseteq Seen'[1]
  <2>1. FoundAsked' \in SUBSET P!Asked(platformTest')
    BY DEF FoundAsked
  <2> QED BY <1>1, <2>1, FootprintAssumption DEF P!Bounds, Seen
<1>4. Here(FoundAsked, trust)' \in Seen'[at']
  BY <1>1, <1>2, <1>3 DEF Here
<1>5. Fits(FoundAsked, trust)'
  BY <1>1 DEF Fits, FoundElse, FoundAsked
<1>6. InFootprint'
  BY <1>1, <1>4, <1>5 DEF InFootprint
<1> QED BY <1>6 DEF Well, PassesLeaving, PassesKnowing, P!Passes, P!BeginTest

\* A test that has failed does not pass any more.
LEMMA FailedKeeps ==
    ASSUME platformTest # "none", platformOutcome \in {"failed", "skipped"},
           \/ P!GoesOn \/ P!Raises \/ P!GoesTo(at + P!Steps[at].n, platformOutcome)
           \/ P!GoesTo(at + 1, platformOutcome)
    PROVE  Well
<1>1. ASSUME NEW i, P!GoesTo(i, platformOutcome) PROVE platformOutcome' \in {"failed", "skipped"}
  BY <1>1 DEF P!GoesTo, P!EndsWith
<1>2. ASSUME NEW how \in {"failed", "skipped"}, P!Leaves(how) PROVE platformOutcome' \in {"failed", "skipped"}
  <2>1. P!SoFar(how) \in {"failed", "skipped"}
    BY DEF P!SoFar
  <2> QED BY <1>2, <2>1 DEF P!Leaves, P!GoesTo, P!EndsWith
<1>3. platformOutcome' \in {"failed", "skipped"}
  <2>1. CASE P!Raises
    <3>1. PICK e \in P!Steps[at].els : CASE e = 0 -> P!Leaves("failed")
                                        [] e = P!Skip -> P!Leaves("skipped")
                                        [] OTHER -> P!GoesTo(at + e, platformOutcome)
      BY <2>1 DEF P!Raises
    <3> QED BY <1>1, <1>2, <3>1
  <2> QED BY <1>1, <2>1 DEF P!GoesOn
<1> QED BY <1>3 DEF Well, InFootprint, PassesLeaving, PassesKnowing, P!Passes

LEMMA FootprintStep ==
    P!TypeOK /\ InFootprint /\ (P!Next \/ UNCHANGED platformVars) => Well
<1> SUFFICES ASSUME P!TypeOK, InFootprint, P!Next \/ UNCHANGED platformVars PROVE Well
  OBVIOUS
<1>1. CASE UNCHANGED platformVars
  BY <1>1 DEF platformVars, Well, InFootprint, Fits, Here, Seen, FoundAsked, FoundElse,
              PassesLeaving, PassesKnowing, P!Passes
<1>2. CASE P!BeginTest
  BY <1>2, BeginTestKeeps
<1>3. CASE P!Machine
  BY <1>3, MachineKeeps
<1>4. CASE P!Control \/ P!GotoState \/ P!SetState \/ P!Command \/ P!PingsLost
  <2>1. platformTest # "none" /\ UNCHANGED <<found, knew>>
    BY <1>4 DEF P!Control, P!GotoState, P!SetState, P!Command, P!Run, P!Change, P!Check, P!Power, P!ResetBMC,
                P!Reboot, P!See, P!Await, P!PingsLost, P!Is, P!Runs, P!KeepsTest
  <2>2. AtStep /\ platformOutcome \in PlatformOutcomes \ {"passed"}
    BY <2>1, PlatformTypes DEF InFootprint
  <2>3. CASE platformOutcome = "none"
    <3>1. PICK own, trust : Fits(own, trust) /\ Here(own, trust) \in Seen[at]
      BY <2>1, <2>3 DEF InFootprint
    <3>2. Stepping(own, trust)
      BY <2>1, <2>2, <2>3, <3>1 DEF Stepping
    <3> QED BY <1>4, <3>2, ControlKeeps, GotoStateKeeps, SetStateKeeps, ChangeKeeps, LooksKeep, PowerKeeps,
               RebootKeeps, AwaitKeeps DEF P!Command
  <2>4. CASE platformOutcome # "none"
    BY <1>4, <2>1, <2>2, <2>4, FailedKeeps, StepsGoOn DEF PlatformOutcomes
  <2> QED BY <2>3, <2>4
<1> QED BY <1>1, <1>2, <1>3, <1>4 DEF P!Next, P!OpTest

LEMMA FootprintInit == P!Init => InFootprint
BY DEF P!Init, InFootprint

-----------------------------------------------------------------------------
(* The suites together                                                     *)

AllInv == FlashInv /\ KernelInv /\ P!TypeOK

LEMMA AllInitInv == AllInit => AllInv
BY FlashInit, KernelInvInit, PlatformInit DEF AllInit, AllInv

\* Whatever suite makes a step, each of the three makes one of its own, or none.
LEMMA AllNextMoves ==
    [AllNext]_allVars => /\ [Next]_vars
                         /\ K!Next \/ UNCHANGED kernelsVars
                         /\ P!Next \/ UNCHANGED platformVars
BY Zenon DEF AllNext, allVars, FlashSuite, KernelsSuite, PlatformSteps

LEMMA AllStepInv == AllInv /\ [AllNext]_allVars => AllInv'
BY AllNextMoves, FlashStep, KernelInvStep, PlatformStep DEF AllInv

LEMMA AllInductive == AllSpec => []AllInv
BY AllInitInv, AllStepInv, PTL DEF AllSpec

\* Every reachable state of the three suites is type correct: a flash test makes no
\* more attempts and polls than it may (OpTestOpenBMC's RestAPI), a bisection stays
\* in its history, and a test of Platform is at one of its steps.
THEOREM TypeCorrect == AllSpec => []AllTypeOK
<1>1. AllInv => AllTypeOK
  BY KernelInvTypes DEF AllInv, AllTypeOK, FlashInv
<1> QED BY AllInductive, <1>1, PTL

\* A flash test that passes leaves an image active, or the BMC running it, and that
\* is the image it was given or one it cannot tell from it, whatever versions there
\* are, tests before it left, and requests and answers are lost (BmcImageFlash,
\* PNORFLASH, loop_it).
THEOREM FlashedIsPassed == AllSpec => PassedIsFlashed
<1>1. AllInv /\ [AllNext]_allVars =>
        [outcome' = "passed" =>
            /\ img \in {Mine} \cup others
            /\ kind = "pnor" \/ already' => image[img] = "Active"
            /\ kind = "bmc" /\ ~already' => functional = img]_outcome
  BY AllNextMoves, FlashPasses DEF AllInv, Alike
<1> QED BY AllInductive, <1>1, PTL DEF AllSpec, PassedIsFlashed

\* What a test of a command line, a kernel or a bisection says when it passes is
\* true, and it has left nothing of its own on the command line, for every number
\* of commits, settings and kexec rounds (update_kernel_cmdline, OpTestKuepKuap,
\* DlparMemHotplug, InstallUpstreamKernel, BisectKernel, OpTestKernelTest).
THEOREM KernelsTrue == AllSpec => PassedIsTrue
<1>1. AllInv /\ [AllNext]_allVars =>
        [kernelsOutcome' = "passed" =>
          /\ kernelsKind = "arg" /\ ~unread' =>
                add \subseteq running.args /\ remove \cap running.args = {}
          /\ kernelsKind = "kuap" /\ ~unread' => a \in ran.args
          /\ kernelsKind \in {"install", "kexec"} => running.kernel = K!New
          /\ kernelsKind \in K!Bisections => named' = culprit \/ misjudged']_kernelsOutcome
  BY AllNextMoves, KernelPasses DEF AllInv, TrueNow, kernelsVars
<1>2. AllInv /\ [AllNext]_allVars =>
        [kernelsOutcome' = "passed" /\ ~unread' =>
          /\ kernelsKind = "kuap" => a \notin config'
          /\ kernelsKind = "hotplug" /\ ~missed' => config' \cap K!Setting = {}]_kernelsOutcome
  BY AllNextMoves, KernelPasses DEF AllInv, LeftNow, kernelsVars
<1> QED
  BY AllInductive, <1>1, <1>2, PTL
     DEF AllSpec, PassedIsTrue, K!PassedIsTrue, K!PassedLeavesArgs

LEMMA FootprintAlways == AllSpec => []InFootprint
<1>1. AllInit => InFootprint
  BY FootprintInit DEF AllInit
<1>2. AllInv /\ InFootprint /\ [AllNext]_allVars => InFootprint'
  BY AllNextMoves, FootprintStep DEF AllInv, Well
<1> QED BY AllInductive, <1>1, <1>2, PTL DEF AllSpec

\* However many tests of Platform one machine goes through, and in whatever order,
\* one that passes has put back what it changed but for what it is known to leave,
\* and op-test then knows where the machine is, if it knew when the test began
\* (goto_state, set_state and the tests' own commands, setUp and tearDown).
THEOREM PutsBack == AllSpec => PassedPutsBack
<1>1. AllInv /\ InFootprint /\ [AllNext]_allVars =>
        [P!Passes => changed' \subseteq found \cup AllLeaveBehind[platformTest]
                                 \cup {c \in {"backup"} : "kdumpconf" \in found}]_(P!vars)
  BY AllNextMoves, FootprintStep DEF AllInv, Well, PassesLeaving
<1>2. AllInv /\ InFootprint /\ [AllNext]_allVars =>
        [P!Passes /\ knew /\ platformTest \notin MoveUntold /\ found \cap {"policy", "bootme"} = {}
           => \/ P!Agrees(state', platformHost')
              \/ state' \in {"IPLing", "BOOTING"} /\ found \cap NotBooted # {}]_(P!vars)
  BY AllNextMoves, FootprintStep DEF AllInv, Well, PassesKnowing
<1> QED
  BY AllInductive, FootprintAlways, <1>1, <1>2, PTL
     DEF AllSpec, PassedPutsBack, P!PassedLeaves, P!PassedKnows

-----------------------------------------------------------------------------
(* KernelDump: which dump a test passes on, and which monitors it leaves    *)

EarlyInDump == {"clean", "list", "begin"}
LateInDump == {"begin", "prepare", "ready", "trigger", "check", "verify"}

InTests == IF dumpPc = "over" THEN dumpTest = DumpLast + 1 ELSE dumpTest \in D!Tests

\* A test starts no monitor and asks for no crash before its kernel_crash().
NotYet ==
    \A t \in D!Tests :
        /\ t > dumpTest \/ (t = dumpTest /\ dumpPc \in EarlyInDump) =>
                mpc[t] = "none" /\ t \notin armed \cup restarts
        /\ t \in armed \cup restarts => crashType[t] \in D!Late
        /\ t \in dumps \cup {cause} => t <= dumpTest

\* The LPAR is down by somebody's trigger.
DownByTrigger == lpar = "down" <=> cause # D!Nobody

\* Once the old dumps are listed, a crash is the test's or came late, and so is
\* that of a new dump.
Owned(t) == t \in crashedSince /\ (t = dumpTest \/ crashType[t] \in D!Late)

DumpOwned ==
    dumpPc \in LateInDump =>
        /\ cause # D!Nobody => Owned(cause)
        /\ \A d \in dumps \ crashContent : Owned(d)

FoundLast == foundDump # D!Nobody => dumpPc \in {"clean", "over", "hung"}

\* What kernel_crash() returned is what the monitor was told.
MonitorTold ==
    dumpPc = "verify" =>
        crashResult = "INVALID" \/ (crashResult = "KDUMPKERNEL" /\ dumpTest \in stopConsole)

DumpOrder == InTests /\ NotYet /\ DownByTrigger
DumpInv == D!TypeOK /\ DumpOrder /\ DumpOwned /\ FoundLast /\ MonitorTold /\ D!OwnDump /\ D!OnlyFailuresForget

LEMMA DumpInit == D!Init => DumpInv
<1> SUFFICES ASSUME D!Init PROVE DumpInv
  OBVIOUS
<1> USE DumpAssumption DEF AllCrashTypes
<1>1. D!TypeOK
  <2>1. dumpTest \in 1 .. DumpLast + 1 /\ monitorTries \in [D!Tests -> 0 .. Retries - 1]
    BY DEF D!Init
  <2>2. dumpPc \in {"clean", "over"}
    BY DEF D!Init
  <2> QED
    BY <2>1, <2>2 DEF D!Init, D!TypeOK, D!Talking
<1>2. InTests /\ DownByTrigger
  BY DEF D!Init, InTests, DownByTrigger, D!Tests
<1>4. NotYet
  BY DEF D!Init, NotYet, D!Tests, D!Nobody
<1>5. DumpOwned /\ FoundLast /\ MonitorTold /\ D!OwnDump /\ D!OnlyFailuresForget
  BY DEF D!Init, DumpOwned, FoundLast, MonitorTold, D!OwnDump, D!OnlyFailuresForget, D!Watching, LateInDump
<1> QED
  BY <1>1, <1>2, <1>4, <1>5 DEF DumpInv, DumpOrder

\* A monitor touches the console and its own variables.
LEMMA MonitorLeaves ==
    ASSUME NEW m \in D!Tests, D!Monitor(m)
    PROVE  /\ UNCHANGED <<D!main, D!machine, stopConsole>>
           /\ mpc[m] \in D!Watching
           /\ \E to \in D!Watching \cup {"done"} : mpc' = [mpc EXCEPT ![m] = to]
<1> USE DEF D!Goes, D!Watching
<1>1. CASE D!Deactivate(m)
  BY <1>1 DEF D!Deactivate
<1>2. CASE D!Reuse(m)
  BY <1>2 DEF D!Reuse, D!Connected
<1>3. CASE D!Connect(m)
  BY <1>3 DEF D!Connect
<1>4. CASE D!Mkvterm(m)
  BY <1>4 DEF D!Mkvterm, D!Connected
<1>5. CASE D!MkvtermFails(m)
  BY <1>5 DEF D!MkvtermFails
<1>6. CASE D!WatchEnds(m)
  BY <1>6 DEF D!WatchEnds
<1>7. CASE D!Release(m)
  BY <1>7 DEF D!Release
<1> QED
  BY <1>1, <1>2, <1>3, <1>4, <1>5, <1>6, <1>7 DEF D!Monitor

\* What a line of the console shows is among the flags of a monitor.
LEMMA PrintsFlags ==
    ASSUME D!TypeOK, D!Prints(D!KernelLines) \/ D!Prints(D!LoginLines)
    PROVE  monitorSeen' \in [D!Tests -> {"nothing", "reboot", "login"}]
BY DEF D!TypeOK, D!Prints, D!KernelLines, D!LoginLines, D!Readers

LEMMA DumpStepTypes == DumpInv /\ [D!Next]_(D!vars) => D!TypeOK'
<1> SUFFICES ASSUME DumpInv, [D!Next]_(D!vars) PROVE D!TypeOK'
  OBVIOUS
<1> USE DumpAssumption DEF AllCrashTypes, DumpInv, DumpOrder
<1>0. D!TypeOK /\ InTests /\ DownByTrigger
  OBVIOUS
<1>e. D!EndTest /\ dumpPc # "over" =>
        dumpTest' \in 1 .. DumpLast + 1 /\ dumpPc' \in {"clean", "over"} /\ crashContent' = {}
  BY <1>0 DEF D!EndTest, InTests, D!Tests
<1>1. CASE D!Clean
  BY <1>0, <1>1 DEF D!TypeOK, D!Clean, D!Talking, D!Nobody, D!Tests, D!monitor, D!console
<1>2. CASE D!List
  BY <1>0, <1>e, <1>2 DEF D!TypeOK, D!List, D!Talking, D!machine, D!monitor, D!console
<1>3. CASE D!Begin
  BY <1>0, <1>e, <1>3 DEF D!TypeOK, D!Begin, D!Talking, D!Watching, D!machine, D!console
<1>4. CASE D!Prepare
  BY <1>0, <1>e, <1>4 DEF D!TypeOK, D!Prepare, D!Talking, D!machine, D!monitor, D!console
<1>5. CASE D!ConsoleReady
  BY <1>0, <1>5 DEF D!TypeOK, D!ConsoleReady, D!Talking, D!machine, D!monitor, D!console
<1>6. CASE D!ConsoleLate
  <2>1. stopConsole' \subseteq D!Tests
    BY <1>0, <1>6 DEF D!ConsoleLate, D!StopsMonitor, D!TypeOK, InTests
  <2> QED
    BY <1>0, <1>e, <1>6, <2>1 DEF D!TypeOK, D!ConsoleLate, D!Talking, D!machine, D!monitor, D!console
<1>7. CASE D!Trigger
  <2>1. monitorSeen' \in [D!Tests -> {"nothing", "reboot", "login"}]
    BY <1>0, <1>7, PrintsFlags DEF D!Trigger, D!Crashes, D!TypeOK
  <2>2. dumpTest \in D!Tests
    BY <1>0, <1>7 DEF D!Trigger, InTests
  <2> QED
    BY <1>0, <1>7, <2>1, <2>2 DEF D!TypeOK, D!Trigger, D!Crashes, D!Talking, D!console
<1>8. CASE D!SSHAvailable
  <2>1. dumpTest \in D!Tests
    BY <1>0, <1>8 DEF D!SSHAvailable, InTests
  <2> QED
    BY <1>0, <1>8, <2>1 DEF D!TypeOK, D!SSHAvailable, D!StopsMonitor, D!Talking, D!machine, D!monitor, D!console
<1>9. CASE D!SSHTimeout
  BY <1>0, <1>9 DEF D!TypeOK, D!SSHTimeout, D!Talking, D!machine, D!monitor, D!console
<1>10. CASE D!Verify
  <2>1. /\ dumps' \subseteq D!Tests
        /\ foundDump' \in D!Tests \cup {D!Nobody}
    BY <1>0, <1>10 DEF D!TypeOK, D!Verify, D!New
  <2>2. dumpTest' \in 1 .. DumpLast + 1 /\ dumpPc' \in {"clean", "over"} /\ crashContent' = {}
    BY <1>e, <1>10 DEF D!Verify
  <2> QED
    BY <1>0, <1>10, <2>1, <2>2 DEF D!TypeOK, D!Verify, D!Talking, D!monitor, D!console
<1>11. CASE D!DumpAndReboot
  <2>1. monitorSeen' \in [D!Tests -> {"nothing", "reboot", "login"}]
    BY <1>0, <1>11, PrintsFlags DEF D!DumpAndReboot
  <2> QED
    BY <1>0, <1>11, <2>1 DEF D!TypeOK, D!DumpAndReboot, DownByTrigger, D!main, D!console
<1>12. CASE D!BootsUp
  <2>1. monitorSeen' \in [D!Tests -> {"nothing", "reboot", "login"}]
    BY <1>0, <1>12, PrintsFlags DEF D!BootsUp
  <2> QED
    BY <1>0, <1>12, <2>1 DEF D!TypeOK, D!BootsUp, D!main, D!console
<1>13. ASSUME NEW t \in D!Tests, D!LateCrash(t), restarts' \subseteq restarts PROVE D!TypeOK'
  <2>1. monitorSeen' \in [D!Tests -> {"nothing", "reboot", "login"}]
    BY <1>0, <1>13, PrintsFlags DEF D!LateCrash, D!Crashes
  <2> QED
    BY <1>0, <1>13, <2>1 DEF D!TypeOK, D!LateCrash, D!Crashes, D!console
<1>14. ASSUME NEW m \in D!Tests, D!Monitor(m) PROVE D!TypeOK'
  <2> USE DEF D!TypeOK, D!Goes, D!Watching, D!main, D!machine, D!console
  <2>1. CASE D!Deactivate(m)
    BY <1>0, <2>1 DEF D!Deactivate, D!Rmvterm, D!Nobody
  <2>0. 0 \in 0 .. Retries - 1
    OBVIOUS
  <2>2. CASE D!Reuse(m)
    BY <1>0, <2>0, <2>2 DEF D!Reuse, D!Connected, D!EndTries
  <2>3. CASE D!Connect(m)
    BY <1>0, <2>3 DEF D!Connect, D!Nobody
  <2>4. CASE D!Mkvterm(m)
    BY <1>0, <2>0, <2>4 DEF D!Mkvterm, D!Connected, D!EndTries
  <2>5. CASE D!MkvtermFails(m)
    <3>0. mpc' \in [D!Tests -> D!Watching \cup {"none", "done"}]
      <4>1. PICK to \in {"release", "deactivate"} : mpc' = [mpc EXCEPT ![m] = to]
        BY <2>5 DEF D!MkvtermFails
      <4> QED BY <1>0, <4>1
    <3>1. monitorTries[m] \in 0 .. Retries - 1
      BY <1>0
    <3>2. ~D!LastTry(m) => monitorTries[m] + 1 \in 0 .. Retries - 1
      BY <3>1 DEF D!LastTry
    <3>3. 0 \in 0 .. Retries - 1
      OBVIOUS
    <3>4. CASE D!LastTry(m)
      <4>1. monitorTries' = [monitorTries EXCEPT ![m] = 0]
        BY <2>5, <3>4 DEF D!MkvtermFails, D!EndTries
      <4>2. monitorTries' \in [D!Tests -> 0 .. Retries - 1]
        BY <1>0, <3>3, <4>1
      <4> QED
        BY <1>0, <2>5, <3>4, <4>2, <3>0 DEF D!MkvtermFails
    <3>5. CASE ~D!LastTry(m)
      <4>1. monitorTries' = [monitorTries EXCEPT ![m] = monitorTries[m] + 1]
        BY <2>5, <3>5 DEF D!MkvtermFails
      <4>2. monitorTries' \in [D!Tests -> 0 .. Retries - 1]
        BY <1>0, <3>2, <3>5, <4>1
      <4> QED
        BY <1>0, <2>5, <3>5, <4>2, <3>0 DEF D!MkvtermFails
    <3> QED
      BY <3>4, <3>5
  <2>6. CASE D!WatchEnds(m)
    BY <1>0, <2>6 DEF D!WatchEnds
  <2>7. CASE D!Release(m)
    BY <1>0, <2>7 DEF D!Release, D!Rmvterm, D!Nobody
  <2> QED
    BY <1>14, <2>1, <2>2, <2>3, <2>4, <2>5, <2>6, <2>7 DEF D!Monitor
<1>15. CASE UNCHANGED D!vars
  BY <1>0, <1>15 DEF D!TypeOK, D!vars, D!main, D!machine, D!monitor, D!console
<1> QED
  BY <1>1, <1>2, <1>3, <1>4, <1>5, <1>6, <1>7, <1>8, <1>9, <1>10, <1>11, <1>12, <1>13, <1>14, <1>15
     DEF D!Next, D!Main, D!Host, D!WatchdogFires, D!DumpRestarts

\* Tests come one after the other, and dumps of no later one.
LEMMA DumpStepOrder == DumpInv /\ [D!Next]_(D!vars) => DumpOrder'
<1> SUFFICES ASSUME DumpInv, [D!Next]_(D!vars) PROVE DumpOrder'
  OBVIOUS
<1> USE DumpAssumption DEF AllCrashTypes, DumpOrder
<1>0. D!TypeOK /\ InTests /\ NotYet /\ DownByTrigger
  BY DEF DumpInv
<1>m. ASSUME NEW m \in D!Tests, D!Monitor(m) PROVE DumpOrder'
  <2>1. UNCHANGED <<dumpTest, dumpPc, crashType, armed, restarts, dumps, cause, lpar>>
    BY <1>m, MonitorLeaves DEF D!main, D!machine
  <2>2. InTests' /\ DownByTrigger'
    BY <1>0, <2>1 DEF InTests, DownByTrigger
  <2>3. NotYet'
    <3>1. PICK to \in D!Watching \cup {"done"} : mpc' = [mpc EXCEPT ![m] = to]
      BY <1>m, MonitorLeaves
    <3>2. mpc[m] # "none"
      BY <1>m, MonitorLeaves DEF D!Watching
    <3>3. \A t \in D!Tests : mpc[t] = "none" => mpc'[t] = "none"
      BY <1>0, <3>1, <3>2 DEF D!TypeOK
    <3> QED
      BY <1>0, <2>1, <3>3 DEF NotYet
  <2> QED
    BY <2>2, <2>3
<1>e. ASSUME D!EndTest, dumpPc # "over", UNCHANGED <<crashType, cause, lpar, armed, restarts, mpc>>,
             dumps' \subseteq dumps
      PROVE  DumpOrder'
  <2>1. InTests' /\ dumpTest' = dumpTest + 1 /\ dumpTest \in D!Tests
    BY <1>0, <1>e DEF InTests, D!EndTest, D!Tests
  <2>2. NotYet'
    BY <1>0, <1>e, <2>1 DEF NotYet, D!Tests
  <2> QED
    BY <1>0, <1>e, <2>1, <2>2 DEF DownByTrigger
<1>s. ASSUME UNCHANGED <<dumpTest, crashType, cause, lpar, armed, restarts, mpc>>, dumps' \subseteq dumps,
             dumpPc # "over", dumpPc' # "over", dumpPc' \in EarlyInDump => dumpPc \in EarlyInDump
      PROVE  DumpOrder'
  BY <1>0, <1>s DEF InTests, NotYet, DownByTrigger
<1>c. ASSUME NEW t \in D!Tests, D!Crashes(t), t <= dumpTest, restarts' \subseteq restarts,
             UNCHANGED <<dumpTest, crashType, dumps, mpc>>,
             dumpPc # "over" \/ dumpPc' = dumpPc, dumpPc' # "over" \/ dumpPc' = dumpPc, dumpPc' \in EarlyInDump => dumpPc \in EarlyInDump
      PROVE  DumpOrder'
  <2>1. t # D!Nobody
    BY DEF D!Tests, D!Nobody
  <2>2. InTests' /\ DownByTrigger'
    BY <1>0, <1>c, <2>1 DEF InTests, DownByTrigger, D!Crashes
  <2>3. NotYet'
    BY <1>0, <1>c DEF NotYet, D!Crashes
  <2> QED
    BY <2>2, <2>3
<1>1. CASE D!Clean
  <2>1. dumps' \subseteq dumps
    BY <1>1 DEF D!Clean
  <2> QED
    BY <1>1, <1>s, <2>1 DEF D!Clean, EarlyInDump, D!monitor
<1>2. CASE D!List
  BY <1>2, <1>s, <1>e DEF D!List, EarlyInDump, D!machine, D!monitor
<1>3. CASE D!Begin
  <2>1. CASE crashResult' = "refused" /\ D!EndTest /\ UNCHANGED <<crashType, mpc>>
    BY <1>3, <2>1, <1>e DEF D!Begin, D!machine
  <2>2. CASE UNCHANGED dumpTest /\ dumpPc' = "prepare"
               /\ mpc' = [mpc EXCEPT ![dumpTest] = "deactivate"]
               /\ \E k \in CrashTypes : crashType' = [crashType EXCEPT ![dumpTest] = k]
    <3>1. dumpTest \in D!Tests /\ dumpTest \notin armed \cup restarts /\ mpc[dumpTest] = "none"
      BY <1>0, <1>3 DEF D!Begin, InTests, NotYet, EarlyInDump
    <3>2. InTests' /\ DownByTrigger'
      BY <1>0, <1>3, <2>2, <3>1 DEF D!Begin, InTests, DownByTrigger, D!machine
    <3>3. NotYet'
      BY <1>0, <1>3, <2>2, <3>1 DEF D!Begin, NotYet, EarlyInDump, D!TypeOK, D!machine, D!Tests
    <3> QED
      BY <3>2, <3>3
  <2> QED
    BY <1>3, <2>1, <2>2 DEF D!Begin
<1>4. CASE D!Prepare
  BY <1>4, <1>s, <1>e DEF D!Prepare, EarlyInDump, D!machine, D!monitor
<1>5. CASE D!ConsoleReady
  BY <1>5, <1>s DEF D!ConsoleReady, EarlyInDump, D!machine, D!monitor
<1>6. CASE D!ConsoleLate
  BY <1>6, <1>s, <1>e DEF D!ConsoleLate, EarlyInDump, D!machine, D!monitor
<1>7. CASE D!Trigger
  <2>1. dumpTest \in D!Tests
    BY <1>0, <1>7 DEF D!Trigger, InTests
  <2>2. CASE D!Crashes(dumpTest) /\ UNCHANGED restarts
    BY <1>7, <1>c, <2>1, <2>2 DEF D!Trigger, EarlyInDump, D!Tests
  <2>3. CASE /\ armed' \subseteq armed \cup {dumpTest} /\ restarts' \subseteq restarts \cup {dumpTest}
             /\ UNCHANGED <<lpar, cause>> /\ crashType[dumpTest] \in D!Late
    BY <1>0, <1>7, <2>1, <2>3 DEF D!Trigger, EarlyInDump, InTests, NotYet, DownByTrigger, D!Tests
  <2>4. CASE UNCHANGED <<lpar, cause, armed, restarts>>
    BY <1>7, <1>s, <2>4 DEF D!Trigger, EarlyInDump
  <2> QED
    BY <1>7, <2>2, <2>3, <2>4 DEF D!Trigger, D!Late
<1>8. CASE D!SSHAvailable
  BY <1>8, <1>s DEF D!SSHAvailable, EarlyInDump, D!machine, D!monitor
<1>9. CASE D!SSHTimeout
  BY <1>9, <1>s DEF D!SSHTimeout, EarlyInDump, D!machine, D!monitor
<1>10. CASE D!Verify
  <2>1. dumps' \subseteq dumps
    BY <1>10 DEF D!Verify
  <2> QED
    BY <1>10, <1>e, <2>1 DEF D!Verify, D!monitor
<1>11. CASE D!DumpAndReboot
  <2>1. dumps' \subseteq dumps \cup {cause} /\ cause' = D!Nobody /\ lpar' = "booting"
    BY <1>11 DEF D!DumpAndReboot
  <2>2. NotYet'
    BY <1>0, <1>11, <2>1 DEF D!DumpAndReboot, NotYet, D!main, D!Tests, D!Nobody
  <2> QED
    BY <1>0, <1>11, <2>1, <2>2 DEF D!DumpAndReboot, InTests, DownByTrigger, D!main
<1>12. CASE D!BootsUp
  BY <1>0, <1>12 DEF D!BootsUp, InTests, NotYet, DownByTrigger, D!main
<1>13. ASSUME NEW t \in armed \cup restarts, D!LateCrash(t), restarts' \subseteq restarts PROVE DumpOrder'
  <2>1. t \in D!Tests /\ t <= dumpTest
    BY <1>0, <1>13 DEF NotYet, InTests, D!TypeOK, D!Tests
  <2>2. dumpPc' = dumpPc \/ (dumpPc # "over" /\ dumpPc' = "hung")
    BY <1>13 DEF D!LateCrash, D!AtCommand, D!Talking
  <2> QED
    BY <1>13, <1>c, <2>1, <2>2 DEF D!LateCrash, EarlyInDump
<1>15. CASE UNCHANGED D!vars
  BY <1>0, <1>15 DEF InTests, NotYet, DownByTrigger, D!vars, D!main, D!machine, D!monitor
<1> QED
  BY <1>m, <1>1, <1>2, <1>3, <1>4, <1>5, <1>6, <1>7, <1>8, <1>9, <1>10, <1>11, <1>12, <1>13, <1>15
     DEF D!Next, D!Main, D!Host, D!WatchdogFires, D!DumpRestarts

\* The steps of the LPAR and of monitors, and those of a test before its end.
LEMMA DumpStepOwned == DumpInv /\ [D!Next]_(D!vars) => DumpOwned' /\ FoundLast' /\ D!OwnDump'
<1> SUFFICES ASSUME DumpInv, [D!Next]_(D!vars) PROVE DumpOwned' /\ FoundLast' /\ D!OwnDump'
  OBVIOUS
<1>0. D!TypeOK /\ InTests /\ NotYet /\ DownByTrigger /\ DumpOwned /\ FoundLast /\ D!OwnDump
  BY DEF DumpInv, DumpOrder
<1> USE DEF DumpOwned, Owned, FoundLast, D!OwnDump, LateInDump
<1>s. ASSUME UNCHANGED <<dumpTest, crashType, cause, dumps, crashContent, crashedSince>>,
             dumpPc' \in LateInDump => dumpPc \in LateInDump,
             foundDump' = D!Nobody \/ UNCHANGED <<dumpPc, foundDump>>
      PROVE  DumpOwned' /\ FoundLast' /\ D!OwnDump'
  BY <1>0, <1>s
<1>e. ASSUME D!EndTest, UNCHANGED <<crashType, foundDump, crashedSince>>, dumpPc \in {"list", "begin", "prepare", "ready", "verify"}
      PROVE  DumpOwned' /\ FoundLast' /\ D!OwnDump'
  BY <1>0, <1>e DEF D!EndTest
<1>m. ASSUME NEW m \in D!Tests, D!Monitor(m) PROVE DumpOwned' /\ FoundLast' /\ D!OwnDump'
  BY <1>m, <1>s, MonitorLeaves DEF D!main, D!machine
<1>1. CASE D!Clean
  BY <1>0, <1>1 DEF D!Clean
<1>2. CASE D!List
  <2>1. CASE D!Reachable /\ crashContent' = dumps /\ dumpPc' = "begin" /\ UNCHANGED dumpTest
    BY <1>0, <1>2, <2>1 DEF D!List, D!Reachable, DownByTrigger, D!machine
  <2>2. CASE D!EndTest /\ UNCHANGED crashedSince
    BY <1>2, <1>e, <2>2 DEF D!List
  <2> QED
    BY <1>2, <2>1, <2>2 DEF D!List
<1>3. CASE D!Begin
  <2>1. CASE D!EndTest /\ UNCHANGED crashType
    BY <1>3, <1>e, <2>1 DEF D!Begin, D!machine
  <2>2. CASE UNCHANGED <<dumpTest, crashContent>> /\ dumpPc' = "prepare"
               /\ \E k \in CrashTypes : crashType' = [crashType EXCEPT ![dumpTest] = k]
    <3>1. \A t \in D!Tests : t # dumpTest => crashType'[t] = crashType[t]
      BY <1>0, <2>2 DEF D!TypeOK
    <3>2. foundDump' = D!Nobody /\ UNCHANGED <<dumpTest, cause, dumps, crashContent, crashedSince>>
      BY <1>0, <1>3, <2>2 DEF D!Begin, D!machine
    <3>3. \A t \in D!Tests : Owned(t) => Owned(t)'
      BY <3>1, <3>2
    <3>4. dumps \subseteq D!Tests /\ cause \in D!Tests \cup {D!Nobody}
      BY <1>0 DEF D!TypeOK
    <3> QED
      BY <1>0, <1>3, <2>2, <3>2, <3>3, <3>4 DEF D!Begin
  <2> QED
    BY <1>3, <2>1, <2>2 DEF D!Begin
<1>4. CASE D!Prepare
  <2>1. foundDump' = D!Nobody
    BY <1>0, <1>4 DEF D!Prepare
  <2> QED
    BY <1>4, <1>s, <1>e, <2>1 DEF D!Prepare, D!machine
<1>5. CASE D!ConsoleReady
  BY <1>0, <1>5, <1>s DEF D!ConsoleReady, D!machine
<1>6. CASE D!ConsoleLate
  <2>1. foundDump' = D!Nobody
    BY <1>0, <1>6 DEF D!ConsoleLate
  <2> QED
    BY <1>6, <1>s, <1>e, <2>1 DEF D!ConsoleLate, D!machine
<1>7. CASE D!Trigger
  BY <1>0, <1>7 DEF D!Trigger, D!Crashes
<1>8. CASE D!SSHAvailable
  BY <1>0, <1>8, <1>s DEF D!SSHAvailable, D!machine
<1>9. CASE D!SSHTimeout
  BY <1>0, <1>9, <1>s DEF D!SSHTimeout, D!machine
<1>10. CASE D!Verify
  <2>1. dumpTest' = dumpTest + 1 /\ dumpPc' \in {"clean", "over"} /\ foundDump = D!Nobody /\ dumpTest \in D!Tests
    BY <1>0, <1>10 DEF D!Verify, D!EndTest, InTests
  <2>2. foundDump' # D!Nobody => foundDump' \in D!New
    BY <1>10, <2>1 DEF D!Verify
  <2>3. \A d \in D!New : d \in crashedSince /\ (d = dumpTest \/ (d < dumpTest /\ crashType[d] \in D!Late))
    BY <1>0, <1>10, <2>1 DEF D!Verify, D!New, NotYet, D!TypeOK, D!Tests
  <2>4. UNCHANGED <<crashType, crashedSince>>
    BY <1>10 DEF D!Verify
  <2>5. D!OwnDump'
    BY <1>0, <2>1, <2>2, <2>3, <2>4 DEF D!TypeOK, D!Tests
  <2> QED
    BY <2>1, <2>5
<1>11. CASE D!DumpAndReboot
  <2>1. /\ dumps' \subseteq dumps \cup {cause} /\ cause' = D!Nobody
        /\ UNCHANGED <<dumpTest, dumpPc, crashType, crashContent, foundDump, crashedSince>>
    BY <1>11 DEF D!DumpAndReboot, D!main
  <2>2. cause # D!Nobody
    BY <1>0, <1>11 DEF D!DumpAndReboot, DownByTrigger
  <2> QED
    BY <1>0, <2>1, <2>2
<1>12. CASE D!BootsUp
  BY <1>12, <1>s DEF D!BootsUp, D!main
<1>13. ASSUME NEW t \in armed \cup restarts, D!LateCrash(t) PROVE DumpOwned' /\ FoundLast' /\ D!OwnDump'
  <2>1. crashType[t] \in D!Late
    BY <1>0, <1>13 DEF NotYet, D!TypeOK
  <2> QED
    BY <1>0, <1>13, <2>1 DEF D!LateCrash, D!Crashes
<1>15. CASE UNCHANGED D!vars
  BY <1>s, <1>15 DEF D!vars, D!main, D!machine
<1> QED
  BY <1>m, <1>1, <1>2, <1>3, <1>4, <1>5, <1>6, <1>7, <1>8, <1>9, <1>10, <1>11, <1>12, <1>13, <1>15
     DEF D!Next, D!Main, D!Host, D!WatchdogFires, D!DumpRestarts

LEMMA DumpStepTold == DumpInv /\ [D!Next]_(D!vars) => MonitorTold' /\ D!OnlyFailuresForget'
<1> SUFFICES ASSUME DumpInv, [D!Next]_(D!vars) PROVE MonitorTold' /\ D!OnlyFailuresForget'
  OBVIOUS
<1>0. D!TypeOK /\ InTests /\ NotYet /\ MonitorTold /\ D!OnlyFailuresForget
  BY DEF DumpInv, DumpOrder
<1> USE DEF MonitorTold, D!OnlyFailuresForget
<1>s. ASSUME UNCHANGED <<dumpTest, dumpPc, crashResult, mpc, stopConsole>> PROVE MonitorTold' /\ D!OnlyFailuresForget'
  BY <1>0, <1>s
<1>p. ASSUME dumpPc' \notin {"verify", "clean", "over"} PROVE MonitorTold' /\ D!OnlyFailuresForget'
  BY <1>p
<1>e. ASSUME D!EndTest, mpc'[dumpTest] \in D!Watching /\ dumpTest \notin stopConsole' => crashResult' \in {"setup", "INVALID"}
      PROVE  MonitorTold' /\ D!OnlyFailuresForget'
  <2>1. dumpTest' = dumpTest + 1 /\ dumpPc' \in {"clean", "over"}
    BY <1>e DEF D!EndTest
  <2>2. \A t \in D!Tests : t = dumpTest' - 1 => t = dumpTest
    BY <1>0, <2>1 DEF D!TypeOK, D!Tests
  <2> QED
    BY <1>e, <2>1, <2>2
<1>m. ASSUME NEW m \in D!Tests, D!Monitor(m) PROVE MonitorTold' /\ D!OnlyFailuresForget'
  <2>1. UNCHANGED <<dumpTest, dumpPc, crashResult, stopConsole>>
    BY <1>m, MonitorLeaves DEF D!main
  <2>2. PICK to \in D!Watching \cup {"done"} : mpc' = [mpc EXCEPT ![m] = to]
    BY <1>m, MonitorLeaves
  <2>3. \A t \in D!Tests : mpc'[t] \in D!Watching => mpc[t] \in D!Watching
    BY <1>0, <1>m, <2>2, MonitorLeaves DEF D!TypeOK
  <2> QED
    BY <1>0, <2>1, <2>3
<1>n. dumpPc \in EarlyInDump /\ dumpTest \in D!Tests => mpc[dumpTest] \notin D!Watching
  BY <1>0 DEF NotYet, D!Watching
<1>t. dumpPc # "over" => dumpTest \in D!Tests
  BY <1>0 DEF InTests
<1>1. CASE D!Clean
  BY <1>1, <1>p DEF D!Clean
<1>2. CASE D!List
  <2>1. mpc'[dumpTest] \notin D!Watching
    BY <1>2, <1>n, <1>t DEF D!List, EarlyInDump, D!monitor
  <2> QED
    BY <1>2, <1>p, <1>e, <2>1 DEF D!List
<1>3. CASE D!Begin
  <2>1. CASE D!EndTest /\ UNCHANGED mpc
    BY <1>3, <2>1, <1>n, <1>t, <1>e DEF D!Begin, EarlyInDump
  <2>2. CASE dumpPc' = "prepare"
    BY <2>2, <1>p
  <2> QED
    BY <1>3, <2>1, <2>2 DEF D!Begin
<1>4. CASE D!Prepare
  BY <1>4, <1>p, <1>e DEF D!Prepare
<1>5. CASE D!ConsoleReady
  BY <1>5, <1>p DEF D!ConsoleReady
<1>6. CASE D!ConsoleLate
  <2>1. CASE D!EndTest /\ IF mpc[dumpTest] = "done" THEN UNCHANGED stopConsole ELSE D!StopsMonitor
    <3>1. mpc'[dumpTest] = mpc[dumpTest]
      BY <1>6 DEF D!ConsoleLate, D!monitor
    <3>2. mpc'[dumpTest] \in D!Watching => dumpTest \in stopConsole'
      BY <2>1, <3>1 DEF D!StopsMonitor, D!Watching
    <3> QED
      BY <2>1, <3>2, <1>e
  <2>2. CASE dumpPc' = "trigger"
    BY <2>2, <1>p
  <2> QED
    BY <1>6, <2>1, <2>2 DEF D!ConsoleLate
<1>7. CASE D!Trigger
  BY <1>7, <1>p DEF D!Trigger
<1>8. CASE D!SSHAvailable
  BY <1>8 DEF D!SSHAvailable, D!StopsMonitor
<1>9. CASE D!SSHTimeout
  BY <1>9 DEF D!SSHTimeout
<1>10. CASE D!Verify
  BY <1>0, <1>10, <1>e DEF D!Verify
<1>11. CASE D!DumpAndReboot
  BY <1>11, <1>s DEF D!DumpAndReboot, D!main
<1>12. CASE D!BootsUp
  BY <1>12, <1>s DEF D!BootsUp, D!main
<1>13. ASSUME NEW t \in D!Tests, D!LateCrash(t) PROVE MonitorTold' /\ D!OnlyFailuresForget'
  BY <1>13, <1>s, <1>p DEF D!LateCrash
<1>15. CASE UNCHANGED D!vars
  BY <1>s, <1>15 DEF D!vars, D!main, D!monitor
<1> QED
  BY <1>m, <1>1, <1>2, <1>3, <1>4, <1>5, <1>6, <1>7, <1>8, <1>9, <1>10, <1>11, <1>12, <1>13, <1>15
     DEF D!Next, D!Main, D!Host, D!WatchdogFires, D!DumpRestarts

LEMMA DumpInductive == DumpSpec => []DumpInv
<1>1. DumpInv /\ [D!Next]_(D!vars) => DumpInv'
  BY DumpStepTypes, DumpStepOrder, DumpStepOwned, DumpStepTold DEF DumpInv
<1> QED
  BY DumpInit, <1>1, PTL DEF DumpSpec, D!Spec

-----------------------------------------------------------------------------
(* Every reachable state is type correct; no monitor connects more often    *)
(* than its retries allow (monitor_hmc_console).                            *)
THEOREM DumpTypeCorrect == DumpSpec => []D!TypeOK
<1>1. DumpInv => D!TypeOK
  BY DEF DumpInv
<1> QED
  BY DumpInductive, <1>1, PTL

(* A test that passes has found the dump of a crash that came after it      *)
(* listed the old ones: its own, or one that a test before it asked a       *)
(* watchdog or the HMC for (setup_test, kernel_crash, verify_dump_file).    *)
THEOREM DumpIsOwn == DumpSpec => []OwnDump
<1>1. DumpInv => OwnDump
  BY DEF DumpInv, OwnDump
<1> QED
  BY DumpInductive, <1>1, PTL

(* Only a failed preparation or a timeout of the SSH checks leaves a        *)
(* monitor running that was not told to stop (kernel_crash).                *)
THEOREM DumpMonitorsTold == DumpSpec => []OnlyFailuresForget
<1>1. DumpInv => OnlyFailuresForget
  BY DEF DumpInv, OnlyFailuresForget
<1> QED
  BY DumpInductive, <1>1, PTL

(* Tests whose crash comes with the command that asks for it are isolated   *)
(* from each other (setup_test).                                            *)
THEOREM DumpIsolated ==
    ASSUME CrashTypes \cap D!Late = {}
    PROVE  DumpSpec => []D!DumpIsolation
<1>1. DumpInv => D!DumpIsolation
  <2> SUFFICES ASSUME DumpInv, foundDump # D!Nobody PROVE foundDump = dumpTest - 1
    BY DEF D!DumpIsolation
  <2>1. foundDump \in D!Tests /\ crashType[foundDump] \in CrashTypes \cup {"none"}
    BY DEF DumpInv, D!TypeOK
  <2>2. crashType[foundDump] \notin D!Late
    BY <2>1 DEF D!Late
  <2> QED
    BY <2>2 DEF DumpInv, D!OwnDump
<1> QED
  BY DumpInductive, <1>1, PTL
=============================================================================
