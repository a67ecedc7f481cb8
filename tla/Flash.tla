------------------------------- MODULE Flash -------------------------------
(***************************************************************************)
(* Firmware updates of an OpenBMC machine: the tests BmcImageFlash and     *)
(* PNORFLASH of OpTestFlash, the image operations of HostManagement they   *)
(* call, the request loop Server.loop_it() under these, and the reboot of  *)
(* the BMC.                                                                *)
(*                                                                         *)
(* A request that changes something goes through loop_it() step by step:   *)
(* it may be lost, its answer may be lost, the session may have expired.   *)
(* A request that only reads is one step: repeated, it reads again.        *)
(***************************************************************************)
EXTENDS Naturals, FiniteSets

CONSTANTS
    Versions, Old,      \* the versions of the firmware, and the one at first
    Kinds,              \* the tests of a run
    Last,               \* how many it has
    Attempts,           \* how often loop_it() goes round before its deadline
    Polls               \* how often a test looks at the images: 60

ASSUME VersionsAssumption == Old \in Versions
ASSUME KindsAssumption == Kinds \subseteq {"bmc", "pnor"}
ASSUME LimitsAssumption ==
    Last \in Nat /\ Attempts \in Nat \ {0} /\ Polls \in Nat \ {0}

Images == {"bmc", "pnor"} \X Versions
NoImage == <<"none", Old>>

VARIABLES
    left,       \* the tests still to run
    pc,         \* where the running test is
    kind,       \* which it is
    version,    \* the version it flashes
    img,        \* img_id
    todo,       \* the images it has still to delete
    tries,      \* the attempts of a request, or the looks of a poll
    drained,    \* whether an attempt has read the file to upload to its end
    outcome,    \* what became of the last test
    others,     \* images of other tests that it neither removed nor listed
    already,    \* whether it found its image active, and did not flash
    uploads,    \* what the BMC has received and not unpacked yet
    image,      \* Activation of each image
    staged,     \* the images in /tmp/images
    priority,   \* the image with priority 0
    functional, \* the image the BMC runs
    bmc,        \* the BMC
    session     \* whether it knows the session of op-test

test == <<left, pc, kind, version, img, todo, tries, drained>>
history == <<outcome, others, already>>
machine == <<uploads, image, staged, priority, functional, bmc, session>>
vars == <<test, history, machine>>

Requests == {"upload", "delete", "erase", "priority", "activate"}
Reads == {"find", "active", "functional", "ready", "list", "appear", "pick",
          "await", "runtime", "validate"}
Steps == {"idle", "clean", "sweep", "reboot", "down", "up"}

TypeOK ==
    /\ left \in 0 .. Last
    /\ pc \in Requests \cup Reads \cup Steps
    /\ kind \in Kinds \cup {"none"}
    /\ version \in Versions
    /\ img \in Images \cup {NoImage}
    /\ todo \subseteq Images
    /\ tries \in 0 .. IF pc \in Requests THEN Attempts - 1 ELSE Polls
    /\ drained \in BOOLEAN
    /\ outcome \in {"none", "passed", "failed"}
    /\ others \subseteq Images /\ already \in BOOLEAN
    /\ uploads \subseteq Images
    /\ image \in [Images -> {"absent", "NotReady", "Ready", "Activating",
                             "Active", "Failed"}]
    /\ staged \subseteq Images
    /\ priority \in Images /\ functional \in Images
    /\ bmc \in {"up", "asked", "down", "booting"}
    /\ session \in BOOLEAN

Init ==
    /\ left = Last
    /\ pc = "idle"
    /\ kind = "none"
    /\ version = Old
    /\ img = NoImage
    /\ todo = {}
    /\ tries = 0
    /\ drained = FALSE
    /\ outcome = "none"
    /\ others = {} /\ already = FALSE
    /\ uploads = {}
    /\ image = [i \in Images |-> IF i[2] = Old THEN "Active" ELSE "absent"]
    /\ staged = {}
    /\ priority = <<"bmc", Old>> /\ functional = <<"bmc", Old>>
    /\ bmc = "up"
    /\ session = TRUE

Mine == <<kind, version>>
Answers == bmc \in {"up", "asked"}

\* The test goes on; a loop starts to count again.
Goes(to) == pc' = to /\ tries' = 0
Ends(how) == Goes("idle") /\ outcome' = how

\* The machine is off, the tests do the rest by themselves.
BeginTest ==
    /\ pc = "idle" /\ left > 0
    /\ left' = left - 1
    /\ kind' \in Kinds
    /\ version' \in Versions
    /\ Goes(IF kind' = "bmc" THEN "clean" ELSE "list")
    /\ img' = NoImage
    /\ todo' = {}
    /\ drained' = FALSE
    /\ outcome' = "none"
    /\ others' = {} /\ already' = FALSE
    /\ UNCHANGED <<uploads, image, staged, priority, functional, bmc, session>>

-----------------------------------------------------------------------------
\* Server.loop_it()

\* The requests for which the caller gives the minutes they may take.
Retried == pc # "upload"

GoesOn ==
    CASE pc = "delete" -> Goes("erase") /\ UNCHANGED outcome
      [] pc = "erase" -> Goes("sweep") /\ UNCHANGED outcome
      [] OTHER -> Ends("failed")

\* The old way to delete an image is tried when the new one raises.
GivesUp ==
    IF pc = "delete" THEN Goes("erase") /\ UNCHANGED outcome ELSE Ends("failed")

AfterDeadline == tries < Attempts

CountsAnew == tries' = 0

\* An exception, or an answer that is not 200.
OnceMore == tries + 1 < Attempts

Counted == tries' = tries + 1

Again ==
    \/ OnceMore /\ Counted /\ UNCHANGED <<pc, outcome>>
    \/ ~OnceMore /\ GivesUp

Raised ==
    \/ Retried /\ Again
    \/ ~Retried /\ Ends("failed")

\* What the BMC does when it accepts a request.
Accepts ==
    \/ /\ pc = "upload" /\ ~drained
       /\ uploads' = uploads \cup {Mine}
       /\ UNCHANGED <<image, staged, priority>>
    \/ /\ pc \in {"delete", "erase"} /\ image[img] # "absent"
       /\ image' = [image EXCEPT ![img] = "absent"]
       /\ staged' = staged \ {img}
       /\ UNCHANGED <<uploads, priority>>
    \/ /\ pc = "activate"
       /\ image' = [image EXCEPT ![img] = IF @ = "Ready" THEN "Activating" ELSE @]
       /\ UNCHANGED <<uploads, staged, priority>>
    \/ /\ pc = "priority"
       /\ priority' = img
       /\ UNCHANGED <<uploads, image, staged>>

Continues ==
    CASE pc = "upload" -> Goes(IF kind = "bmc" THEN "find" ELSE "appear")
      [] pc \in {"delete", "erase"} -> Goes("sweep")
      [] pc = "activate" -> Goes("await")
      [] pc = "priority" -> Goes("reboot")

Knows == Answers /\ session

Accepted ==
    /\ pc \in Requests /\ Knows
    /\ Accepts
    /\ Continues
    /\ UNCHANGED <<left, kind, version, img, todo, drained, history, functional,
                   bmc, session>>

AnswerLost ==
    /\ pc \in Requests /\ Knows
    /\ Accepts
    /\ Raised
    /\ UNCHANGED <<left, kind, version, img, todo, drained, others, already,
                   functional, bmc, session>>

\* The connection fails, or the BMC answers that it cannot; to an upload, which
\* is not retried, such an answer is only printed.
NotAnswered ==
    /\ pc \in Requests
    /\ Raised
    /\ UNCHANGED <<left, kind, version, img, todo, drained, others, already,
                   machine>>

Refused ==
    /\ pc \in Requests /\ Knows
    /\ \/ Retried /\ Again
       \/ ~Retried /\ Continues /\ UNCHANGED outcome
    /\ UNCHANGED <<left, kind, version, img, todo, drained, others, already,
                   machine>>

\* 401: after a login the request is sent again, but an upload has read its file
\* to the end.
Unauthorized ==
    /\ pc \in Requests /\ Answers /\ ~session
    /\ drained' = (drained \/ pc = "upload")
    /\ \/ session' = TRUE /\ Again
       \/ session' = FALSE /\ Raised
    /\ UNCHANGED <<left, kind, version, img, todo, others, already,
                   uploads, image, staged, priority, functional, bmc>>

-----------------------------------------------------------------------------
\* BmcImageFlash.runTest()

\* A failure to empty /tmp/images is passed over.
DeleteImagesDir ==
    /\ pc = "clean"
    /\ \/ Answers /\ staged' = {} /\ others' = {}
       \/ UNCHANGED staged /\ others' = staged
    /\ Goes("upload")
    /\ UNCHANGED <<left, kind, version, img, todo, drained, outcome, already,
                   uploads, image, priority, functional, bmc, session>>

\* Every read may fail: the exception ends the test.
ReadFails ==
    /\ pc \in Reads
    /\ Ends("failed")
    /\ UNCHANGED <<left, kind, version, img, todo, drained, others, already,
                   machine>>

Reading(at) == pc = at /\ Answers
KeepsElse == UNCHANGED <<left, kind, version, drained, others, machine>>

\* The ID is that of the directory with the version that was uploaded.
GetImageId ==
    /\ Reading("find") /\ Mine \in staged
    /\ img' = Mine
    /\ Goes("active")
    /\ UNCHANGED <<todo, outcome, already>> /\ KeepsElse

IsImageAlreadyActive ==
    /\ Reading("active") /\ image[img] # "absent"
    /\ already' = (image[img] = "Active")
    /\ Goes(IF already' THEN "functional" ELSE "ready")
    /\ UNCHANGED <<img, todo, outcome>> /\ KeepsElse

IsFunctional ==
    /\ Reading("functional")
    /\ IF functional = img THEN Ends("passed") ELSE Goes("priority") /\ UNCHANGED outcome
    /\ UNCHANGED <<img, todo, already>> /\ KeepsElse

\* The test takes the first image it finds ready; found at the last look is too
\* late.
IsReady(i) == i[1] = kind /\ image[i] = "Ready"

WaitForReady ==
    /\ Reading("ready")
    /\ \/ /\ \E i \in Images : IsReady(i) /\ img' = i
          /\ IF tries + 1 < Polls THEN Goes("activate") /\ UNCHANGED outcome
                                  ELSE Ends("failed")
       \/ /\ \A i \in Images : ~IsReady(i)
          /\ IF tries + 1 < Polls
             THEN tries' = tries + 1 /\ UNCHANGED <<pc, outcome>>
             ELSE Ends("failed")
          /\ UNCHANGED img
    /\ UNCHANGED <<todo, already>> /\ KeepsElse

-----------------------------------------------------------------------------
\* PNORFLASH.runTest()

HostImages == {i \in Images : i[1] = "pnor" /\ image[i] # "absent"}

ListToDelete ==
    /\ Reading("list")
    /\ todo' = HostImages
    /\ others' = {}
    /\ Goes("sweep")
    /\ UNCHANGED <<left, kind, version, img, drained, outcome, already, machine>>

Sweep ==
    /\ pc = "sweep"
    /\ IF todo = {} THEN Goes("upload") /\ UNCHANGED <<img, todo>>
       ELSE /\ img' \in todo
            /\ todo' = todo \ {img'}
            /\ Goes("delete")
    /\ UNCHANGED <<outcome, already>> /\ KeepsElse

Appears ==
    /\ Reading("appear")
    /\ \/ HostImages # {} /\ tries < Polls /\ Goes("pick") /\ UNCHANGED outcome
       \/ HostImages = {} /\ tries < Polls
          /\ tries' = tries + 1 /\ UNCHANGED <<pc, outcome>>
       \/ tries = Polls /\ Ends("failed")
    /\ UNCHANGED <<img, todo, already>> /\ KeepsElse

\* The first image that is ready, or the last of the list.
Pick ==
    /\ Reading("pick")
    /\ \E i \in HostImages :
          /\ image[i] = "Ready" \/ \A j \in HostImages : image[j] # "Ready"
          /\ img' = i
    /\ Goes("activate")
    /\ UNCHANGED <<todo, outcome, already>> /\ KeepsElse

-----------------------------------------------------------------------------
\* wait_for_image_active_complete() and the reboot of the BMC

Activated == image[img] = "Active"
WaitForActive ==
    /\ Reading("await") /\ image[img] # "absent"
    /\ \/ Activated /\ kind = "bmc" /\ Goes("reboot") /\ UNCHANGED outcome
       \/ Activated /\ kind = "pnor" /\ Ends("passed")
       \/ image[img] = "Failed" /\ Ends("failed")
       \/ /\ ~Activated /\ image[img] # "Failed"
          /\ IF tries < Polls THEN tries' = tries + 1 /\ UNCHANGED <<pc,
                                                                     outcome>>
                              ELSE Ends("failed")
    /\ UNCHANGED <<img, todo, already>> /\ KeepsElse

\* reboot over ssh: that the command fails is passed over.
Reboot ==
    /\ pc = "reboot"
    /\ \/ UNCHANGED bmc
       \/ bmc = "up" /\ bmc' = "asked"
    /\ Goes("down")
    /\ UNCHANGED <<left, kind, version, img, todo, drained, history, uploads,
                   image, staged, priority, functional, session>>

\* ping_fail_check() gives up after 500 answers, and nobody looks at what it
\* returns: the test goes on, the BMC down or not.
PingFailCheck ==
    /\ pc = "down"
    /\ Goes("up")
    /\ UNCHANGED <<img, todo, outcome, already>> /\ KeepsElse

PingFunc ==
    /\ pc = "up"
    /\ \/ bmc # "down" /\ Goes("runtime") /\ UNCHANGED outcome
       \/ Ends("failed")
    /\ UNCHANGED <<img, todo, already>> /\ KeepsElse

\* An image that was active already is not checked after the reboot.
WaitForBmcRuntime ==
    /\ Reading("runtime")
    /\ IF already THEN Ends("passed") ELSE Goes("validate") /\ UNCHANGED outcome
    /\ UNCHANGED <<img, todo, already>> /\ KeepsElse

BootsRight == functional = img
Validate ==
    /\ Reading("validate")
    /\ Ends(IF BootsRight THEN "passed" ELSE "failed")
    /\ UNCHANGED <<img, todo, already>> /\ KeepsElse

-----------------------------------------------------------------------------
\* The BMC.

\* An upload becomes a directory and an object some time after it is accepted:
\* an image is known by its version, and an old one stays what it is.
Unpacks ==
    /\ Answers
    /\ \E i \in uploads :
          /\ uploads' = uploads \ {i}
          /\ staged' = staged \cup {i}
          /\ image' = [image EXCEPT ![i] = IF @ = "absent" THEN "NotReady" ELSE @]
          /\ others' = others \cup ({i} \ {Mine})
    /\ UNCHANGED <<test, outcome, already, priority, functional, bmc, session>>

Verifies ==
    /\ Answers
    /\ \E i \in Images :
          \/ /\ image[i] = "NotReady"
             /\ \E s \in {"Ready", "Failed"} : image' = [image EXCEPT ![i] = s]
             /\ UNCHANGED priority
          \/ /\ image[i] = "Activating" /\ i \in staged
             /\ image' = [image EXCEPT ![i] = "Active"]
             /\ priority' = IF i[1] = "bmc" THEN i ELSE priority
          \/ /\ image[i] = "Activating"
             /\ image' = [image EXCEPT ![i] = "Failed"]
             /\ UNCHANGED priority
    /\ UNCHANGED <<test, history, uploads, staged, functional, bmc, session>>

GoesDown ==
    /\ bmc = "asked"
    /\ bmc' = "down"
    /\ session' = FALSE
    /\ uploads' = {}
    /\ staged' = {}
    /\ image' = [i \in Images |-> IF image[i] = "Active" THEN "Active" ELSE "absent"]
    /\ UNCHANGED <<test, history, priority, functional>>

\* It may boot from another side than it should.
ComesUp ==
    \/ /\ bmc = "down"
       /\ bmc' = "booting"
       /\ \E v \in Versions : image[<<"bmc", v>>] = "Active" /\ functional' = <<"bmc", v>>
       /\ UNCHANGED <<test, history, uploads, image, staged, priority, session>>
    \/ /\ bmc = "booting"
       /\ bmc' = "up"
       /\ UNCHANGED <<test, history, uploads, image, staged, priority,
                      functional, session>>

SessionExpires ==
    /\ session
    /\ session' = FALSE
    /\ UNCHANGED <<test, history, uploads, image, staged, priority, functional,
                   bmc>>

-----------------------------------------------------------------------------
OpTest ==
    \/ BeginTest
    \/ Accepted \/ AnswerLost \/ NotAnswered \/ Refused \/ Unauthorized
    \/ DeleteImagesDir \/ ReadFails \/ GetImageId \/ IsImageAlreadyActive
    \/ IsFunctional \/ WaitForReady
    \/ ListToDelete \/ Sweep \/ Appears \/ Pick
    \/ WaitForActive \/ Reboot \/ PingFailCheck \/ PingFunc \/ WaitForBmcRuntime
    \/ Validate

BMC == Unpacks \/ Verifies \/ GoesDown \/ ComesUp \/ SessionExpires

Next == OpTest \/ BMC

\* Every request, ping and wait of op-test has a deadline.  Nothing is promised
\* of the BMC.
Spec == Init /\ [][Next]_vars /\ WF_vars(OpTest)

-----------------------------------------------------------------------------
\* A flash test that passes leaves an image active, or the BMC running it, if it was
\* not active before; and whatever requests and answers are lost, that is the image it
\* was given, or one that no test could tell from it: uploaded by a test before it and
\* there only after it looked for what to delete, or left by a failure to delete.
PassedIsFlashed ==
    [][outcome' = "passed" =>
          /\ img \in {Mine} \cup others
          /\ kind = "pnor" \/ already' => image[img] = "Active"
          /\ kind = "bmc" /\ ~already' => functional = img]_outcome

\* Whatever the BMC does, all the tests come to an end.
Ended == left = 0 /\ pc = "idle"
TestsEnd == <>[]Ended
=============================================================================
