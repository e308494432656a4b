---------------------- MODULE GuestProvisioning_proofs ----------------------
(***************************************************************************)
(* Proofs about GuestProvisioning for any number of guests, upload names   *)
(* and requests in flight.                                                 *)
(***************************************************************************)
EXTENDS GuestProvisioning, TLAPS

Early == {"new", "attach-requested", "media-attached"}
Shell == {"new", "attach-requested"}
OnMedium == {"attach-requested", "media-attached", "installer-start-requested", "finish-requested"}
OnDisk == {"disk-ready", "disk-start-requested", "disk-boot-observed", "guest-installed-attested"}
Finishing == {"finish-requested"} \union OnDisk
Finishable == {"installer-start-requested", "finish-requested", "disk-ready"}
Bootable == {"disk-ready", "disk-start-requested", "disk-boot-observed"}

Working == proc.op \in Changes \union Starts
Flying(kind, g) == flight[[kind |-> kind, guest |-> g]] > 0

\* The running command works on one guest, whose journal it read.
AttachAt(g) ==
    /\ proc.pc = "journal" => journal[g] \in Early
    /\ proc.pc \in {"send", "wait"} => journal[g] = "attach-requested"
    /\ proc.pc = "settle" => journal[g] \in Early /\ vm[g].stage # "shell"
StartAt(g) ==
    /\ proc.pc = "journal" => journal[g] = "media-attached"
    /\ proc.pc \in {"send", "wait", "settle"} => journal[g] = "installer-start-requested"
    /\ proc.pc = "send" => sent[g].start = 0
    /\ vm[g].stage # "shell"
FinishAt(g) ==
    /\ proc.pc = "journal" => journal[g] \in Finishable
    /\ proc.pc \in {"send", "wait"} => journal[g] = "finish-requested"
    /\ proc.pc = "settle" => journal[g] \in Finishable /\ vm[g].stage = "disk-ready"
    /\ vm[g].stage # "shell"
BootAt(g) ==
    /\ proc.pc = "journal" => journal[g] = "disk-ready"
    /\ proc.pc \in {"send", "wait"} => journal[g] = "disk-start-requested"
    /\ proc.pc = "send" => sent[g].boot = 0
    /\ proc.pc = "settle" => journal[g] \in Bootable
    /\ vm[g].stage = "disk-ready"

Commanded ==
    /\ Working => \E g \in Guests : proc.guests = {g}
    /\ Working => proc.pc \in {"journal", "send", "wait", "settle"}
    /\ \A g \in proc.guests :
           /\ proc.op = "attach" => AttachAt(g)
           /\ proc.op = "start" => StartAt(g)
           /\ proc.op = "finish" => FinishAt(g)
           /\ proc.op = "boot" => BootAt(g)

\* How often a start was asked for, by the journal.
Counted ==
    \A g \in Guests :
        /\ sent[g].start <= 1 /\ sent[g].boot <= 1
        /\ journal[g] \in Early => sent[g].start = 0
        /\ journal[g] \notin {"disk-start-requested", "disk-boot-observed", "guest-installed-attested"} =>
               sent[g].boot = 0

\* What the journals say of the host, and of requests that may still be executed.
Mirrored ==
    \A g \in Guests :
        /\ vm[g].stage = "shell" => journal[g] \in Shell
        /\ vm[g].stage = "attached" => journal[g] \in OnMedium
        /\ vm[g].stage = "disk-ready" => journal[g] \in Finishing
        /\ Flying("attach", g) => journal[g] # "new"
        /\ Flying("finish", g) => journal[g] \in Finishing

\* No guest is worked on before the medium is there, and then the medium stays.
Media ==
    /\ (Working \/ \E g \in Guests : journal[g] # "new") => Received
    /\ upload.phase # "none" => upload.volume \in Volumes
    /\ proc.op = "upload" => upload.phase # "none"
    /\ proc.op = "upload" /\ proc.pc = "send" =>
           upload.phase = "requested" /\ store[upload.volume] = "absent"
    /\ \A g \in Guests : vm[g].stage = "attached" => vm[g].cd \in Volumes /\ store[vm[g].cd] = "whole"

GuestInv == TypeOK /\ Commanded /\ Counted /\ Mirrored /\ Media

-----------------------------------------------------------------------------

LEMMA GuestInitInv == Init => GuestInv
<1> SUFFICES ASSUME Init PROVE GuestInv
  OBVIOUS
<1>1. TypeOK
  BY MaxPostsAssumption DEF Init, TypeOK, Idle, Phases, Ops
<1>2. /\ ~Working /\ proc.guests = {} /\ proc.op # "upload" /\ upload.phase = "none"
      /\ \A g \in Guests : vm[g].stage = "shell" /\ journal[g] = "new"
      /\ \A g \in Guests : sent[g].start = 0 /\ sent[g].boot = 0
      /\ \A g \in Guests : ~Flying("attach", g) /\ ~Flying("finish", g)
  BY MaxPostsAssumption DEF Init, Idle, Working, Changes, Starts, Flying, Requests
<1> QED
  BY <1>1, <1>2
  DEF GuestInv, Commanded, Counted, Mirrored, Media, Early, Shell

\* The beginning of a command that takes one guest's installation a step further.
LEMMA BeginStep ==
    ASSUME GuestInv, NEW g \in Guests,
           Attach(g) \/ Start(g) \/ Finish(g) \/ Boot(g)
    PROVE  GuestInv'
<1> USE DEF GuestInv
<1>1. /\ UNCHANGED <<vm, store, journal, upload, flight, sent>>
      /\ Received /\ proc'.guests = {g} /\ proc'.op \in Changes \union Starts
      /\ proc'.pc \in {"journal", "settle"}
      /\ proc' \in [op : Ops, pc : {"idle", "journal", "send", "wait", "settle", "record", "task"},
                    guests : SUBSET Guests]
  BY DEF Attach, Start, Finish, Boot, Command, AfterObserve, Changes, Starts, Ops
<1>2. TypeOK'
  BY <1>1 DEF TypeOK
<1>3. Counted' /\ Mirrored'
  BY <1>1 DEF Counted, Mirrored, Flying
<1>4. Media'
  BY <1>1 DEF Media, Working, Received, Changes, Starts
<1>5. Commanded'
  <2>1. CASE Attach(g)
    BY <1>1, <2>1 DEF Attach, Commanded, Command, AfterObserve, AttachAt, Working, Early
  <2>2. CASE Start(g)
    BY <1>1, <2>2 DEF Start, Commanded, Command, AfterObserve, StartAt, Working, Early
  <2>3. CASE Finish(g)
    BY <1>1, <2>3 DEF Finish, Commanded, Command, AfterObserve, FinishAt, Working, Finishable
  <2>4. CASE Boot(g)
    BY <1>1, <2>4 DEF Boot, Commanded, Command, AfterObserve, BootAt, Working, Bootable
  <2> QED BY <2>1, <2>2, <2>3, <2>4
<1> QED BY <1>2, <1>3, <1>4, <1>5

\* The steps of such a command.
LEMMA GuestSteps ==
    ASSUME GuestInv, WriteIntent \/ Send \/ Answered \/ Settle
    PROVE  GuestInv'
<1> USE DEF GuestInv
<1>1. PICK g \in Guests : proc.guests = {g}
  BY DEF Commanded, Working, WriteIntent, Send, Answered, Settle
<1>2. /\ Working /\ UNCHANGED <<vm, store, upload>>
      /\ Received /\ Received'
  BY DEF WriteIntent, Send, Answered, Settle, Media, Working, Received
<1>3. CASE WriteIntent
  <2>1. /\ proc.pc = "journal" /\ proc' = [proc EXCEPT !.pc = "send"]
        /\ journal' = [journal EXCEPT ![g] = Requested[proc.op]]
        /\ UNCHANGED <<flight, sent>>
    BY <1>1, <1>3 DEF WriteIntent, Go
  <2>2. TypeOK'
    BY <1>2, <2>1 DEF TypeOK, Requested, Phases, Working, Changes, Starts
  <2>3. proc'.op = proc.op /\ proc'.pc = "send" /\ proc'.guests = {g}
    BY <1>1, <2>1 DEF TypeOK
  <2>4. /\ journal'[g] = Requested[proc.op]
        /\ \A h \in Guests : h # g => journal'[h] = journal[h]
    BY <2>1 DEF TypeOK
  <2>5. CASE proc.op = "attach"
    BY <1>1, <1>2, <2>1, <2>2, <2>3, <2>4, <2>5
    DEF Commanded, Counted, Mirrored, Media, Working, Flying, AttachAt, Requested, Early, Shell,
        OnMedium, Finishing, OnDisk, Changes, Starts
  <2>6. CASE proc.op = "start"
    BY <1>1, <1>2, <2>1, <2>2, <2>3, <2>4, <2>6
    DEF Commanded, Counted, Mirrored, Media, Working, Flying, StartAt, Requested, Early, Shell,
        OnMedium, Finishing, OnDisk, Changes, Starts
  <2>7. CASE proc.op = "finish"
    BY <1>1, <1>2, <2>1, <2>2, <2>3, <2>4, <2>7
    DEF Commanded, Counted, Mirrored, Media, Working, Flying, FinishAt, Requested, Early, Shell,
        OnMedium, Finishing, OnDisk, Finishable, Changes, Starts
  <2>8. CASE proc.op = "boot"
    BY <1>1, <1>2, <2>1, <2>2, <2>3, <2>4, <2>8
    DEF Commanded, Counted, Mirrored, Media, Working, Flying, BootAt, Requested, Early, Shell,
        OnMedium, Finishing, OnDisk, Changes, Starts
  <2> QED BY <1>2, <2>5, <2>6, <2>7, <2>8 DEF Working, Changes, Starts
<1>4. CASE Send
  <2>1. /\ proc.pc = "send" /\ proc' = [proc EXCEPT !.pc = "wait"] /\ journal' = journal
        /\ Post(proc.op, g)
        /\ sent' = IF proc.op \in Starts THEN [sent EXCEPT ![g][proc.op] = @ + 1] ELSE sent
    BY <1>1, <1>4 DEF Send, Go
  <2>2. [kind |-> proc.op, guest |-> g] \in Requests
    BY <1>2 DEF Working, Requests
  <2>3. TypeOK'
    <3>1. flight' \in [Requests -> 0..MaxPosts]
      BY <2>1, <2>2, MaxPostsAssumption DEF TypeOK, Post
    <3>2. sent' \in [Guests -> [Starts -> Nat]]
      <4>1. CASE proc.op \in Starts
        <5>1. sent[g] \in [Starts -> Nat] /\ sent[g][proc.op] + 1 \in Nat
          BY <4>1 DEF TypeOK
        <5>2. [sent[g] EXCEPT ![proc.op] = @ + 1] \in [Starts -> Nat]
          BY <5>1
        <5> QED BY <2>1, <4>1, <5>2 DEF TypeOK
      <4>2. CASE proc.op \notin Starts
        BY <2>1, <4>2 DEF TypeOK
      <4> QED BY <4>1, <4>2
    <3> QED BY <1>2, <2>1, <3>1, <3>2 DEF TypeOK
  <2>4. proc'.op = proc.op /\ proc'.pc = "wait" /\ proc'.guests = {g}
    BY <1>1, <2>1 DEF TypeOK
  <2>5. \A k \in Changes, h \in Guests : Flying(k, h)' => Flying(k, h) \/ (k = proc.op /\ h = g)
    BY <2>1, <2>2 DEF Post, Flying, TypeOK, Requests
  <2>6. Counted'
    BY <1>1, <2>1 DEF Counted, Commanded, StartAt, BootAt, Starts, TypeOK, Early
  <2>7. Mirrored'
    BY <1>1, <1>2, <2>1, <2>5 DEF Mirrored, Commanded, AttachAt, FinishAt, Changes, Finishing
  <2>8. Media'
    BY <1>2, <2>1, <2>4 DEF Media, Working
  <2>9. Commanded'
    BY <1>1, <1>2, <2>1, <2>4 DEF Commanded, Working, AttachAt, StartAt, FinishAt, BootAt
  <2> QED BY <2>3, <2>6, <2>7, <2>8, <2>9
<1>5. CASE Answered
  <2>1. /\ proc.pc = "wait" /\ proc' = [proc EXCEPT !.pc = "settle"]
        /\ UNCHANGED <<journal, flight, sent>>
        /\ proc.op = "attach" => vm[g].stage = "attached"
        /\ proc.op = "finish" => vm[g].stage = "disk-ready"
    BY <1>1, <1>5 DEF Answered, Go
  <2>2. TypeOK'
    BY <1>2, <2>1 DEF TypeOK
  <2>3. proc'.op = proc.op /\ proc'.pc = "settle" /\ proc'.guests = {g}
    BY <1>1, <2>1 DEF TypeOK
  <2> QED
    BY <1>1, <1>2, <2>1, <2>2, <2>3
    DEF Commanded, Counted, Mirrored, Media, Working, Flying, AttachAt, StartAt, FinishAt, BootAt,
        Early, Finishable, Bootable
<1>6. CASE Settle
  <2>1. /\ proc.pc = "settle" /\ proc' = Idle /\ UNCHANGED <<flight, sent>>
        /\ journal' = [journal EXCEPT ![g] = Settled[proc.op]]
    BY <1>1, <1>6 DEF Settle, Return
  <2>2. TypeOK'
    BY <1>2, <2>1 DEF TypeOK, Idle, Ops, Settled, Phases, Working, Changes, Starts
  <2>3. /\ journal'[g] = Settled[proc.op]
        /\ \A h \in Guests : h # g => journal'[h] = journal[h]
    BY <2>1 DEF TypeOK
  <2>4. ~Working' /\ proc'.guests = {} /\ proc'.op # "upload"
    BY <2>1 DEF Idle, Working, Changes, Starts
  <2>5. Commanded' /\ Media'
    BY <1>2, <2>1, <2>4 DEF Commanded, Media
  <2>6. CASE proc.op = "attach"
    BY <1>1, <1>2, <2>1, <2>2, <2>3, <2>5, <2>6
    DEF Commanded, Counted, Mirrored, Flying, AttachAt, Settled, Early, Shell, OnMedium, Finishing,
        OnDisk
  <2>7. CASE proc.op = "start"
    BY <1>1, <1>2, <2>1, <2>2, <2>3, <2>5, <2>7
    DEF Commanded, Counted, Mirrored, Flying, StartAt, Settled, Early, Shell, OnMedium, Finishing,
        OnDisk
  <2>8. CASE proc.op = "finish"
    BY <1>1, <1>2, <2>1, <2>2, <2>3, <2>5, <2>8
    DEF Commanded, Counted, Mirrored, Flying, FinishAt, Settled, Early, Shell, OnMedium, Finishing,
        OnDisk, Finishable
  <2>9. CASE proc.op = "boot"
    BY <1>1, <1>2, <2>1, <2>2, <2>3, <2>5, <2>9
    DEF Commanded, Counted, Mirrored, Flying, BootAt, Settled, Early, Shell, OnMedium, Finishing,
        OnDisk, Bootable
  <2> QED BY <1>2, <2>6, <2>7, <2>8, <2>9 DEF Working, Changes, Starts
<1> QED BY <1>3, <1>4, <1>5, <1>6

\* The other commands: none of them works on a guest's installation.
LEMMA OtherSteps ==
    ASSUME GuestInv,
           \/ StartAllocate \/ SendCreate \/ Created \/ StartUpload \/ SendUpload \/ RecordTask
           \/ ResumeUpload \/ WaitUpload \/ Abandon \/ Cut
    PROVE  GuestInv'
<1> USE DEF GuestInv
<1>1. /\ UNCHANGED <<vm, journal, sent>>
      /\ ~Working' /\ proc'.op \notin Changes \union Starts
      /\ proc' \in [op : Ops, pc : {"idle", "journal", "send", "wait", "settle", "record", "task"},
                    guests : SUBSET Guests]
  <2>1. CASE WaitUpload \/ Cut
    BY <2>1 DEF WaitUpload, Cut, Return, Idle, Working, Ops, Changes, Starts
  <2>2. CASE StartUpload \/ StartAllocate \/ ResumeUpload
    BY <2>2 DEF StartUpload, StartAllocate, ResumeUpload, Command, Working, Ops, Changes, Starts
  <2>3. CASE SendCreate \/ SendUpload \/ RecordTask
    BY <2>3 DEF SendCreate, SendUpload, RecordTask, Busy, Go, TypeOK, Working, Ops, Changes, Starts
  <2>4. CASE Created
    <3>1. proc.op = "allocate"
      BY <2>4 DEF Created, Busy
    <3>2. proc' = Idle \/ \E g \in Guests : proc' = [op |-> "allocate", pc |-> "send",
                                                       guests |-> proc.guests \ {g}]
      BY <2>4 DEF Created, TypeOK
    <3>3. UNCHANGED <<vm, journal, sent>>
      BY <2>4 DEF Created
    <3>4. proc'.op \in {"none", "allocate"}
      BY <3>1, <3>2 DEF Idle, TypeOK
    <3>5. proc' \in [op : Ops, pc : {"idle", "journal", "send", "wait", "settle", "record", "task"},
                     guests : SUBSET Guests]
      BY <3>2 DEF Idle, TypeOK, Ops
    <3> QED BY <3>3, <3>4, <3>5 DEF Working, Changes, Starts
  <2>5. CASE Abandon
    BY <2>5 DEF Abandon, Idle, TypeOK, Working, Ops, Changes, Starts
  <2> QED BY <2>1, <2>2, <2>3, <2>4, <2>5
<1>2. /\ flight' \in [Requests -> 0..MaxPosts]
      /\ \A k \in Changes, h \in Guests : Flying(k, h)' <=> Flying(k, h)
  <2>1. CASE SendCreate
    <3>1. PICK g \in Guests : Post("create", g)
      BY <2>1 DEF SendCreate, TypeOK
    <3>2. [kind |-> "create", guest |-> g] \in Requests
      BY DEF Requests
    <3>3. flight' \in [Requests -> 0..MaxPosts]
      BY <3>1, <3>2, MaxPostsAssumption DEF TypeOK, Post
    <3>4. ASSUME NEW k \in Changes, NEW h \in Guests PROVE Flying(k, h)' <=> Flying(k, h)
      <4>1. [kind |-> k, guest |-> h] \in Requests
            /\ [kind |-> k, guest |-> h] # [kind |-> "create", guest |-> g]
        BY DEF Requests, Changes
      <4>2. flight'[[kind |-> k, guest |-> h]] = flight[[kind |-> k, guest |-> h]]
        BY <3>1, <4>1 DEF TypeOK, Post
      <4> QED BY <4>2 DEF Flying
    <3> QED BY <3>3, <3>4
  <2>2. CASE flight' = flight
    BY <2>2 DEF TypeOK, Flying
  <2> QED
    BY <2>1, <2>2 DEF StartAllocate, Created, StartUpload, SendUpload, RecordTask, ResumeUpload,
                      WaitUpload, Abandon, Cut, Command
<1>3. /\ store' \in [Volumes -> {"absent", "partial", "whole", "failed"}]
      /\ upload' \in [phase : {"none", "requested", "uploaded"}, volume : Volumes \union {None},
                      task : BOOLEAN]
  <2>1. CASE StartUpload
    BY <2>1 DEF StartUpload, TypeOK
  <2>2. CASE SendUpload
    BY <2>2 DEF SendUpload, TypeOK
  <2>3. CASE RecordTask \/ WaitUpload
    BY <2>3 DEF RecordTask, WaitUpload, TypeOK
  <2>4. CASE Abandon
    BY <2>4 DEF Abandon, TypeOK
  <2>5. CASE StartAllocate \/ SendCreate \/ Created \/ ResumeUpload \/ Cut
    BY <2>5 DEF StartAllocate, SendCreate, Created, ResumeUpload, Cut, Command, TypeOK
  <2> QED BY <2>1, <2>2, <2>3, <2>4, <2>5
<1>4. TypeOK'
  BY <1>1, <1>2, <1>3 DEF TypeOK
<1>5. Commanded' /\ Counted' /\ Mirrored'
  BY <1>1, <1>2 DEF Commanded, Counted, Mirrored, Changes, Starts
<1>6. Media'
  <2>1. CASE UNCHANGED <<store, upload>> /\ (proc'.op = "upload" => proc.op = "upload" \/ upload.phase # "none")
             /\ ~(proc'.op = "upload" /\ proc'.pc = "send")
    BY <1>1, <2>1 DEF Media, Received
  <2>2. CASE StartUpload
    <3>1. PICK v \in Volumes :
              store[v] = "absent" /\ upload' = [phase |-> "requested", volume |-> v, task |-> FALSE]
      BY <2>2 DEF StartUpload
    <3>2. \A g \in Guests : journal[g] = "new" /\ vm[g].stage # "attached"
      BY <2>2 DEF StartUpload, Media, Received, Mirrored, OnMedium
    <3> QED BY <1>1, <2>2, <3>1, <3>2 DEF StartUpload, Media
  <2>3. CASE SendUpload
    <3>1. /\ upload.phase = "requested" /\ store[upload.volume] = "absent" /\ upload' = upload
          /\ store' = [store EXCEPT ![upload.volume] = "partial"]
          /\ proc'.op = "upload" /\ proc'.pc = "record"
      BY <2>3 DEF SendUpload, Busy, Go, Media, TypeOK
    <3>2. \A g \in Guests : journal[g] = "new" /\ vm[g].stage # "attached"
      BY <3>1 DEF Media, Received, Mirrored, OnMedium
    <3> QED BY <1>1, <3>1, <3>2 DEF Media
  <2>4. CASE RecordTask \/ WaitUpload
    <3>1. /\ store' = store /\ upload'.volume = upload.volume
          /\ upload'.phase = upload.phase \/ (upload'.phase = "uploaded" /\ store[upload.volume] = "whole")
          /\ upload.phase # "none"
          /\ proc'.pc # "send"
      <4>1. CASE RecordTask
        <5>1. upload' = [upload EXCEPT !.task = TRUE] /\ store' = store /\ upload.phase # "none"
          BY <4>1 DEF RecordTask, Busy, Media
        <5>2. proc'.pc = "task"
          BY <4>1 DEF RecordTask, Go, TypeOK
        <5>3. upload'.phase = upload.phase /\ upload'.volume = upload.volume
          BY <5>1 DEF TypeOK
        <5> QED BY <5>1, <5>2, <5>3
      <4>2. CASE WaitUpload
        BY <4>2 DEF WaitUpload, Busy, Return, Idle, TypeOK, Media
      <4> QED BY <2>4, <4>1, <4>2
    <3> QED BY <1>1, <3>1 DEF Media, Received
  <2>5. CASE Abandon
    <3>1. proc' = proc /\ proc.op = "none" /\ upload'.phase = "none" /\ store' = store
      BY <2>5 DEF Abandon, Idle
    <3>2. \A g \in Guests : journal[g] = "new" /\ vm[g].stage # "attached"
      BY <2>5 DEF Abandon, Mirrored, OnMedium
    <3> QED BY <1>1, <3>1, <3>2 DEF Media
  <2>6. CASE StartAllocate \/ SendCreate \/ Created \/ ResumeUpload \/ Cut
    <3>1. UNCHANGED <<store, upload>>
      BY <2>6 DEF StartAllocate, SendCreate, Created, ResumeUpload, Cut, Command
    <3>2. proc'.op # "upload" \/ (proc'.pc = "task" /\ upload.phase # "none")
      <4>1. CASE SendCreate
        BY <4>1 DEF SendCreate, Busy, TypeOK
      <4>2. CASE Created
        BY <1>1, <4>2 DEF Created, Busy, Idle, TypeOK
      <4>3. CASE StartAllocate \/ ResumeUpload \/ Cut
        BY <4>3 DEF StartAllocate, ResumeUpload, Cut, Command, Return, Idle
      <4> QED BY <2>6, <4>1, <4>2, <4>3
    <3> QED BY <2>1, <3>1, <3>2
  <2> QED BY <2>2, <2>3, <2>4, <2>5, <2>6
<1> QED BY <1>4, <1>5, <1>6

\* The operator attests the installed guest; a command is not running.
LEMMA ConfirmStep ==
    ASSUME GuestInv, NEW g \in Guests, Confirm(g)
    PROVE  GuestInv'
<1> USE DEF GuestInv
<1>1. /\ UNCHANGED <<vm, store, upload, proc, flight, sent>> /\ Received
      /\ proc.op = "none" /\ proc.guests = {}
      /\ journal[g] \in {"disk-boot-observed", "guest-installed-attested"}
      /\ vm[g].stage = "disk-ready"
      /\ journal' = [journal EXCEPT ![g] = "guest-installed-attested"]
  BY DEF Confirm, Idle
<1>2. /\ journal'[g] = "guest-installed-attested"
      /\ \A h \in Guests : h # g => journal'[h] = journal[h]
  BY <1>1 DEF TypeOK
<1>3. TypeOK'
  BY <1>1 DEF TypeOK, Phases
<1>4. Commanded'
  BY <1>1 DEF Commanded, Working, Changes, Starts
<1>5. Counted'
  BY <1>1, <1>2 DEF Counted, Early
<1>6. Mirrored'
  BY <1>1, <1>2 DEF Mirrored, Flying, Finishing, OnDisk
<1>7. Media'
  BY <1>1 DEF Media, Received, Working
<1> QED BY <1>3, <1>4, <1>5, <1>6, <1>7

\* The console changes a guest's power only, and an upload that ends was not attached.
LEMMA HostSteps ==
    ASSUME GuestInv,
           (\E g \in Guests : Console(g)) \/ (\E v \in Volumes : UploadEnds(v))
    PROVE  GuestInv'
<1> USE DEF GuestInv
<1>1. CASE \E g \in Guests : Console(g)
  <2>1. PICK g \in Guests, power \in {"stopped", "running"} : vm' = [vm EXCEPT ![g].power = power]
    BY Zenon, <1>1 DEF Console
  <2>2. UNCHANGED <<store, journal, upload, proc, flight, sent>>
    BY <1>1 DEF Console
  <2>3. /\ TypeOK' /\ proc.guests \subseteq Guests
        /\ \A h \in Guests : vm'[h].stage = vm[h].stage /\ vm'[h].cd = vm[h].cd
    <3> DEFINE Machine == [power : {"none", "stopped", "running"},
                           stage : {"shell", "attached", "disk-ready"},
                           cd : Volumes \union {None}]
    <3>1. vm \in [Guests -> Machine]
      BY DEF TypeOK
    <3>2. [vm[g] EXCEPT !.power = power] \in Machine
      BY <2>1, <3>1
    <3>3. vm' = [vm EXCEPT ![g] = [vm[g] EXCEPT !.power = power]]
      BY <2>1
    <3>4. vm' \in [Guests -> Machine]
      <4> HIDE DEF Machine
      <4> QED
        BY <3>1, <3>2, <3>3
    <3>5. \A h \in Guests : vm'[h].stage = vm[h].stage /\ vm'[h].cd = vm[h].cd
      <4>1. \A h \in Guests : vm'[h] = IF h = g THEN [vm[g] EXCEPT !.power = power] ELSE vm[h]
        BY <3>1, <3>3
      <4> QED
        BY <3>1, <4>1
    <3> QED
      BY <2>2, <3>4, <3>5 DEF TypeOK
  <2>4. Commanded'
    BY <2>2, <2>3 DEF Commanded, Working, AttachAt, StartAt, FinishAt, BootAt
  <2>5. Counted' /\ Mirrored' /\ Media'
    BY <2>2, <2>3 DEF Counted, Mirrored, Media, Received, Working, Flying
  <2> QED BY <2>3, <2>4, <2>5
<1>2. CASE \E v \in Volumes : UploadEnds(v)
  <2>1. /\ UNCHANGED <<vm, journal, upload, proc, flight, sent>> /\ TypeOK'
        /\ \A v \in Volumes : store[v] \in {"whole", "absent"} => store'[v] = store[v]
    BY <1>2 DEF UploadEnds, TypeOK
  <2> QED
    BY <2>1 DEF Commanded, Counted, Mirrored, Media, Received, Working, Flying, AttachAt, StartAt,
                FinishAt, BootAt
<1> QED BY <1>1, <1>2

\* A request is executed, whatever has happened since it was sent.
LEMMA ExecuteStep ==
    ASSUME GuestInv, NEW r \in Requests, Execute(r)
    PROVE  GuestInv'
<1> USE DEF GuestInv
<1> DEFINE g == r.guest
<1>1. /\ UNCHANGED <<store, journal, upload, proc, sent>> /\ g \in Guests
      /\ flight[r] > 0 /\ flight' = [flight EXCEPT ![r] = @ - 1]
  BY DEF Execute, Requests
<1>2. /\ flight' \in [Requests -> 0..MaxPosts]
      /\ \A k \in Changes, h \in Guests : Flying(k, h)' => Flying(k, h)
  <2>1. flight' \in [Requests -> 0..MaxPosts]
    BY <1>1, MaxPostsAssumption DEF TypeOK
  <2>2. ASSUME NEW k \in Changes, NEW h \in Guests, Flying(k, h)' PROVE Flying(k, h)
    <3>1. [kind |-> k, guest |-> h] \in Requests
      BY DEF Requests
    <3>2. flight'[[kind |-> k, guest |-> h]] > 0
      BY <2>2 DEF Flying
    <3>3. flight[[kind |-> k, guest |-> h]] > 0
      BY <1>1, <3>1, <3>2, MaxPostsAssumption DEF TypeOK
    <3> QED BY <3>3 DEF Flying
  <2> QED BY <2>1, <2>2
<1>3. r = [kind |-> r.kind, guest |-> g]
  BY DEF Requests
<1>8. proc.guests \subseteq Guests
  BY DEF TypeOK
<1>4. CASE vm' = vm
  BY <1>1, <1>2, <1>4
  DEF TypeOK, Commanded, Counted, Mirrored, Media, Received, Working, Changes, AttachAt, StartAt,
      FinishAt, BootAt
<1>5. CASE vm' = Effect(r) /\ r.kind \in {"create"} \union Starts
  <2>1. /\ vm' \in [Guests -> [power : {"none", "stopped", "running"},
                               stage : {"shell", "attached", "disk-ready"},
                               cd : Volumes \union {None}]]
        /\ \A h \in Guests : vm'[h].stage = vm[h].stage /\ vm'[h].cd = vm[h].cd
    <3>1. vm' = vm \/ \E p \in {"stopped", "running"} : vm' = [vm EXCEPT ![g].power = p]
      BY <1>5 DEF Effect, Starts
    <3>2. CASE vm' = vm
      BY <3>2 DEF TypeOK
    <3>3. ASSUME NEW p \in {"stopped", "running"}, vm' = [vm EXCEPT ![g].power = p]
          PROVE  /\ vm' \in [Guests -> [power : {"none", "stopped", "running"},
                                         stage : {"shell", "attached", "disk-ready"},
                                         cd : Volumes \union {None}]]
                 /\ \A h \in Guests : vm'[h].stage = vm[h].stage /\ vm'[h].cd = vm[h].cd
      <4>1. [vm[g] EXCEPT !.power = p] \in [power : {"none", "stopped", "running"},
                                            stage : {"shell", "attached", "disk-ready"},
                                            cd : Volumes \union {None}]
        <5>1. vm[g] \in [power : {"none", "stopped", "running"},
                         stage : {"shell", "attached", "disk-ready"}, cd : Volumes \union {None}]
          BY <1>1 DEF TypeOK
        <5>2. CASE p = "stopped" BY <5>1, <5>2
        <5>3. CASE p = "running" BY <5>1, <5>3
        <5> QED BY <3>3, <5>2, <5>3
      <4>2. /\ vm' = [vm EXCEPT ![g] = [vm[g] EXCEPT !.power = p]]
            /\ vm'[g] = [vm[g] EXCEPT !.power = p]
            /\ \A h \in Guests : h # g => vm'[h] = vm[h]
        BY <1>1, <3>3 DEF TypeOK
      <4>3. vm'[g].stage = vm[g].stage /\ vm'[g].cd = vm[g].cd
        BY <1>1, <4>2 DEF TypeOK
      <4>4. vm' \in [Guests -> [power : {"none", "stopped", "running"},
                                stage : {"shell", "attached", "disk-ready"},
                                cd : Volumes \union {None}]]
        BY <1>1, <4>1, <4>2 DEF TypeOK
      <4> QED BY <4>2, <4>3, <4>4
    <3> QED BY <3>1, <3>2, <3>3
  <2> QED
    BY <1>1, <1>2, <2>1
    DEF TypeOK, Commanded, Counted, Mirrored, Media, Received, Working, Changes, AttachAt, StartAt,
        FinishAt, BootAt
<1>6. CASE vm' = Effect(r) /\ r.kind = "attach" /\ vm[g].stage = "shell"
  <2>1. vm' = [vm EXCEPT ![g] = [power |-> @.power, stage |-> "attached", cd |-> upload.volume]]
    BY <1>6 DEF Effect, SameDigest, Starts
  <2>2. journal[g] = "attach-requested" /\ Received /\ upload.volume \in Volumes
    BY <1>1, <1>3, <1>6 DEF Flying, Mirrored, Shell, Media, Received
  <2>3. /\ vm'[g].stage = "attached" /\ vm'[g].cd = upload.volume
        /\ \A h \in Guests : h # g => vm'[h] = vm[h]
    BY <1>1, <2>1 DEF TypeOK
  <2>4. TypeOK'
    BY <1>1, <1>2, <2>1, <2>2 DEF TypeOK
  <2>5. Commanded'
    BY <1>1, <1>6, <1>8, <2>3 DEF Commanded, Working, AttachAt, StartAt, FinishAt, BootAt
  <2>6. Counted' /\ Mirrored'
    BY <1>1, <1>2, <2>2, <2>3 DEF Counted, Mirrored, OnMedium, Changes
  <2>7. Media'
    BY <1>1, <2>2, <2>3 DEF Media, Received, Working
  <2> QED BY <2>4, <2>5, <2>6, <2>7
<1>7. CASE vm' = Effect(r) /\ r.kind = "finish" /\ vm[g].stage = "attached"
  <2>1. vm' = [vm EXCEPT ![g] = [power |-> @.power, stage |-> "disk-ready", cd |-> None]]
    BY <1>7 DEF Effect, SameDigest, Starts
  <2>2. journal[g] \in Finishing
    BY <1>1, <1>3, <1>7 DEF Flying, Mirrored
  <2>3. /\ vm'[g].stage = "disk-ready"
        /\ \A h \in Guests : h # g => vm'[h] = vm[h]
    BY <1>1, <2>1 DEF TypeOK
  <2>4. TypeOK'
    BY <1>1, <1>2, <2>1 DEF TypeOK
  <2>5. Commanded'
    BY <1>1, <1>7, <1>8, <2>3 DEF Commanded, Working, AttachAt, StartAt, FinishAt, BootAt
  <2>6. Counted' /\ Mirrored'
    BY <1>1, <1>2, <2>2, <2>3 DEF Counted, Mirrored, Changes
  <2>7. Media'
    BY <1>1, <2>3 DEF Media, Received, Working
  <2> QED BY <2>4, <2>5, <2>6, <2>7
<1> QED
  BY <1>4, <1>5, <1>6, <1>7 DEF Execute, Effect, SameDigest, Requests, Changes, Starts

LEMMA GuestNextInv == GuestInv /\ [Next]_vars => GuestInv'
<1> SUFFICES ASSUME GuestInv, [Next]_vars PROVE GuestInv'
  OBVIOUS
<1>1. CASE UNCHANGED vars
  BY <1>1
  DEF vars, GuestInv, TypeOK, Commanded, Counted, Mirrored, Media, Received, Working, Flying,
      AttachAt, StartAt, FinishAt, BootAt
<1>2. CASE \E g \in Guests : Attach(g) \/ Start(g) \/ Finish(g) \/ Boot(g)
  BY <1>2, BeginStep
<1>3. CASE WriteIntent \/ Send \/ Answered \/ Settle
  BY <1>3, GuestSteps
<1>4. CASE \/ StartAllocate \/ SendCreate \/ Created \/ StartUpload \/ SendUpload \/ RecordTask
           \/ ResumeUpload \/ WaitUpload \/ Abandon \/ Cut
  BY <1>4, OtherSteps
<1>5. CASE \E g \in Guests : Confirm(g)
  BY <1>5, ConfirmStep
<1>6. CASE (\E g \in Guests : Console(g)) \/ (\E v \in Volumes : UploadEnds(v))
  BY <1>6, HostSteps
<1>7. CASE \E r \in Requests : Execute(r)
  BY <1>7, ExecuteStep
<1> QED
  BY <1>1, <1>2, <1>3, <1>4, <1>5, <1>6, <1>7 DEF Next

-----------------------------------------------------------------------------

\* The inductive invariant: the journal of each guest counts the starts asked for, backs
\* what the host shows and every request that may still be executed, and the medium that
\* an installation began with stays whole.
THEOREM GuestInvariant == Spec => []GuestInv
BY GuestInitInv, GuestNextInv, PTL DEF Spec

\* The program asks for an installer session at most once, and for a disk start at most
\* once, for each guest (guest_installation.py: a recorded start is never replayed).
THEOREM StartsAskedOnce == Spec => []StartedOnce
<1>1. GuestInv => StartedOnce
  BY DEF GuestInv, Counted, StartedOnce, Starts
<1> QED BY GuestInvariant, <1>1, PTL

\* Whatever late request the host executes, each guest's configuration is one its journal
\* asked for, and an installer's medium is a whole upload.
THEOREM HostBacked == Spec => []RemoteBacked
<1>1. GuestInv => RemoteBacked
  BY DEF GuestInv, Mirrored, Media, RemoteBacked, OnMedium, Finishing, OnDisk
<1> QED BY GuestInvariant, <1>1, PTL

\* The guests, the medium, the journals, the running command and the requests in flight
\* keep their shape.
THEOREM GuestTyped == Spec => []TypeOK
<1>1. GuestInv => TypeOK
  BY DEF GuestInv
<1> QED BY GuestInvariant, <1>1, PTL
=============================================================================
