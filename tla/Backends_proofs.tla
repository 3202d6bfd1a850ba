--------------------------- MODULE Backends_proofs ---------------------------
(***************************************************************************)
(* Theorems about the backends and what lies on their far side, for every  *)
(* value of the constants: the parts by themselves, and then Backends.     *)
(***************************************************************************)
EXTENDS Backends, PciCompletionQueue_proofs, RecursionTheorems, FiniteSetTheorems

-----------------------------------------------------------------------------
(* The Xgig backend: for any lengths, contexts and number of sends.         *)

Piece == [tlp : Nat, part : {"header", "payload"}, length : Nat,
          whole : BOOLEAN]

StreamInv == /\ stream \in Seq(Piece) /\ sends \in Nat /\ clean \in BOOLEAN
             /\ clean => InStep

(* One or two elements, by themselves and behind a sequence.                *)
LEMMA Singleton ==
    ASSUME NEW S, NEW a \in S
    PROVE  <<a>> \in Seq(S) /\ Len(<<a>>) = 1
OBVIOUS

(* Sequences of one and two pieces, and the pieces behind a stream.         *)
LEMMA Pair ==
    ASSUME NEW S, NEW a \in S, NEW b \in S
    PROVE  <<a, b>> \in Seq(S) /\ Len(<<a, b>>) = 2
OBVIOUS

LEMMA BehindOne ==
    ASSUME NEW S, NEW s \in Seq(S), NEW a \in S,
           NEW i \in 1..Len(s \o <<a>>), i \notin 1..Len(s)
    PROVE  (s \o <<a>>)[i] = a
OBVIOUS

LEMMA BehindTwo ==
    ASSUME NEW S, NEW s \in Seq(S), NEW a \in S, NEW b \in S,
           NEW i \in 1..Len(s \o <<a, b>>), i \notin 1..Len(s)
    PROVE  \/ /\ (s \o <<a, b>>)[i] = a /\ (s \o <<a, b>>)[i + 1] = b
              /\ i + 1 \in 1..Len(s \o <<a, b>>)
           \/ (s \o <<a, b>>)[i] = b
OBVIOUS

(* The pieces of a TLP are pieces, and so is what is sent of it.            *)
LEMMA PiecesOfTlp ==
    ASSUME NEW t \in Nat, NEW n \in Nat, NEW whole \in BOOLEAN
    PROVE  Header(t, n, whole) \in Piece /\ Payload(t, n, whole) \in Piece
BY DEF Header, Payload, Piece

(* A TLP sent whole is one piece or two.                                    *)
LEMMA CompleteIsPieces ==
    ASSUME NEW t \in Nat, NEW n \in Nat
    PROVE  Complete(t, n) \in Seq(Piece) /\ Len(Complete(t, n)) \in {1, 2}
<1> DEFINE h == Header(t, n, TRUE)
           p == Payload(t, n, TRUE)
<1>1. h \in Piece /\ p \in Piece
  BY PiecesOfTlp
<1>2. Complete(t, n) = IF n = 0 THEN <<h>> ELSE <<h, p>>
  BY DEF Complete
<1> HIDE DEF h, p
<1>3. <<h>> \in Seq(Piece) /\ Len(<<h>>) = 1
  BY <1>1, Singleton
<1>4. <<h, p>> \in Seq(Piece) /\ Len(<<h, p>>) = 2
  BY <1>1, Pair
<1>5. QED
  BY <1>2, <1>3, <1>4

(* A complete TLP behind a stream in step leaves it in step.                *)
LEMMA CompleteStaysInStep ==
    ASSUME NEW t \in Nat, NEW n \in Nat, stream \in Seq(Piece), InStep,
           stream' = stream \o Complete(t, n)
    PROVE  InStep'
<1> DEFINE new == Complete(t, n)
<1>1. new \in Seq(Piece) /\ Len(new) \in {1, 2}
  BY CompleteIsPieces
<1>2. SUFFICES ASSUME NEW i \in DOMAIN stream'
               PROVE  stream'[i].whole /\ (StartsTlp(i)' => HasItsPayload(i)')
  BY DEF InStep
<1>3. /\ stream' \in Seq(Piece) /\ Len(stream') = Len(stream) + Len(new)
      /\ i \in 1..Len(stream')
  BY <1>1
<1>4. CASE i \in 1..Len(stream)
  <2>1. stream'[i] = stream[i]
    BY <1>1, <1>4
  <2>2. stream[i].whole /\ (StartsTlp(i) => HasItsPayload(i))
    BY <1>4 DEF InStep
  <2>3. ASSUME StartsTlp(i)', stream'[i].length > 0 PROVE HasItsPayload(i)'
    <3>1. i + 1 \in 1..Len(stream) /\ stream[i + 1].part = "payload"
            /\ stream[i + 1].tlp = stream[i].tlp
      BY <2>1, <2>2, <2>3 DEF StartsTlp, HasItsPayload
    <3>2. stream'[i + 1] = stream[i + 1] /\ i + 1 \in DOMAIN stream'
      BY <1>1, <1>3, <3>1
    <3>3. QED
      BY <2>1, <3>1, <3>2 DEF HasItsPayload
  <2>4. QED
    BY <2>1, <2>2, <2>3 DEF HasItsPayload
<1>5. CASE i \notin 1..Len(stream)
  <2> DEFINE h == Header(t, n, TRUE)
             p == Payload(t, n, TRUE)
  <2>a. h \in Piece /\ p \in Piece
    BY PiecesOfTlp
  <2>b. /\ h.whole /\ h.tlp = t /\ h.length = n
        /\ p.whole /\ p.tlp = t /\ p.part = "payload"
    BY DEF Header, Payload
  <2>c. new = IF n = 0 THEN <<h>> ELSE <<h, p>>
    BY DEF Complete
  <2> HIDE DEF h, p, new
  <2>1. CASE n = 0
    <3>1. stream' = stream \o <<h>>
      BY <2>1, <2>c DEF new
    <3>2. stream'[i] = h
      BY <1>3, <1>5, <2>a, <3>1, BehindOne
    <3>3. QED
      BY <2>1, <2>b, <3>2 DEF HasItsPayload
  <2>2. CASE n # 0
    <3>1. stream' = stream \o <<h, p>>
      BY <2>2, <2>c DEF new
    <3>2. \/ /\ stream'[i] = h /\ stream'[i + 1] = p
             /\ i + 1 \in 1..Len(stream')
          \/ stream'[i] = p
      BY <1>3, <1>5, <2>a, <3>1, BehindTwo
    <3>3. CASE /\ stream'[i] = h /\ stream'[i + 1] = p
               /\ i + 1 \in 1..Len(stream')
      BY <1>3, <2>b, <3>3 DEF HasItsPayload
    <3>4. CASE stream'[i] = p
      BY <2>b, <3>4 DEF StartsTlp
    <3>5. QED
      BY <3>2, <3>3, <3>4
  <2>3. QED
    BY <2>1, <2>2
<1>6. QED
  BY <1>4, <1>5

(* What is sent in part is made of pieces too.                              *)
LEMMA PartsArePieces ==
    ASSUME NEW t \in Nat, NEW n \in Nat,
           NEW out \in HeaderCut(t, n) \cup PayloadCut(t, n)
    PROVE  out \in Seq(Piece)
<1> DEFINE f == Header(t, n, FALSE)
           h == Header(t, n, TRUE)
           p == Payload(t, n, FALSE)
<1>1. f \in Piece /\ h \in Piece /\ p \in Piece
  BY PiecesOfTlp
<1>2. out = <<>> \/ out = <<f>> \/ out = <<h>> \/ out = <<h, p>>
  BY DEF HeaderCut, PayloadCut
<1> HIDE DEF f, h, p
<1>3. /\ <<>> \in Seq(Piece) /\ <<f>> \in Seq(Piece) /\ <<h>> \in Seq(Piece)
      /\ <<h, p>> \in Seq(Piece)
  BY <1>1, Singleton, Pair
<1>4. QED
  BY <1>2, <1>3

(* The stream consists of pieces and is in step while no send has failed    *)
(* half way: what xgig_send does on any connection preserves it.            *)
THEOREM StreamInvariant == XgigSpec => []StreamInv
<1>1. XgigInit => StreamInv
  BY DEF XgigInit, StreamInv, InStep
<1>2. StreamInv /\ [XgigNext]_xgigVars => StreamInv'
  <2> SUFFICES ASSUME StreamInv, [XgigNext]_xgigVars PROVE StreamInv'
    OBVIOUS
  <2> USE DEF StreamInv
  <2>1. ASSUME NEW c \in XgigContext, pcie_open(c) \/ pcie_close(c) PROVE StreamInv'
    BY <2>1 DEF pcie_open, pcie_close, InStep, StartsTlp, HasItsPayload
  <2>2. CASE xgig_connect
    BY <2>2 DEF xgig_connect, InStep
  <2>3. CASE xgig_send
    <3>1. PICK n \in Length : Accept(sends, n) \/ Refuse(sends, n)
      BY <2>3 DEF xgig_send
    <3>2. sends' \in Nat /\ n \in Nat
      BY <2>3, LengthAssumption DEF xgig_send
    <3>3. CASE Accept(sends, n)
      <4>1. stream' = stream \o Complete(sends, n) /\ clean' = clean
        BY <3>3 DEF Accept
      <4>2. stream' \in Seq(Piece)
        BY <3>2, <4>1, CompleteIsPieces
      <4>3. clean' => InStep'
        BY <3>2, <4>1, CompleteStaysInStep
      <4>4. QED
        BY <3>2, <4>1, <4>2, <4>3
    <3>4. CASE Refuse(sends, n)
      <4>1. PICK out \in HeaderCut(sends, n) \cup PayloadCut(sends, n) :
               stream' = stream \o out /\ clean' = (clean /\ out = <<>>)
        BY <3>4 DEF Refuse
      <4>2. out \in Seq(Piece)
        BY <3>2, PartsArePieces
      <4>3. stream' \in Seq(Piece) /\ clean' \in BOOLEAN
        BY <4>1, <4>2
      <4>4. ASSUME clean' PROVE InStep'
        <5>1. clean /\ out = <<>>
          BY <4>1, <4>4
        <5>2. stream' = stream
          BY <4>1, <5>1
        <5>3. QED
          BY <5>1, <5>2 DEF InStep, StartsTlp, HasItsPayload
      <4>5. QED
        BY <3>2, <4>3, <4>4
    <3>5. QED
      BY <3>1, <3>3, <3>4
  <2>4. CASE PeerGoes \/ Sigpipe
    BY <2>4 DEF PeerGoes, Sigpipe, InStep, StartsTlp, HasItsPayload
  <2>5. CASE UNCHANGED xgigVars
    BY <2>5 DEF xgigVars, InStep, StartsTlp, HasItsPayload
  <2>6. QED
    BY <2>1, <2>2, <2>3, <2>4, <2>5 DEF XgigNext
<1>3. QED
  BY <1>1, <1>2, PTL DEF XgigSpec

(* Framing holds for all lengths and any number of sends and reconnections. *)
THEOREM XgigFraming == XgigSpec => []Framing
<1>1. StreamInv => Framing
  BY DEF StreamInv, Framing
<1>2. QED
  BY <1>1, StreamInvariant, PTL

-----------------------------------------------------------------------------
(* The FPGA backend: for any contexts, number of opens and limit of the poll. *)

FpgaTypes == /\ fd \in BOOLEAN
             /\ regs \in {"null", "mapped", "failed"}
             /\ call = Idle \/ call.at \in {"open", "send"}
             /\ lost \in BOOLEAN /\ crashed \in BOOLEAN
             /\ second \in BOOLEAN /\ unsafe \in BOOLEAN

(* Why a failed mapping is touched only by the contexts opened before, and  *)
(* why an open descriptor belongs to a context or to a call in progress.    *)
Statics == /\ call.at = "send" => contexts # {}
           /\ regs = "failed" /\ contexts # {} => unsafe

FpgaInv == FpgaTypes /\ Statics /\ AccessMapped /\ HandlesReleased

(* The invariant of the FPGA backend is inductive.                          *)
LEMMA FpgaInvInit == FpgaInit => FpgaInv
<1> SUFFICES ASSUME FpgaInit PROVE FpgaInv OBVIOUS
<1>1. /\ contexts = {} /\ regs = "null" /\ call = Idle
      /\ ~fd /\ ~lost /\ ~crashed
  BY DEF FpgaInit
<1>2. FpgaTypes
  <2>1. fd \in BOOLEAN /\ lost \in BOOLEAN /\ crashed \in BOOLEAN
        /\ second \in BOOLEAN /\ unsafe \in BOOLEAN
    BY DEF FpgaInit
  <2> QED BY <1>1, <2>1 DEF FpgaTypes
<1>3. Statics
  <2>1. call.at # "send" BY <1>1 DEF Idle
  <2> QED BY <1>1, <2>1 DEF Statics
<1>4. AccessMapped BY <1>1 DEF AccessMapped
<1>5. HandlesReleased BY <1>1 DEF HandlesReleased
<1> QED BY <1>2, <1>3, <1>4, <1>5 DEF FpgaInv

LEMMA FpgaInvNext == FpgaInv /\ [FpgaNext]_fpgaVars => FpgaInv'
<1> SUFFICES ASSUME FpgaInv, [FpgaNext]_fpgaVars PROVE FpgaInv' OBVIOUS
<1> USE DEF FpgaInv, FpgaTypes, Statics, AccessMapped, HandlesReleased, Idle
<1>1. ASSUME NEW c \in Context, Open(c) PROVE FpgaInv'
  <2>1. CASE fd' = FALSE /\ UNCHANGED <<regs, device, call, unsafe>>
    BY <1>1, <2>1 DEF Open, Ready
  <2>2. CASE fd' = FALSE /\ regs' = "failed" /\ unsafe' = (unsafe \/ contexts # {})
             /\ UNCHANGED <<device, call>>
    BY <1>1, <2>2 DEF Open, Ready
  <2>3. CASE fd' = TRUE /\ regs' = "mapped" /\ call' = [at |-> "open", polls |-> 0]
             /\ UNCHANGED unsafe
    BY <1>1, <2>3 DEF Open, Ready
  <2> QED BY <1>1, <2>1, <2>2, <2>3 DEF Open
<1>2. ASSUME NEW c \in Context, Close(c) PROVE FpgaInv'
  <2>1. CASE regs = "failed" BY <1>2, <2>1 DEF Close, Ready
  <2>2. CASE regs # "failed" BY <1>2, <2>2 DEF Close, Ready, Release
  <2> QED BY <2>1, <2>2
<1>3. CASE fpga_send
  <2>1. CASE regs = "failed" BY <1>3, <2>1 DEF fpga_send, Ready, Touch
  <2>2. CASE regs = "mapped" BY <1>3, <2>2 DEF fpga_send, Ready, Touch
  <2> QED BY <1>3, <2>1, <2>2 DEF fpga_send
<1>4. CASE fpga_recv BY <1>4 DEF fpga_recv, Ready, Touch
<1>5. CASE GetsReady BY <1>5 DEF GetsReady
<1>6. CASE Poll
  <2>1. call'.at = call.at /\ call' # Idle BY <1>6 DEF Poll
  <2> QED BY <1>6, <2>1 DEF Poll
<1>7. CASE GiveUp
  <2>1. CASE call.at = "open" BY <1>7, <2>1 DEF GiveUp, Release
  <2>2. CASE call.at # "open" BY <1>7, <2>2 DEF GiveUp
  <2> QED BY <2>1, <2>2
<1>8. CASE Opened BY <1>8 DEF Opened
<1>9. CASE Words BY <1>9 DEF Words
<1>10. CASE UNCHANGED fpgaVars BY <1>10 DEF fpgaVars
<1> QED BY <1>1, <1>2, <1>3, <1>4, <1>5, <1>6, <1>7, <1>8, <1>9, <1>10 DEF FpgaNext, Code

(* No access without a mapping, unless mmap failed beside an open context.  *)
THEOREM RegistersMapped == FpgaSpec => []AccessMapped
<1>1. FpgaInv => AccessMapped BY DEF FpgaInv
<1> QED BY <1>1, FpgaInvInit, FpgaInvNext, PTL DEF FpgaSpec

(* Nothing is leaked but by an open beside an open context.                 *)
THEOREM DescriptorsReleased == FpgaSpec => []HandlesReleased
<1>1. FpgaInv => HandlesReleased BY DEF FpgaInv
<1> QED BY <1>1, FpgaInvInit, FpgaInvNext, PTL DEF FpgaSpec

-----------------------------------------------------------------------------
(* The simulated FPGA's driver, for any number of writers.                  *)

(* What is on the timer and who holds the device, from stage to stage of    *)
(* the unloading.                                                           *)
StagesInv ==
    /\ module \in {"out", "in", "exit1", "exit2", "exit3", "gone"}
    /\ at \in [Writer -> {"idle", "look", "reset", "busy", "schedule"}]
    /\ queued \subseteq Works /\ running \subseteq Works
    /\ freed => module \in {"out", "gone"}
    /\ module # "in" => users = {}
    /\ \A w \in Writer : at[w] # "idle" => w \in users
    /\ module = "exit2" => queued = {} /\ "complete" \notin running
    /\ module \in {"out", "exit3", "gone"} => queued = {} /\ running = {}

(* The strengthening of NoUseAfterFree is an invariant of fpga_driver.c's   *)
(* interleavings.                                                           *)
THEOREM StagesInvariant == DriverSpec => []StagesInv
<1>1. DriverInit => StagesInv
  BY DEF DriverInit, StagesInv, Works
<1>2. StagesInv /\ [DriverNext]_driverVars => StagesInv'
  <2> SUFFICES ASSUME StagesInv, [DriverNext]_driverVars PROVE StagesInv'
    OBVIOUS
  <2> USE DEF StagesInv, Works
  <2>1. CASE fpga_init
    BY <2>1 DEF fpga_init
  <2>2. CASE fpga_exit
    <3>1. CASE users = {} /\ Exit("in", "exit1") /\ Cancel(First)
                 /\ UNCHANGED freed
      BY <2>2, <3>1 DEF fpga_exit, Exit, Cancel
    <3>2. CASE Ended(First) /\ Exit("exit1", "exit2") /\ Cancel(Second)
                 /\ UNCHANGED freed
      BY <2>2, <3>2 DEF fpga_exit, Exit, Cancel, Ended, First, Second
    <3>3. CASE Ended(Second) /\ Exit("exit2", "exit3")
                 /\ UNCHANGED <<queued, freed>>
      BY <2>2, <3>3 DEF fpga_exit, Exit, Ended, First, Second
    <3>4. CASE Exit("exit3", "gone") /\ freed' = TRUE /\ UNCHANGED queued
      BY <2>2, <3>4 DEF fpga_exit, Exit
    <3>5. QED
      BY <2>2, <3>1, <3>2, <3>3, <3>4 DEF fpga_exit
  <2>3. ASSUME NEW w \in Writer,
               fpga_open(w) \/ fpga_release(w) \/ Copy(w) \/ Write(w)
        PROVE  StagesInv'
    <3>1. CASE fpga_open(w)
      BY <3>1 DEF fpga_open
    <3>2. CASE fpga_release(w)
      BY <3>2 DEF fpga_release
    <3>3. CASE Copy(w)
      BY <3>3 DEF Copy
    <3>4. CASE Look(w)
      BY <3>4 DEF Look
    <3>5. CASE Reset(w)
      BY <3>5 DEF Reset
    <3>6. CASE Busy(w)
      BY <3>6 DEF Busy
    <3>7. CASE Scheduled(w)
      BY <3>7 DEF Scheduled, Schedule
    <3>8. QED
      BY <2>3, <3>1, <3>2, <3>3, <3>4, <3>5, <3>6, <3>7 DEF Write
  <2>4. ASSUME NEW work \in Works, Begin(work) \/ End(work)
        PROVE  StagesInv'
    <3>1. CASE Begin(work)
      BY <3>1 DEF Begin
    <3>2. CASE End(work)
      BY <3>2 DEF End, Schedule
    <3>3. QED
      BY <2>4, <3>1, <3>2
  <2>5. CASE UNCHANGED driverVars
    BY <2>5 DEF driverVars
  <2>6. QED
    BY <2>1, <2>2, <2>3, <2>4, <2>5 DEF DriverNext
<1>3. QED
  BY <1>1, <1>2, PTL DEF DriverSpec

(* NoUseAfterFree holds for every set of writers: the registers are never   *)
(* freed under a work or a caller.                                          *)
THEOREM FreedOnlyWhenQuiet == DriverSpec => []NoUseAfterFree
<1>1. StagesInv => NoUseAfterFree
  BY DEF StagesInv, NoUseAfterFree
<1>2. QED
  BY <1>1, StagesInvariant, PTL

-----------------------------------------------------------------------------
(* The link target check, for any links and targets.                        *)

Passes(i) == read[i] # Unread /\ Meets(read[i][1], Cases[i])

(* The types, and what each verdict says.                                   *)
Table ==
    /\ link \in Found
    /\ results \in Seq(BOOLEAN) /\ Len(results) <= 4
    /\ read \in Seq(Found) /\ Len(read) = Len(results)
    /\ \A i \in 1..Len(results) : results[i] = Passes(i)
    /\ overall = \A i \in 1..Len(results) : results[i]

(* The cases are ordered: each asks for at least what the one before it     *)
(* asks for.                                                                *)
LEMMA CasesOrdered ==
    /\ Len(Cases) = 4
    /\ \A i \in 1..4 : Cases[i].gen \in Nat /\ Cases[i].width \in Nat
    /\ \A i \in 1..4, j \in 1..4 :
           i <= j => Cases[i].gen <= Cases[j].gen /\ Cases[i].width <= Cases[j].width
    /\ \A i \in 1..4 : Cases[i].gen # UNKNOWN /\ Cases[i].width > 0
<1>1. Len(Cases) = 4 BY DEF Cases
<1>2. /\ Cases[1] = [gen |-> 5, width |-> 1] /\ Cases[2] = [gen |-> 6, width |-> 4]
      /\ Cases[3] = [gen |-> 7, width |-> 8] /\ Cases[4] = [gen |-> 8, width |-> 16]
  BY DEF Cases
<1>3. 1..4 = {1, 2, 3, 4} OBVIOUS
<1> QED BY <1>1, <1>2, <1>3 DEF UNKNOWN

(* So a link that meets a case meets the cases before it.                   *)
LEMMA HarderMeetsEasier ==
    ASSUME NEW l \in Found, l # Unread, NEW i \in 1..4, NEW j \in 1..4, i <= j,
           Meets(l[1], Cases[j])
    PROVE  Meets(l[1], Cases[i])
<1>1. l[1].gen \in Nat /\ l[1].width \in Nat BY LinksAssumption DEF Found
<1> QED BY <1>1, CasesOrdered DEF Meets

(* Every verdict is the one its link earns, whatever the links do.          *)
THEOREM TableInvariant == LinkSpec => []Table
<1>1. LinkInit => Table BY DEF LinkInit, Table, Found, Unread
<1>2. Table /\ [LinkNext]_linkVars => Table'
  <2> SUFFICES ASSUME Table, [LinkNext]_linkVars PROVE Table' OBVIOUS
  <2> USE DEF Table
  <2>1. CASE Case
    <3> DEFINE n == Len(results) + 1
               passed == pcie_check_link_target(Cases[n])
    <3>1. /\ results' = Append(results, passed) /\ read' = Append(read, link)
          /\ link' = link /\ overall' = (overall /\ passed) /\ Len(results) < 4
      BY <2>1, CasesOrdered DEF Case, AllPass
    <3>2. passed \in BOOLEAN BY DEF pcie_check_link_target
    <3>3. /\ results' \in Seq(BOOLEAN) /\ Len(results') = n /\ n \in Nat
          /\ read' \in Seq(Found) /\ Len(read') = n
          /\ results'[n] = passed /\ read'[n] = link
          /\ \A i \in 1..Len(results) : results'[i] = results[i] /\ read'[i] = read[i]
      BY <3>1, <3>2
    <3>4. \A i \in 1..n : i \in 1..Len(results) \/ i = n BY <3>3
    <3>5. \A i \in 1..n : results'[i] = Passes(i)'
      BY <3>3, <3>4 DEF Passes, pcie_check_link_target
    <3>6. overall' = \A i \in 1..n : results'[i]
      <4>1. CASE overall /\ passed
        <5>1. \A i \in 1..n : results'[i] BY <4>1, <3>3, <3>4
        <5> QED BY <4>1, <5>1, <3>1
      <4>2. CASE ~passed
        <5>1. n \in 1..n /\ ~results'[n] BY <4>2, <3>3
        <5> QED BY <4>2, <5>1, <3>1
      <4>3. CASE ~overall
        <5>1. PICK i \in 1..Len(results) : ~results[i] BY <4>3
        <5>2. i \in 1..n /\ ~results'[i] BY <5>1, <3>3
        <5> QED BY <5>2, <4>3, <3>1
      <4> QED BY <4>1, <4>2, <4>3
    <3>7. link' \in Found /\ Len(results') <= 4 BY <3>1, <3>3
    <3> HIDE DEF n, passed
    <3> QED BY <3>3, <3>5, <3>6, <3>7
  <2>2. ASSUME NEW t \in Targets, Check(t) PROVE Table'
    BY <2>2, Zenon DEF Check, Passes
  <2>3. CASE Retrain
    <3>1. link' \in Found BY <2>3 DEF Retrain
    <3> QED BY <2>3, <3>1, Zenon DEF Retrain, Passes
  <2>4. CASE UNCHANGED linkVars BY <2>4, Zenon DEF linkVars, Passes
  <2> QED BY <2>1, <2>2, <2>3, <2>4 DEF LinkNext
<1> QED BY <1>1, <1>2, PTL DEF LinkSpec

(* A case passed on the link on which a harder one did.                     *)
THEOREM MatrixMonotone == LinkSpec => []Monotone
<1>1. Table => Monotone
  <2> SUFFICES ASSUME Table, NEW j \in DOMAIN results, results[j],
                      NEW i \in 1..j, read[i] = read[j]
               PROVE  results[i]
    BY DEF Monotone
  <2>1. j \in 1..4 /\ i \in 1..4 /\ i <= j /\ i \in 1..Len(results) /\ j \in 1..Len(results)
    BY DEF Table
  <2>2. read[i] \in Found /\ Passes(j) BY <2>1 DEF Table
  <2>3. Passes(i) BY <2>1, <2>2, HarderMeetsEasier DEF Passes
  <2> QED BY <2>1, <2>3 DEF Table
<1> QED BY <1>1, TableInvariant, PTL

(* The overall verdict is that of the hardest case on a link that stays,    *)
(* and hides no failed case on one that does not.                           *)
THEOREM MatrixHonest == LinkSpec => []OverallHonest
<1>1. Table => OverallHonest
  <2> SUFFICES ASSUME Table, Len(results) = 4
               PROVE  /\ (\A i \in DOMAIN read : read[i] = read[1]) => overall = results[4]
                      /\ overall => FALSE \notin {results[i] : i \in DOMAIN results}
    BY CasesOrdered DEF OverallHonest
  <2>1. DOMAIN results = 1..4 /\ DOMAIN read = 1..4 BY DEF Table
  <2>2. ASSUME \A i \in DOMAIN read : read[i] = read[1], results[4]
        PROVE  \A i \in 1..4 : results[i]
    <3>1. Passes(4) /\ read[4] \in Found
      <4>1. 4 \in 1..Len(results) /\ 4 \in 1..Len(read) BY DEF Table
      <4>2. results[4] = Passes(4) BY <4>1 DEF Table
      <4>3. \A S : read \in Seq(S) => read[4] \in S BY <4>1
      <4>4. read[4] \in Found BY <4>3, Zenon DEF Table
      <4> QED BY <2>2, <4>2, <4>4, Zenon
    <3>2. ASSUME NEW i \in 1..4 PROVE Passes(i)
      BY <2>1, <2>2, <3>1, HarderMeetsEasier DEF Passes
    <3> QED BY <2>1, <3>2 DEF Table
  <2>3. overall = \A i \in 1..4 : results[i] BY DEF Table
  <2>4. overall => results[4]
    <3>1. 4 \in 1..4 OBVIOUS
    <3> QED BY <2>3, <3>1, Zenon
  <2>5. FALSE \in {results[i] : i \in DOMAIN results} => ~overall BY <2>1, <2>3
  <2>6. results[4] \in BOOLEAN
    <3>1. results \in [1..Len(results) -> BOOLEAN] /\ 4 \in 1..Len(results) BY DEF Table
    <3> QED BY <3>1
  <2>7. overall \in BOOLEAN BY <2>3, Zenon
  <2> QED BY <2>2, <2>3, <2>4, <2>5, <2>6, <2>7
<1> QED BY <1>1, TableInvariant, PTL

(* The table of the matrix claims no more than its links bear out.          *)
THEOREM MatrixTable == LinkSpec => []TableHonest
BY MatrixMonotone, MatrixHonest, PTL DEF TableHonest

(* pci_link_check passes no link that is narrower than asked, or known to   *)
(* be slower, whatever the link does before and after the query.            *)
THEOREM VerdictEarned == LinkSpec => []PassEarned
<1>1. LinkInit => PassEarned BY DEF LinkInit, PassEarned, None
<1>2. Table /\ PassEarned /\ [LinkNext]_linkVars => PassEarned'
  <2> SUFFICES ASSUME Table, PassEarned, [LinkNext]_linkVars PROVE PassEarned' OBVIOUS
  <2>1. ASSUME NEW t \in Targets, Check(t) PROVE PassEarned'
    <3> DEFINE asked == [t EXCEPT !.width = @ % 256]
    <3> SUFFICES ASSUME verdict'.outcome = "pass"
                 PROVE  /\ verdict'.link # Unread
                        /\ verdict'.target.width < 256 =>
                               verdict'.link[1].width >= verdict'.target.width
                        /\ \/ UNKNOWN \in {verdict'.link[1].gen, verdict'.target.gen}
                           \/ verdict'.link[1].gen >= verdict'.target.gen
      BY DEF PassEarned
    <3>1. verdict' = [target |-> t, link |-> link, outcome |-> Outcome(t)] BY <2>1 DEF Check
    <3>2. link # Unread /\ Meets(link[1], asked)
      BY <3>1 DEF Outcome, pcie_check_link_target
    <3>3. link[1].gen \in Nat /\ link[1].width \in Nat BY <3>2, LinksAssumption DEF Table, Found
    <3>4. t \in [gen : Nat, width : Nat] BY TargetsAssumption
    <3>5. asked.gen = t.gen /\ asked.width = t.width % 256 BY <3>4
    <3>6. t.width < 256 => asked.width = t.width BY <3>4, <3>5
    <3> HIDE DEF asked
    <3>7. t.width < 256 => link[1].width >= t.width BY <3>2, <3>3, <3>4, <3>6 DEF Meets
    <3>8. UNKNOWN \in {link[1].gen, t.gen} \/ link[1].gen >= t.gen
      BY <3>2, <3>3, <3>4, <3>5 DEF Meets
    <3> QED BY <3>1, <3>2, <3>7, <3>8
  <2>2. CASE Case BY <2>2 DEF Case, PassEarned
  <2>3. CASE Retrain BY <2>3 DEF Retrain, PassEarned
  <2>4. CASE UNCHANGED linkVars BY <2>4 DEF linkVars, PassEarned
  <2> QED BY <2>1, <2>2, <2>3, <2>4 DEF LinkNext
<1> QED BY <1>1, <1>2, TableInvariant, PTL DEF LinkSpec
-----------------------------------------------------------------------------
(* The application that chooses a backend: a behaviour of Backends is one   *)
(* of each part, whichever is chosen.                                       *)

(* A step of the application is one of its part, and leaves the others      *)
(* alone.                                                                   *)
LEMMA OneStep ==
    [Next]_vars => /\ [RingNext]_ringVars /\ [XgigNext]_xgigVars
                   /\ [FpgaNext]_fpgaVars /\ [DriverNext]_driverVars
                   /\ [LinkNext]_linkVars
                   /\ [Pci!Next]_pciVars /\ [Access!Next]_accessVars
                   /\ [Dummy!Setenv]_dummyVars
BY DEF Next, RingStep, XgigStep, FpgaStep, DriverStep, TargetStep, AccessStep,
       PciStep, DummyStep, Others, vars

(* An application over any backend behaves, as far as each part goes, as    *)
(* that part's module says: the statics of one file are not touched by      *)
(* another.                                                                 *)
THEOREM PartsTogether ==
    Spec => RingSpec /\ XgigSpec /\ FpgaSpec /\ DriverSpec /\ LinkSpec
<1>1. Init => RingInit /\ XgigInit /\ FpgaInit /\ DriverInit /\ LinkInit
  BY DEF Init
<1>2. [Next]_vars => [RingNext]_ringVars
  BY OneStep
<1>3. [Next]_vars => [XgigNext]_xgigVars
  BY OneStep
<1>4. [Next]_vars => [FpgaNext]_fpgaVars
  BY OneStep
<1>5. [Next]_vars => [DriverNext]_driverVars
  BY OneStep
<1>6. [Next]_vars => [LinkNext]_linkVars
  BY OneStep
<1> QED
  BY <1>1, <1>2, <1>3, <1>4, <1>5, <1>6, PTL
     DEF Spec, RingSpec, XgigSpec, FpgaSpec, DriverSpec, LinkSpec

(* So what holds of the parts holds of the whole.                           *)
THEOREM PartsCorrect ==
    Spec => /\ [](RingInv /\ Framing /\ AccessMapped /\ HandlesReleased)
            /\ [](NoUseAfterFree /\ TableHonest /\ PassEarned)
            /\ ImplementsFifo
BY PartsTogether, RingInOrder, XgigFraming, RegistersMapped, DescriptorsReleased,
   FreedOnlyWhenQuiet, MatrixTable, VerdictEarned, RingImplementsFifo, PTL

-----------------------------------------------------------------------------
(* Link status.                                                             *)

(* The query's fields; only a link query reads link registers.             *)
Devices == Pci!Device \cup {Pci!Gone}

Queries == [at : {"idle", "ids", "header", "hop", "lnkcap", "lnksta"},
            kind : {"link", "info"}, rc : {0, 1},
            ptr : Place \cup {0, Ones}, hops : Nat, found : BOOLEAN,
            max : SpeedCode \cup {0, 15}, negotiated : SpeedCode \cup {0, 15}]

QueryType ==
    /\ pciDevice \in Devices /\ query \in Queries
    /\ query.at \in {"ids", "header"} => query.hops = 0
    /\ query.at = "hop" => query.ptr \in DOMAIN pciDevice.next
    /\ query.at \in {"lnkcap", "lnksta"} => query.kind = "link" /\ query.found

(* What a search that nothing disturbs knows: its place is one that the     *)
(* list leads to, and those it has seen, W, are as many as its hops (or     *)
(* the list has run into a circle), without the capability, and lead to     *)
(* nothing but themselves and that place.                                   *)
Visited(W) ==
    /\ pciDevice.start \in W \cup {query.ptr}
    /\ \A p \in W : pciDevice.next[p] \in W \cup {query.ptr}
    /\ W \cap pciDevice.pcie = {}
    /\ query.ptr \in W \/ Cardinality(W) = query.hops

Here == Pci!Reachable \cap pciDevice.pcie

Searched ==
    /\ query.at = "hop" => /\ query.ptr \in Pci!Reachable
                           /\ \E W \in SUBSET DOMAIN pciDevice.next : Visited(W)
    /\ query.at \in {"lnkcap", "lnksta"} => Here # {}
    /\ Pci!Idle /\ queries > 0 => (query.found <=> Here # {})

LinkInv == QueryType /\ (calm => Searched)

(* The list leads to where it starts, from there on along its pointers, and *)
(* nowhere else.                                                            *)
LEMMA ReachStart ==
    ASSUME pciDevice \in Devices, pciDevice.start # 0
    PROVE  pciDevice.start \in Pci!Reachable
BY DEF Devices, Pci!Device, Pci!Gone, Pci!Reachable, Pci!Leads

(* The places a list leads to are closed under its pointers, and the least  *)
(* such set.                                                                *)
LEMMA ReachNext ==
    ASSUME pciDevice \in Devices, NEW p \in Pci!Reachable, pciDevice.next[p] # 0
    PROVE  pciDevice.next[p] \in Pci!Reachable
BY DEF Devices, Pci!Device, Pci!Gone, Pci!Reachable, Pci!Leads

LEMMA ReachWithin ==
    ASSUME NEW W \in SUBSET DOMAIN pciDevice.next, Pci!Leads(W)
    PROVE  Pci!Reachable \subseteq W
BY DEF Pci!Reachable

(* After as many hops as there are places the search has seen them all.     *)
LEMMA HopsSuffice ==
    ASSUME QueryType, NEW W \in SUBSET DOMAIN pciDevice.next, Visited(W),
           query.ptr \in DOMAIN pciDevice.next, query.hops = HopLimit
    PROVE  Here = {}
<1>1. CASE pciDevice = Pci!Gone
  BY <1>1 DEF Pci!Gone, Here
<1>2. CASE pciDevice \in Pci!Device
  <2>1. W \subseteq Place /\ query.ptr \in Place
    BY <1>2 DEF Pci!Device
  <2>2. query.ptr \in W
    <3> SUFFICES ASSUME query.ptr \notin W PROVE FALSE OBVIOUS
    <3>1. Cardinality(W) = HopLimit
      BY DEF Visited
    <3>2. IsFiniteSet(W) /\ Cardinality(W) <= Cardinality(Place)
          /\ (Cardinality(W) = Cardinality(Place) => W = Place)
      BY <2>1, PlaceAssumption, FS_Subset
    <3>3. Cardinality(Place) \in Nat /\ Cardinality(W) \in Nat
      BY <3>2, PlaceAssumption, FS_CardinalityType
    <3> QED
      BY <2>1, <3>1, <3>2, <3>3, PlaceAssumption
  <2>3. Pci!Leads(W)
    BY <2>2 DEF Visited, Pci!Leads
  <2> QED
    BY <2>3, ReachWithin DEF Visited, Here
<1> QED
  BY <1>1, <1>2 DEF QueryType, Devices

(* Where the list ends, the search has seen all of it as well.              *)
LEMMA EndSuffices ==
    ASSUME QueryType, NEW W \in SUBSET DOMAIN pciDevice.next, Visited(W),
           query.ptr \in DOMAIN pciDevice.next, query.ptr \notin pciDevice.pcie,
           pciDevice.next[query.ptr] = 0
    PROVE  Here = {}
<1> DEFINE V == W \cup {query.ptr}
<1>1. Pci!Leads(V) /\ V \in SUBSET DOMAIN pciDevice.next /\ V \cap pciDevice.pcie = {}
  BY DEF Visited, Pci!Leads
<1> QED
  BY <1>1, ReachWithin DEF Here

(* One more hop.                                                            *)
LEMMA HopVisits ==
    ASSUME QueryType, NEW W \in SUBSET DOMAIN pciDevice.next, Visited(W),
           query.ptr \in Pci!Reachable, query.ptr \notin pciDevice.pcie,
           pciDevice.next[query.ptr] # 0, UNCHANGED pciDevice,
           query' = [query EXCEPT !.ptr = pciDevice.next[query.ptr], !.hops = @ + 1]
    PROVE  \E V \in SUBSET DOMAIN pciDevice.next : Visited(V)'
<1> DEFINE q == pciDevice.next[query.ptr]
<1>v. PICK V : V = W \cup {query.ptr}
  OBVIOUS
<1>1. query'.ptr = q /\ query'.hops = query.hops + 1 /\ query.hops \in Nat
  BY DEF QueryType, Queries
<1>2. query.ptr \in DOMAIN pciDevice.next
  BY DEF Pci!Reachable
<1>3. V \in SUBSET DOMAIN pciDevice.next
  BY <1>2, <1>v
<1>4. /\ pciDevice'.start \in V \cup {q} /\ V \cap pciDevice'.pcie = {}
      /\ \A p \in V : pciDevice'.next[p] \in V \cup {q}
  BY <1>v DEF Visited
<1>5. q \in V \/ Cardinality(V) = query.hops + 1
  <2>1. CASE query.ptr \in W
    BY <1>v, <2>1 DEF Visited
  <2>2. CASE query.ptr \notin W
    <3>1. IsFiniteSet(DOMAIN pciDevice.next)
      <4>1. DOMAIN pciDevice.next = Place \/ DOMAIN pciDevice.next = Place \cup {Ones}
        BY DEF QueryType, Devices, Pci!Device, Pci!Gone
      <4> QED
        BY <4>1, PlaceAssumption, FS_AddElement
    <3>2. IsFiniteSet(W)
      BY <3>1, FS_Subset
    <3>3. Cardinality(V) = Cardinality(W) + 1
      BY <1>v, <2>2, <3>2, FS_AddElement
    <3> QED
      BY <2>2, <3>3 DEF Visited
  <2> QED
    BY <2>1, <2>2
<1>6. Visited(V)'
  BY <1>1, <1>4, <1>5 DEF Visited
<1> QED
  BY <1>3, <1>6

(* LinkInv is inductive; of the steps of a query the hop is the one that    *)
(* matters.                                                                 *)
LEMMA LinkInvInit == Init => LinkInv
BY DEF Init, Pci!Init, LinkInv, QueryType, Queries, Devices, Searched, Pci!Idle

(* A step that keeps the device, and how a search that knows the answer     *)
(* ends.                                                                    *)
LEMMA SearchEnds ==
    ASSUME LinkInv, NEW found \in BOOLEAN, query.at \in {"header", "hop"},
           query' = Pci!Ended(query, found), UNCHANGED <<pciDevice, calm, queries>>,
           calm => (found <=> Here # {})
    PROVE  LinkInv'
<1>1. query' = [query EXCEPT
                  !.found = found,
                  !.at = IF found /\ query.kind = "link" THEN "lnkcap" ELSE "idle",
                  !.rc = IF query.kind = "info" THEN 0 ELSE 1]
  BY DEF Pci!Ended
<1>2. QueryType'
  BY <1>1 DEF LinkInv, QueryType, Queries
<1>3. query'.at \in {"idle", "lnkcap"} /\ query'.found = found
      /\ (query'.at = "lnkcap" => found)
  BY <1>1 DEF LinkInv, QueryType, Queries
<1>4. Here' = Here
  BY DEF Here, Pci!Reachable, Pci!Leads
<1>5. calm' => Searched'
  BY <1>3, <1>4 DEF Searched
<1> QED
  BY <1>2, <1>5 DEF LinkInv

LEMMA HopStep ==
    ASSUME LinkInv, Pci!Hop, UNCHANGED <<pciDevice, calm, queries>>
    PROVE  LinkInv'
<1> USE DEF LinkInv
<1>1. query.at = "hop" /\ QueryType
  BY DEF Pci!Hop
<1>2. calm => /\ query.ptr \in Pci!Reachable /\ query.ptr \in DOMAIN pciDevice.next
              /\ \E W \in SUBSET DOMAIN pciDevice.next : Visited(W)
  BY <1>1 DEF Searched, Pci!Reachable
<1>3. CASE query.hops = HopLimit
  <2>1. query' = Pci!Ended(query, FALSE)
    BY <1>3 DEF Pci!Hop
  <2>2. calm => Here = {}
    BY <1>1, <1>2, <1>3, HopsSuffice
  <2> QED
    BY <1>1, <2>1, <2>2, SearchEnds
<1>4. CASE query.hops # HopLimit /\ query.ptr \in pciDevice.pcie
  <2>1. query' = Pci!Ended(query, TRUE)
    BY <1>4 DEF Pci!Hop
  <2>2. calm => Here # {}
    BY <1>2, <1>4 DEF Here
  <2> QED
    BY <1>1, <2>1, <2>2, SearchEnds
<1>5. CASE query.hops # HopLimit /\ query.ptr \notin pciDevice.pcie
           /\ pciDevice.next[query.ptr] = 0
  <2>1. query' = Pci!Ended(query, FALSE)
    BY <1>5 DEF Pci!Hop
  <2>2. calm => Here = {}
    BY <1>1, <1>2, <1>5, EndSuffices
  <2> QED
    BY <1>1, <2>1, <2>2, SearchEnds
<1>6. CASE query.hops # HopLimit /\ query.ptr \notin pciDevice.pcie
           /\ pciDevice.next[query.ptr] # 0
  <2>1. query' = [query EXCEPT !.ptr = pciDevice.next[query.ptr], !.hops = @ + 1]
    BY <1>6 DEF Pci!Hop
  <2>2. QueryType'
    <3>1. pciDevice.next[query.ptr] \in Place \cup {0, Ones}
          /\ pciDevice.next[query.ptr] \in DOMAIN pciDevice.next
      BY <1>1, <1>6 DEF QueryType, Devices, Pci!Device, Pci!Gone
    <3>2. query' \in Queries
      <4>1. PICK q \in Place \cup {0, Ones} : q = pciDevice.next[query.ptr]
        BY <3>1
      <4>2. query \in Queries
        BY <1>1 DEF QueryType
      <4>3. PICK h \in Nat : h = query.hops + 1
        BY <4>2 DEF Queries
      <4>4. query' = [query EXCEPT !.ptr = q, !.hops = h]
        BY <2>1, <4>1, <4>3
      <4> HIDE DEF LinkInv
      <4> QED
        BY <4>2, <4>4 DEF Queries
    <3>3. query'.at = "hop" /\ query'.ptr = pciDevice.next[query.ptr]
      BY <1>1, <2>1 DEF QueryType, Queries
    <3> QED
      BY <1>1, <3>1, <3>2, <3>3 DEF QueryType
  <2>3. query'.at = "hop" /\ query'.ptr = pciDevice.next[query.ptr]
    BY <1>1, <2>1 DEF QueryType, Queries
  <2>4. ASSUME calm PROVE Searched'
    <3>1. \E V \in SUBSET DOMAIN pciDevice'.next : Visited(V)'
      BY <1>1, <1>2, <1>6, <2>1, <2>4, HopVisits
    <3>2. query'.ptr \in Pci!Reachable
      BY <1>1, <1>2, <1>6, <2>3, <2>4, ReachNext DEF QueryType
    <3>3. Pci!Reachable' = Pci!Reachable
      BY DEF Pci!Reachable, Pci!Leads
    <3> QED
      BY <2>3, <3>1, <3>2, <3>3 DEF Searched, Pci!Idle
  <2> QED
    BY <2>2, <2>4
<1> QED
  BY <1>3, <1>4, <1>5, <1>6

LEMMA LinkInvNext == LinkInv /\ [Pci!Next]_pciVars => LinkInv'
<1> SUFFICES ASSUME LinkInv, [Pci!Next]_pciVars PROVE LinkInv' OBVIOUS
<1> USE DEF LinkInv
<1>1. ASSUME NEW kind \in {"link", "info"}, Pci!Call(kind) PROVE LinkInv'
  <2>1. /\ query'.at \in {"ids", "header"} /\ query'.hops = 0
        /\ query' \in Queries /\ pciDevice' = pciDevice
    BY <1>1 DEF Pci!Call, Queries
  <2> QED BY <2>1 DEF QueryType, Searched, Pci!Idle
<1>2. CASE Pci!Step
  <2>1. UNCHANGED <<pciDevice, calm, queries>>
    BY <1>2 DEF Pci!Step
  <2>2. CASE Pci!Header
    <3>1. query.at = "header"
      BY <2>2 DEF Pci!Header
    <3>2. CASE pciDevice.start = 0
      <4>1. query' = Pci!Ended(query, FALSE)
        BY <2>2, <3>2 DEF Pci!Header
      <4>2. Pci!Leads({})
        BY <3>2 DEF Pci!Leads
      <4>3. Here = {}
        BY <4>2, ReachWithin DEF Here
      <4> QED
        BY <2>1, <3>1, <4>1, <4>3, SearchEnds
    <3>3. CASE pciDevice.start # 0
      <4>1. query' = [query EXCEPT !.at = "hop", !.ptr = pciDevice.start]
        BY <2>2, <3>3 DEF Pci!Header
      <4>2. pciDevice.start \in Pci!Reachable
        BY <3>3, ReachStart DEF QueryType
      <4>3. query'.at = "hop" /\ query'.ptr = pciDevice.start /\ query'.hops = 0
        BY <3>1, <4>1 DEF QueryType, Queries
      <4>4. pciDevice.start \in (Place \cup {Ones}) \cap DOMAIN pciDevice.next
        BY <3>3 DEF QueryType, Devices, Pci!Device, Pci!Gone
      <4>6. query' \in Queries
        BY <4>1, <4>4 DEF QueryType, Queries
      <4>7. QueryType'
        BY <2>1, <4>3, <4>4, <4>6 DEF QueryType
      <4>5. calm' => Searched'
        <5>1. Pci!Reachable' = Pci!Reachable
          BY <2>1 DEF Pci!Reachable, Pci!Leads
        <5>2. Visited({})'
          BY <2>1, <4>3, FS_EmptySet DEF Visited
        <5> QED
          BY <2>1, <4>2, <4>3, <5>1, <5>2 DEF Searched, Pci!Idle
      <4> QED
        BY <4>5, <4>7
    <3> QED
      BY <3>2, <3>3
  <2>3. CASE Pci!Hop
    BY <2>1, <2>3, HopStep
  <2>4. CASE Pci!LinkCap
    <3>1. query' = [query EXCEPT !.max = pciDevice.max, !.at = "lnksta"]
          /\ query.at = "lnkcap"
      BY <2>4 DEF Pci!LinkCap
    <3>2. QueryType'
      <4>1. pciDevice.max \in SpeedCode \cup {15}
        BY DEF QueryType, Devices, Pci!Device, Pci!Gone
      <4>2. query' \in Queries /\ query'.at = "lnksta"
            /\ query'.kind = query.kind /\ query'.found = query.found
        BY <3>1, <4>1 DEF QueryType, Queries
      <4> QED
        BY <2>1, <3>1, <4>2 DEF QueryType
    <3>3. Here' = Here
      BY <2>1 DEF Here, Pci!Reachable, Pci!Leads
    <3>4. calm' => Searched'
      BY <2>1, <3>1, <3>3 DEF Searched, Pci!Idle, QueryType, Queries
    <3> QED
      BY <3>2, <3>4
  <2>5. CASE Pci!LinkSta
    <3>1. PICK rc \in {0, 1} :
              query' = [query EXCEPT !.negotiated = pciDevice.negotiated,
                                     !.at = "idle", !.rc = rc]
      BY <2>5 DEF Pci!LinkSta
    <3>2. query.at = "lnksta"
      BY <2>5 DEF Pci!LinkSta
    <3>3. QueryType'
      <4>1. pciDevice.negotiated \in SpeedCode \cup {15}
        BY DEF QueryType, Devices, Pci!Device, Pci!Gone
      <4>2. query' \in Queries /\ query'.at = "idle"
        BY <3>1, <4>1 DEF QueryType, Queries
      <4> QED
        BY <2>1, <4>2 DEF QueryType
    <3>4. Here' = Here
      BY <2>1 DEF Here, Pci!Reachable, Pci!Leads
    <3>5. calm' => Searched'
      BY <2>1, <3>1, <3>2, <3>4 DEF Searched, Pci!Idle, QueryType, Queries
    <3> QED
      BY <3>3, <3>5
  <2>6. CASE Pci!Ids
    <3>1. query.at = "ids" /\ query' = [query EXCEPT !.at = "header"]
      BY <2>6 DEF Pci!Ids
    <3>2. query' \in Queries /\ query'.at = "header" /\ query'.hops = 0
      BY <3>1 DEF QueryType, Queries
    <3> QED
      BY <2>1, <3>2 DEF QueryType, Searched, Pci!Idle
  <2> QED
    BY <1>2, <2>2, <2>3, <2>4, <2>5, <2>6 DEF Pci!Step
<1>3. CASE Pci!ReadFails
  <2>1. /\ query' \in Queries /\ query'.at = "idle" /\ ~calm'
        /\ pciDevice' = pciDevice
    BY <1>3 DEF Pci!ReadFails, QueryType, Queries
  <2> QED BY <2>1 DEF QueryType
<1>4. CASE Pci!Change
  BY <1>4 DEF Pci!Change, QueryType, Queries, Devices, Pci!Device, Pci!Gone
<1>5. CASE UNCHANGED pciVars
  <2>1. Here' = Here /\ UNCHANGED <<pciDevice, query, calm, queries>>
    BY <1>5 DEF pciVars, Here, Pci!Reachable, Pci!Leads
  <2>2. Pci!Reachable' = Pci!Reachable
    BY <2>1 DEF Pci!Reachable, Pci!Leads
  <2> QED
    BY <2>1, <2>2 DEF QueryType, Searched, Pci!Idle, Visited
<1> QED
  BY <1>1, <1>2, <1>3, <1>4, <1>5 DEF Pci!Next

(* So it holds in every state.                                              *)
LEMMA LinkInvHolds == Spec => []LinkInv
BY LinkInvInit, OneStep, LinkInvNext, PTL DEF Spec

(* The search finds the capability exactly if the list leads to one, for    *)
(* any device: lists that end, that branch into each other and that run in  *)
(* a circle.                                                                *)
THEOREM SearchExact == Spec => []FoundIfReachable
<1>1. LinkInv => FoundIfReachable
  BY DEF LinkInv, Searched, Here, FoundIfReachable, Pci!FoundIfReachable
<1> QED
  BY <1>1, LinkInvHolds, PTL

(* No link status of a device that went away before the last register was   *)
(* read.                                                                    *)
THEOREM RemovalNoticed == Spec => GoneIsNoticed
<1> DEFINE Noticed == (/\ pciDevice = Pci!Gone /\ query.at = "lnksta" /\ query'.at = "idle")
                      => query'.rc = 1
<1>1. LinkInv /\ [Pci!Next]_pciVars => [Noticed]_(Pci!vars)
  <2> SUFFICES ASSUME QueryType, Pci!Next, pciDevice = Pci!Gone,
                      query.at = "lnksta", query'.at = "idle"
               PROVE  query'.rc = 1
    BY DEF LinkInv, pciVars, Pci!vars
  <2>1. CASE Pci!LinkSta
    <3>1. pciDevice.negotiated = 15
      BY DEF Pci!Gone
    <3>2. ~Pci!Known(pciDevice.negotiated)
      BY <3>1 DEF Pci!Known
    <3> QED
      BY <2>1, <3>2 DEF Pci!LinkSta, QueryType, Queries
  <2>2. CASE Pci!ReadFails
    BY <2>2 DEF Pci!ReadFails, QueryType, Queries
  <2> QED
    BY <2>1, <2>2 DEF Pci!Next, Pci!Call, Pci!Change, Pci!Idle, Pci!Step, Pci!Ids,
           Pci!Header, Pci!Hop, Pci!LinkCap
<1> QED
  BY <1>1, LinkInvHolds, OneStep, PTL DEF Spec, GoneIsNoticed, Pci!GoneIsNoticed

-----------------------------------------------------------------------------
(* Configuration accesses.                                                  *)

Cell == Unit \cup {NoData}
Space == [0..Size - 1 -> Unit]
Calls == [at : {"done", "open", "move"}, rc : {0, 1}, write : BOOLEAN, off : Nat,
          len : Nat, buf : Seq(Cell), moved : Nat]

(* Types; an access in progress has a buffer as long as it says, and one    *)
(* that writes takes units of the configuration space from it.              *)
AccessType ==
    /\ config \in Space /\ before \in Space /\ visible \in 0..Size
    /\ access \in Calls
    /\ table \in Seq(Seq(Cell)) /\ gui \in {"idle", "read", "shown"}
    /\ access.moved <= access.len
    /\ ~Access!Idle => access.rc = 0 /\ Len(access.buf) = access.len
    /\ ~Access!Idle /\ access.write =>
           \A k \in 1..access.len : access.buf[k] \in Unit
    /\ access.at = "open" => access.moved = 0

(* What is through so far is where it belongs.                              *)
Moved ==
    /\ \A o \in 0..Size - 1 :
          config[o] = IF access.write /\ o \in access.off .. access.off + access.moved - 1
                        THEN access.buf[o - access.off + 1] ELSE before[o]
    /\ ~access.write /\ access.rc = 0 =>
          \A k \in 1..access.moved : access.buf[k] = config[access.off + k - 1]
    /\ Access!Idle /\ access.rc = 0 => access.moved = access.len

(* While the GUI enumerates nobody writes, and the access is the one of the *)
(* next row.                                                                *)
Enumerates ==
    /\ gui = "read" => Access!Idle
    /\ gui = "shown" => /\ ~access.write /\ access.len = Dword
                        /\ access.off = Len(table) * Dword
    /\ Access!RowsAreRegisters

AccessInv == AccessType /\ Moved /\ Enumerates

(* AccessInv is inductive; of the steps of an access the call itself and a  *)
(* part moved are stated by themselves.                                     *)
LEMMA AccessInvInit == Init => AccessInv
<1> SUFFICES ASSUME Init PROVE AccessInv OBVIOUS
<1>1. /\ config \in Space /\ before = config /\ table = << >> /\ gui = "idle"
      /\ access = [at |-> "done", rc |-> 0, write |-> FALSE, off |-> 0,
                   len |-> 0, buf |-> << >>, moved |-> 0]
  BY DEF Init, Access!Init, Space
<1>2. visible \in 0..Size
  BY AccessAssumption DEF Init, Access!Init
<1>3. AccessType
  <2>1. access \in Calls
    BY <1>1 DEF Calls
  <2> QED
    BY <1>1, <1>2, <2>1 DEF AccessType, Access!Idle
<1>4. Moved
  BY <1>1 DEF Moved
<1>5. Enumerates
  BY <1>1 DEF Enumerates, Access!RowsAreRegisters
<1> QED
  BY <1>3, <1>4, <1>5 DEF AccessInv

(* An access begins.                                                        *)
LEMMA AccessBegins ==
    ASSUME AccessInv, NEW write \in BOOLEAN, NEW off \in Nat, NEW len \in Nat,
           NEW buf \in Seq(Cell), Len(buf) = len,
           write => \A k \in 1..len : buf[k] \in Unit,
           Access!Access(write, off, len, buf), UNCHANGED <<config, visible>>,
           table' \in Seq(Seq(Cell)), gui' \in {"idle", "read", "shown"}
    PROVE  AccessType' /\ Moved' /\ ~Access!Idle'
<1>1. /\ access' = [at |-> "open", rc |-> 0, write |-> write, off |-> off,
                    len |-> len, buf |-> buf, moved |-> 0]
      /\ before' = config /\ config \in Space /\ visible \in 0..Size
  BY DEF Access!Access, AccessInv, AccessType
<1>2. access' \in Calls
  BY <1>1 DEF Calls
<1>3. ~Access!Idle'
  BY <1>1 DEF Access!Idle
<1>4. AccessType'
  BY <1>1, <1>2 DEF AccessType
<1>5. Moved'
  <2>1. \A o \in 0..Size - 1 : ~(o \in off .. off + 0 - 1)
    OBVIOUS
  <2> QED
    BY <1>1, <1>3, <2>1 DEF Moved, Space
<1> QED
  BY <1>3, <1>4, <1>5

LEMMA AccessSend == ASSUME AccessInv, NEW t \in Accesses, Access!Send(t)
                    PROVE  AccessInv'
<1>1. UNCHANGED <<config, visible, table, gui>> /\ gui = "idle" /\ Access!Idle
  BY DEF Access!Send
<1>2. config \in Space /\ table \in Seq(Seq(Cell)) /\ visible \in 0..Size /\ access \in Calls
  BY DEF AccessInv, AccessType
<1>3. Enumerates'
  BY <1>1 DEF Enumerates, Access!RowsAreRegisters
<1>4. t.length \in Nat /\ t.addr \in Nat
      /\ (t.data = NoData \/ t.data \in [1..t.length -> Unit])
  BY AccessAssumption
<1>5. CASE Access!Access(TRUE, t.addr, t.length, t.data) /\ t.data # NoData
  <2>1. t.data \in Seq(Cell) /\ Len(t.data) = t.length
        /\ \A k \in 1..t.length : t.data[k] \in Unit
    <3>1. t.data \in [1..t.length -> Unit]
      BY <1>4, <1>5
    <3>2. t.data \in [1..t.length -> Cell]
      BY <3>1 DEF Cell
    <3> QED
      BY <1>4, <3>1, <3>2
  <2>2. AccessType' /\ Moved'
    BY <1>1, <1>2, <1>4, <1>5, <2>1, AccessBegins
  <2> QED
    BY <1>3, <2>2 DEF AccessInv
<1>6. CASE Access!Access(FALSE, t.addr, Access!ReadLength(t),
                         [k \in 1..Access!ReadLength(t) |-> NoData])
  <2> DEFINE len == Access!ReadLength(t)
             buf == [k \in 1..len |-> NoData]
  <2>1. len \in Nat
    BY <1>4, AccessAssumption DEF Access!ReadLength
  <2> HIDE DEF len
  <2>2. buf \in Seq(Cell) /\ Len(buf) = len
    BY <2>1 DEF Cell
  <2> HIDE DEF buf
  <2>3. Access!Access(FALSE, t.addr, len, buf)
    BY <1>6 DEF len, buf
  <2>4. AccessType' /\ Moved'
    BY <1>1, <1>2, <1>4, <2>1, <2>2, <2>3, AccessBegins
  <2> QED
    BY <1>3, <2>4 DEF AccessInv
<1>7. CASE Access!Refused
  <2>1. access' = [access EXCEPT !.rc = 1, !.moved = 0, !.len = 0] /\ before' = config
    BY <1>7 DEF Access!Refused
  <2>2. access' \in Calls /\ access'.at = "done" /\ access'.rc = 1
        /\ access'.moved = 0 /\ access'.len = 0 /\ access'.off \in Nat
    BY <1>1, <1>2, <2>1 DEF Calls, Access!Idle
  <2>3. AccessType'
    BY <1>1, <1>2, <2>1, <2>2 DEF AccessType, Access!Idle
  <2>4. Moved'
    <3>1. \A o \in 0..Size - 1 :
              ~(o \in access'.off .. access'.off + access'.moved - 1)
      BY <2>2
    <3> QED
      BY <1>1, <2>1, <2>2, <3>1 DEF Moved
  <2> QED
    BY <1>3, <2>3, <2>4 DEF AccessInv
<1> QED
  BY <1>5, <1>6, <1>7 DEF Access!Send, Access!pci_send

(* Units move.                                                              *)
LEMMA AccessMoves ==
    ASSUME AccessInv, access.at = "move", NEW n \in 1..(access.len - access.moved),
           access.off + access.moved + n <= visible, Access!Move(n),
           UNCHANGED <<visible, table, gui, before>>
    PROVE  AccessInv'
<1> DEFINE m == access.moved
           first == access.off + m
           New(o) == IF access.write /\ o \in first .. first + n - 1
                       THEN access.buf[m + 1 + o - first] ELSE config[o]
           Got(k) == IF ~access.write /\ k \in m + 1 .. m + n
                       THEN config[first + k - m - 1] ELSE access.buf[k]
           place == IF m + n = access.len THEN "done" ELSE "move"
<1>1. /\ config \in Space /\ before \in Space /\ visible \in 0..Size /\ access \in Calls
      /\ table \in Seq(Seq(Cell)) /\ gui \in {"idle", "read", "shown"}
      /\ Moved /\ Enumerates /\ ~Access!Idle
  BY DEF AccessInv, AccessType, Access!Idle
<1>2. /\ access.rc = 0 /\ Len(access.buf) = access.len
      /\ access.write => \A k \in 1..access.len : access.buf[k] \in Unit
  BY <1>1 DEF AccessInv, AccessType
<1>3. /\ m \in Nat /\ access.off \in Nat /\ access.len \in Nat /\ access.write \in BOOLEAN
      /\ access.buf \in Seq(Cell)
  BY <1>1 DEF Calls
<1>4. n \in Nat /\ n > 0 /\ m + n <= access.len /\ Size \in Nat /\ first + n <= Size
  BY <1>1, <1>3, AccessAssumption
<1>5. config' = [o \in 0..Size - 1 |-> New(o)]
  BY <1>1 DEF Access!Move, Access!Cursor, Space
<1>6. DOMAIN access.buf = 1..access.len
  BY <1>2, <1>3
<1>7. access' = [access EXCEPT !.moved = m + n, !.at = place,
                               !.buf = [k \in 1..access.len |-> Got(k)]]
  BY <1>6 DEF Access!Move, Access!Cursor
<1>8. ASSUME NEW o \in 0..Size - 1 PROVE New(o) \in Unit
  <2>1. CASE access.write /\ o \in first .. first + n - 1
    <3>1. m + 1 + o - first \in 1..access.len
      <4>1. o \in Int /\ first <= o /\ o <= first + n - 1 /\ first \in Int
        BY <1>3, <1>4, <2>1
      <4> HIDE DEF first
      <4> QED
        BY <1>3, <1>4, <4>1
    <3> QED
      BY <1>2, <2>1, <3>1
  <2> QED
    BY <1>1, <2>1 DEF Space
<1>9. ASSUME NEW k \in 1..access.len PROVE Got(k) \in Cell
  <2>1. CASE ~access.write /\ k \in m + 1 .. m + n
    <3>1. first + k - m - 1 \in 0..Size - 1
      BY <1>3, <1>4, <2>1
    <3>2. config[first + k - m - 1] \in Unit
      BY <1>1, <3>1 DEF Space
    <3> QED
      BY <2>1, <3>2 DEF Cell
  <2>2. access.buf[k] \in Cell
    BY <1>3, <1>6
  <2> QED
    BY <2>1, <2>2
<1> DEFINE buf == [k \in 1..access.len |-> Got(k)]
<1>10. buf \in Seq(Cell) /\ Len(buf) = access.len
  <2>1. buf \in [1..access.len -> Cell]
    BY <1>9
  <2> HIDE DEF buf
  <2> QED
    BY <1>3, <2>1
<1>11. ~access.write => config' = config
  BY <1>1, <1>5 DEF Space
<1>12. access.write => buf = access.buf
  BY <1>3, <1>6, <1>10
<1>13. \A k \in 1..access.len : buf[k] = Got(k)
  OBVIOUS
<1> HIDE DEF buf
<1>14. /\ access' \in Calls /\ access'.at = place /\ access'.moved = m + n /\ access'.buf = buf
       /\ access'.rc = 0 /\ access'.len = access.len /\ access'.off = access.off
       /\ access'.write = access.write
  <2>1. access' = [access EXCEPT !.moved = m + n, !.at = place, !.buf = buf]
    BY <1>7 DEF buf
  <2>2. m + n \in Nat /\ place \in {"done", "move"}
    BY <1>3, <1>4
  <2>3. PICK mn \in Nat : mn = m + n
    BY <2>2
  <2> HIDE DEF place
  <2> QED
    BY <1>1, <1>2, <1>10, <2>1, <2>2, <2>3 DEF Calls
<1>15. config' \in Space
  BY <1>5, <1>8 DEF Space
<1>16. AccessType'
  <2>1. access.write => \A k \in 1..access.len : buf[k] \in Unit
    BY <1>2, <1>12
  <2> QED
    BY <1>1, <1>4, <1>10, <1>14, <1>15, <2>1 DEF AccessType
<1>17. Moved'
  <2>1. ASSUME NEW o \in 0..Size - 1
        PROVE  config'[o] = IF access'.write
                               /\ o \in access'.off .. access'.off + access'.moved - 1
                              THEN access'.buf[o - access'.off + 1] ELSE before'[o]
    <3>1. config'[o] = New(o)
      BY <1>5
    <3>2. config[o] = IF access.write /\ o \in access.off .. access.off + m - 1
                        THEN access.buf[o - access.off + 1] ELSE before[o]
      BY <1>1 DEF Moved
    <3>3. CASE ~access.write
      BY <1>14, <3>1, <3>2, <3>3
    <3>4. CASE access.write
      <4>1. access'.buf = access.buf /\ access'.write
            /\ access'.off + access'.moved - 1 = first + n - 1
        BY <1>3, <1>4, <1>12, <1>14, <3>4
      <4>2. CASE o \in first .. first + n - 1
        <5>1. m + 1 + o - first = o - access.off + 1
              /\ o \in access.off .. first + n - 1
          BY <1>3, <1>4, <4>2
        <5> QED
          BY <1>14, <3>1, <3>4, <4>1, <4>2, <5>1
      <4>3. CASE o \notin first .. first + n - 1
        <5>1. o \in access.off .. first + n - 1 <=> o \in access.off .. access.off + m - 1
          BY <1>3, <1>4, <4>3
        <5> QED
          BY <1>14, <3>1, <3>2, <3>4, <4>1, <4>3, <5>1
      <4> QED
        BY <4>2, <4>3
    <3> QED
      BY <3>3, <3>4
  <2>2. ASSUME ~access'.write, NEW k \in 1..access'.moved
        PROVE  access'.buf[k] = config'[access'.off + k - 1]
    <3>1. ~access.write /\ config' = config /\ access'.off = access.off
          /\ access'.buf = buf /\ k \in 1..m + n
      BY <1>11, <1>14, <2>2
    <3>2. k \in 1..access.len /\ buf[k] = Got(k)
      BY <1>3, <1>4, <1>13, <3>1
    <3>3. CASE k \in 1..m
      <4>1. k \notin m + 1 .. m + n
        BY <1>3, <3>3
      <4>2. access.buf[k] = config[access.off + k - 1]
        BY <1>1, <1>2, <3>1, <3>3 DEF Moved
      <4> QED
        BY <3>1, <3>2, <4>1, <4>2
    <3>4. CASE k \notin 1..m
      <4>1. k \in m + 1 .. m + n /\ first + k - m - 1 = access.off + k - 1
        BY <1>3, <1>4, <3>1, <3>4
      <4> QED
        BY <3>1, <3>2, <4>1
    <3> QED
      BY <3>3, <3>4
  <2>3. Access!Idle' => access'.moved = access'.len
    BY <1>3, <1>4, <1>14 DEF Access!Idle
  <2> QED
    BY <2>1, <2>2, <2>3 DEF Moved
<1>18. Enumerates'
  <2>1. gui # "idle" => config' = config
    BY <1>1, <1>11 DEF Enumerates
  <2> QED
    BY <1>1, <1>14, <2>1 DEF Enumerates, Access!RowsAreRegisters
<1> QED
  BY <1>16, <1>17, <1>18 DEF AccessInv

(* It goes on after the device was opened, or fails.                        *)
LEMMA AccessTurns ==
    ASSUME AccessInv, access.at \in {"open", "move"}, NEW place, NEW rc,
           (place = "move" /\ rc = 0) \/ (place = "done" /\ rc = 1),
           access' = [access EXCEPT !.at = place, !.rc = rc],
           UNCHANGED <<config, visible, table, gui, before>>
    PROVE  AccessInv'
<1>1. access \in Calls /\ ~Access!Idle
  BY DEF AccessInv, AccessType, Access!Idle
<1>2. /\ access' \in Calls /\ access'.at = place /\ access'.rc = rc
      /\ access'.write = access.write /\ access'.off = access.off
      /\ access'.len = access.len /\ access'.buf = access.buf
      /\ access'.moved = access.moved
  BY <1>1 DEF Calls
<1>3. AccessType'
  BY <1>1, <1>2 DEF AccessInv, AccessType, Access!Idle
<1>4. Moved'
  BY <1>1, <1>2 DEF AccessInv, AccessType, Moved, Access!Idle
<1>5. Enumerates'
  BY <1>1, <1>2 DEF AccessInv, Enumerates, Access!Idle, Access!RowsAreRegisters
<1> QED
  BY <1>3, <1>4, <1>5 DEF AccessInv

LEMMA AccessInvNext == AccessInv /\ [Access!Next]_accessVars => AccessInv'
<1> SUFFICES ASSUME AccessInv, [Access!Next]_accessVars PROVE AccessInv' OBVIOUS
<1>t. /\ config \in Space /\ before \in Space /\ visible \in 0..Size /\ access \in Calls
      /\ table \in Seq(Seq(Cell)) /\ gui \in {"idle", "read", "shown"}
  BY DEF AccessInv, AccessType
<1>1. ASSUME NEW t \in Accesses, Access!Send(t) PROVE AccessInv'
  BY <1>1, AccessSend
<1>2. CASE Access!Open
  <2>1. access.at = "open" /\ UNCHANGED <<config, visible, table, gui, before>>
    BY <1>2 DEF Access!Open
  <2>2. CASE access' = [access EXCEPT !.at = "move"]
    <3>1. access' = [access EXCEPT !.at = "move", !.rc = 0]
      <4>1. access.rc = 0
        BY <2>1 DEF AccessInv, AccessType, Access!Idle
      <4>2. [access EXCEPT !.at = "move", !.rc = 0] = [access EXCEPT !.at = "move"]
        BY <1>t, <4>1 DEF Calls
      <4> QED
        BY <2>2, <4>2
    <3> QED
      BY <2>1, <3>1, AccessTurns
  <2>3. CASE access' = [access EXCEPT !.at = "done", !.rc = 1]
    BY <2>1, <2>3, AccessTurns
  <2> QED
    BY <1>2, <2>2, <2>3 DEF Access!Open
<1>3. CASE Access!Transfer
  <2>1. access.at = "move" /\ UNCHANGED <<visible, table, gui, before>>
    BY <1>3 DEF Access!Transfer
  <2>2. ASSUME NEW n \in 1..(access.len - access.moved),
               access.off + access.moved + n <= visible, Access!Move(n)
        PROVE  AccessInv'
    BY <2>1, <2>2, AccessMoves
  <2>3. CASE access' = [access EXCEPT !.at = "done", !.rc = 1] /\ UNCHANGED config
    BY <2>1, <2>3, AccessTurns
  <2> QED
    BY <1>3, <2>2, <2>3 DEF Access!Transfer
<1>4. CASE Access!enumeratePciDevice
  BY <1>4 DEF Access!enumeratePciDevice, AccessInv, AccessType, Moved, Enumerates,
     Access!Idle, Access!RowsAreRegisters
<1>5. CASE Access!ReadRegister
  <2>1. gui = "read" /\ UNCHANGED <<config, visible, table>>
    BY <1>5 DEF Access!ReadRegister
  <2>2. CASE gui' = "idle" /\ UNCHANGED <<access, before>>
    BY <2>1, <2>2 DEF AccessInv, AccessType, Moved, Enumerates, Access!Idle,
       Access!RowsAreRegisters
  <2>3. CASE gui' = "shown" /\ Access!Access(FALSE, Len(table) * Dword, Dword,
                                             [k \in 1..Dword |-> NoData])
    <3> DEFINE buf == [k \in 1..Dword |-> NoData]
               off == Len(table) * Dword
    <3>1. off \in Nat
      BY <1>t, AccessAssumption
    <3>2. buf \in Seq(Cell) /\ Len(buf) = Dword
      BY AccessAssumption DEF Cell
    <3> HIDE DEF buf, off
    <3>3. Access!Access(FALSE, off, Dword, buf)
      BY <2>3 DEF buf, off
    <3>4. AccessType' /\ Moved'
      BY <1>t, <2>1, <2>3, <3>1, <3>2, <3>3, AccessAssumption, AccessBegins
    <3>5. ~access'.write /\ access'.len = Dword /\ access'.off = off
      BY <3>3 DEF Access!Access
    <3>6. Enumerates'
      BY <2>1, <2>3, <3>5 DEF Enumerates, Access!RowsAreRegisters, AccessInv, off
    <3> QED
      BY <3>4, <3>6 DEF AccessInv
  <2> QED
    BY <1>5, <2>2, <2>3 DEF Access!ReadRegister
<1>6. CASE Access!ShowRow
  <2>1. Access!Idle /\ gui = "shown" /\ UNCHANGED <<config, visible, access, before>>
    BY <1>6 DEF Access!ShowRow, Access!Row
  <2>2. CASE gui' = "idle" /\ UNCHANGED table
    BY <2>1, <2>2 DEF AccessInv, AccessType, Moved, Enumerates, Access!Idle,
       Access!RowsAreRegisters
  <2>3. CASE access.rc = 0 /\ table' = Append(table, access.buf) /\ gui' = "read"
    <3>1. access.buf \in Seq(Cell)
      BY <1>t DEF Calls
    <3>2. /\ table' \in Seq(Seq(Cell)) /\ Len(table') = Len(table) + 1
          /\ table'[Len(table) + 1] = access.buf
          /\ \A r \in 1..Len(table) : table'[r] = table[r]
      BY <1>t, <2>3, <3>1
    <3>3. AccessType' /\ Moved'
      BY <2>1, <2>3, <3>2 DEF AccessInv, AccessType, Moved, Access!Idle
    <3>4. ASSUME NEW r \in 1..Len(table'), NEW k \in 1..Dword
          PROVE  table'[r][k] = config[(r - 1) * Dword + k - 1]
      <4>1. CASE r \in 1..Len(table)
        BY <2>1, <3>2, <4>1 DEF AccessInv, Enumerates, Access!RowsAreRegisters
      <4>2. CASE r = Len(table) + 1
        <5>1. access.buf[k] = config[access.off + k - 1] /\ access.off = Len(table) * Dword
          BY <2>1, <2>3 DEF AccessInv, Moved, Enumerates
        <5>2. r - 1 = Len(table)
          BY <1>t, <4>2
        <5> QED
          BY <3>2, <4>2, <5>1, <5>2
      <4> QED
        BY <1>t, <3>2, <4>1, <4>2
    <3>5. Enumerates'
      BY <2>1, <2>3, <3>4 DEF Enumerates, Access!RowsAreRegisters, Access!Idle
    <3> QED
      BY <3>3, <3>5 DEF AccessInv
  <2> QED
    BY <1>6, <2>2, <2>3 DEF Access!ShowRow, Access!Row
<1>7. CASE UNCHANGED accessVars
  BY <1>7 DEF accessVars, AccessInv, AccessType, Moved, Enumerates, Access!Idle,
     Access!RowsAreRegisters
<1> QED
  BY <1>1, <1>2, <1>3, <1>4, <1>5, <1>6, <1>7 DEF Access!Next

(* However the kernel cuts an access up and wherever it fails, and whatever *)
(* the GUI enumerates meanwhile: what is reported has moved, to its place,  *)
(* and nothing else has.                                                    *)
THEOREM AccessesExact == Spec => []AccessExact
<1>1. AccessInv => AccessExact
  BY DEF AccessInv, AccessType, Space, Moved, Enumerates, AccessExact,
     Access!AccessExact, Access!TransferExact
<1> QED
  BY <1>1, AccessInvInit, AccessInvNext, OneStep, PTL DEF Spec


-----------------------------------------------------------------------------
(* The dummy's configuration: who decides, for any variables and any list   *)
(* of items.                                                                *)

Cfg == [max_speed : Nat, neg_speed : Nat, max_width : Nat, neg_width : Nat, latency : Nat]
Name == [speed : Nat, width : Nat]
Read == Cfg \X Name \X BOOLEAN

WithLatency(c, v) == [c EXCEPT !.latency = v]

(* Names, the missing one included, are pairs of numbers.                   *)
LEMMA NamesAreNames == Names \cup {Dummy!NoName} \subseteq Name
BY ConfigAssumption DEF Name, Dummy!NoName

(* An item has a name of that form, and a value unless it names a profile.  *)
LEMMA ItemIs ==
    ASSUME NEW item \in Dummy!Item
    PROVE  /\ item.key \in {"bare", "profile", "latency"} /\ item.name \in Name
           /\ item.value \in Nat \cup {NoNumber}
           /\ item.key # "latency" => item.value = NoNumber
BY NamesAreNames, ConfigAssumption DEF Dummy!Item

(* What one item of the list makes of what the items before it said.        *)
LEMMA ItemReads ==
    ASSUME NEW acc \in Read, NEW item \in Dummy!Item
    PROVE  LET new == Dummy!ScenarioItem(acc, item) IN
           /\ new \in Read
           /\ item.value = NoNumber => new[1] = acc[1]
           /\ item.value # NoNumber => new[1] = WithLatency(acc[1], item.value)
           /\ item.key = "latency" \/ (item.key = "bare" /\ acc[3])
                 => new[2] = acc[2] /\ new[3] = acc[3]
           /\ item.key = "profile" \/ (item.key = "bare" /\ ~acc[3])
                 => new[2] = item.name /\ new[3] = TRUE
<1> DEFINE new == Dummy!ScenarioItem(acc, item)
           c == acc[1]
<1>1. /\ item.key \in {"bare", "profile", "latency"} /\ item.name \in Name
      /\ item.value \in Nat \cup {NoNumber}
      /\ item.key # "latency" => item.value = NoNumber
  BY ItemIs
<1>2. c \in Cfg /\ acc[2] \in Name /\ acc[3] \in BOOLEAN /\ acc = <<c, acc[2], acc[3]>>
  BY DEF Read
<1>3. CASE item.key = "latency"
  <2> DEFINE d == [c EXCEPT !.latency = Dummy!Parse(item.value, @)]
  <2>1. new = <<d, acc[2], acc[3]>>
    BY <1>3 DEF Dummy!ScenarioItem
  <2>2. c.latency \in Nat
    BY <1>2 DEF Cfg
  <2>3. Dummy!Parse(item.value, c.latency) = IF item.value = NoNumber THEN c.latency ELSE item.value
    BY DEF Dummy!Parse
  <2>4. d \in Cfg
    <3>1. Dummy!Parse(item.value, c.latency) \in Nat
      BY <1>1, <2>2, <2>3
    <3> HIDE DEF c
    <3> QED BY <1>2, <3>1 DEF Cfg
  <2>5. item.value = NoNumber => d = c
    <3> HIDE DEF c
    <3> QED BY <1>2, <2>3 DEF Cfg
  <2>6. item.value # NoNumber => d = WithLatency(c, item.value)
    BY <2>3 DEF WithLatency
  <2> HIDE DEF d
  <2> QED BY <1>2, <1>3, <2>1, <2>4, <2>5, <2>6 DEF Read
<1>4. CASE item.key = "bare" /\ acc[3]
  <2>1. new = acc
    BY <1>4 DEF Dummy!ScenarioItem
  <2> QED BY <1>1, <1>4, <2>1
<1>5. CASE item.key = "profile" \/ (item.key = "bare" /\ ~acc[3])
  <2>1. new = <<c, item.name, TRUE>>
    BY <1>5 DEF Dummy!ScenarioItem
  <2>2. new \in Read
    <3>1. c \in Cfg /\ item.name \in Name /\ TRUE \in BOOLEAN
      BY <1>1, <1>2
    <3> HIDE DEF c
    <3>2. <<c, item.name, TRUE>> \in Read
      BY <3>1 DEF Read
    <3> QED BY <2>1, <3>2
  <2>3. new[1] = c /\ new[2] = item.name /\ new[3] = TRUE
    BY <2>1
  <2>4. item.value = NoNumber /\ item.key # "latency"
    BY <1>1, <1>5
  <2>5. ~(item.key = "bare" /\ acc[3])
    BY <1>5
  <2> QED BY <2>2, <2>3, <2>4, <2>5
<1> QED BY <1>1, <1>2, <1>3, <1>4, <1>5

(* The items are read one after the other.                                  *)
LEMMA ItemsAre ==
    ASSUME NEW s \in Seq(Dummy!Item), NEW c \in Cfg
    PROVE  LET A == Dummy!ItemsRead(s, c) IN
           /\ A[0] = <<c, Dummy!NoName, FALSE>>
           /\ \A k \in 1..Len(s) : A[k] = Dummy!ScenarioItem(A[k - 1], s[k])
           /\ \A k \in 0..Len(s) : A[k] \in Read
<1> DEFINE n == Len(s)
           A == Dummy!ItemsRead(s, c)
           first == <<c, Dummy!NoName, FALSE>>
           Next1(a, k) == IF k \in 1..n THEN Dummy!ScenarioItem(a, s[k]) ELSE a
           step == [x \in Read \X Nat |-> Next1(x[1], x[2])]
<1>1. n \in Nat /\ \A k \in 1..n : s[k] \in Dummy!Item
  OBVIOUS
<1>2. first \in Read
  BY NamesAreNames DEF Read
<1>3. step \in [Read \X Nat -> Read]
  <2>1. \A a \in Read : \A k \in Nat : Next1(a, k) \in Read
    <3> HIDE DEF n
    <3> QED BY <1>1, ItemReads
  <2> HIDE DEF Next1
  <2> QED BY <2>1
<1>4. \E f \in [0..n -> Read] : Follows(f, first, step, n)
  <2> HIDE DEF step, n, first
  <2> QED BY <1>1, <1>2, <1>3, RecursiveFunction
<1> DEFINE Solves(f) == f = [k \in 0..n |->
               IF k = 0 THEN first ELSE Dummy!ScenarioItem(f[k - 1], s[k])]
<1>5. \E f : Solves(f)
  <2>1. PICK f \in [0..n -> Read] : Follows(f, first, step, n)
    BY <1>4
  <2> DEFINE g == [k \in 0..n |->
               IF k = 0 THEN first ELSE Dummy!ScenarioItem(f[k - 1], s[k])]
  <2>2. ASSUME NEW k \in 0..n PROVE f[k] = g[k]
    <3>1. CASE k = 0
      BY <2>1, <3>1 DEF Follows
    <3>2. CASE k # 0
      <4>1. k \in 1..n /\ k - 1 \in 0..n /\ k \in Nat
        <5> HIDE DEF n
        <5> QED BY <1>1, <3>2
      <4>2. f[k - 1] \in Read
        <5> HIDE DEF n
        <5> QED BY <4>1, <2>1
      <4>3. f[k] = step[<<f[k - 1], k>>]
        <5> HIDE DEF step, n
        <5> QED BY <2>1, <4>1 DEF Follows
      <4>4. step[<<f[k - 1], k>>] = Next1(f[k - 1], k)
        <5> HIDE DEF Next1, n
        <5> QED BY <4>1, <4>2
      <4> QED BY <4>1, <4>3, <4>4, <3>2
    <3> QED BY <3>1, <3>2
  <2>3. DOMAIN g = 0..n /\ g = [k \in 0..n |-> g[k]]
    OBVIOUS
  <2>4. f = g
    <3> HIDE DEF g, n
    <3> QED BY <2>2, <2>3, Extensional
  <2>5. Solves(f)
    BY <2>4, Zenon
  <2> HIDE DEF Solves
  <2> QED BY <2>5
<1>6. A = CHOOSE f : Solves(f)
  BY DEF Dummy!ItemsRead
<1>7. Solves(A)
  <2> HIDE DEF Solves, A
  <2> QED BY <1>5, <1>6
<1>8. A[0] = first /\ \A k \in 1..n : A[k] = Dummy!ScenarioItem(A[k - 1], s[k])
  <2> DEFINE g == [k \in 0..n |->
               IF k = 0 THEN first ELSE Dummy!ScenarioItem(A[k - 1], s[k])]
  <2>1. A = g
    BY <1>7, Zenon
  <2>2. g[0] = first /\ \A k \in 1..n : g[k] = Dummy!ScenarioItem(A[k - 1], s[k])
    <3> HIDE DEF A, first
    <3> QED BY <1>1
  <2> HIDE DEF g, n, A, first
  <2> QED BY <2>1, <2>2
<1> HIDE DEF A, first
<1> DEFINE T == {k \in 0..n : A[k] \in Read}
<1>9. \A k \in 0..n : k \in T
  <2>1. 0 \in T
    BY <1>1, <1>2, <1>8
  <2>2. ASSUME NEW k \in 0..(n - 1), k \in T PROVE k + 1 \in T
    <3>1. k + 1 \in 1..n /\ (k + 1) - 1 = k /\ k + 1 \in 0..n
      <4> HIDE DEF n
      <4> QED BY <1>1
    <3>2. A[k] \in Read
      BY <2>2
    <3>3. A[k + 1] = Dummy!ScenarioItem(A[k], s[k + 1])
      <4> HIDE DEF n
      <4> QED BY <1>8, <3>1
    <3>4. A[k + 1] \in Read
      BY <1>1, <3>1, <3>2, <3>3, ItemReads
    <3> QED BY <3>1, <3>4
  <2> HIDE DEF T, n
  <2> QED BY <1>1, <2>1, <2>2, RangeInduction
<1>10. \A k \in 0..n : A[k] \in Read
  BY <1>9
<1> QED BY <1>8, <1>10 DEF A, first

(* What has been decided after k items: a latency by the last that parses,  *)
(* a name by the last "profile=" or else by the first bare word.            *)
LatencySaid(s, c, a, k) ==
    \/ (\A j \in 1..k : s[j].value = NoNumber) /\ a[1] = c
    \/ \E j \in 1..k : /\ s[j].value # NoNumber
                       /\ \A i \in 1..k : j < i => s[i].value = NoNumber
                       /\ a[1] = WithLatency(c, s[j].value)

NameSaid(s, a, k) ==
    \/ (\A j \in 1..k : s[j].key = "latency") /\ a[2] = Dummy!NoName /\ a[3] = FALSE
    \/ \E j \in 1..k : /\ s[j].key = "profile" /\ a[2] = s[j].name /\ a[3] = TRUE
                       /\ \A i \in 1..k : j < i => s[i].key # "profile"
    \/ \E j \in 1..k : /\ s[j].key = "bare" /\ a[2] = s[j].name /\ a[3] = TRUE
                       /\ \A i \in 1..k : s[i].key # "profile"
                       /\ \A i \in 1..k : i < j => s[i].key # "bare"

(* One item more, and the last latency that parses still decides.           *)
LEMMA LatencyNext ==
    ASSUME NEW s \in Seq(Dummy!Item), NEW c \in Cfg, NEW k \in Nat, k + 1 \in 1..Len(s),
           NEW a \in Read, LatencySaid(s, c, a, k)
    PROVE  LatencySaid(s, c, Dummy!ScenarioItem(a, s[k + 1]), k + 1)
<1> DEFINE item == s[k + 1]
           new == Dummy!ScenarioItem(a, item)
<1>1. /\ item \in Dummy!Item
      /\ item.value = NoNumber => new[1] = a[1]
      /\ item.value # NoNumber => new[1] = WithLatency(a[1], item.value)
  <2>1. item \in Dummy!Item
    OBVIOUS
  <2> HIDE DEF item
  <2> QED BY <2>1, ItemReads
<1>2. k + 1 \in 1..(k + 1) /\ \A i \in 1..(k + 1) : i = k + 1 \/ i \in 1..k
  OBVIOUS
<1>3. \A i \in 1..k : i \in 1..(k + 1) /\ i # k + 1
  OBVIOUS
<1> HIDE DEF new
<1>4. CASE item.value = NoNumber
  <2>1. CASE (\A j \in 1..k : s[j].value = NoNumber) /\ a[1] = c
    BY <1>1, <1>2, <1>4, <2>1 DEF LatencySaid, new
  <2>2. CASE \E j \in 1..k : /\ s[j].value # NoNumber
                             /\ \A i \in 1..k : j < i => s[i].value = NoNumber
                             /\ a[1] = WithLatency(c, s[j].value)
    <3>1. PICK j \in 1..k : /\ s[j].value # NoNumber
                            /\ \A i \in 1..k : j < i => s[i].value = NoNumber
                            /\ a[1] = WithLatency(c, s[j].value)
      BY <2>2
    <3>2. \A i \in 1..(k + 1) : j < i => s[i].value = NoNumber
      BY <1>2, <1>4, <3>1
    <3>3. new[1] = WithLatency(c, s[j].value)
      <4>1. new[1] = a[1] /\ a[1] = WithLatency(c, s[j].value)
        BY <1>1, <1>4, <3>1
      <4> QED BY <4>1, Zenon
    <3>4. j \in 1..(k + 1)
      BY <1>3, <3>1
    <3> QED BY <3>1, <3>2, <3>3, <3>4 DEF LatencySaid, new
  <2> QED BY <2>1, <2>2 DEF LatencySaid
<1>5. CASE item.value # NoNumber
  <2>1. \A i \in 1..(k + 1) : k + 1 < i => s[i].value = NoNumber
    OBVIOUS
  <2>2. new[1] = WithLatency(a[1], item.value)
    BY <1>1, <1>5
  <2>3. a[1] = c \/ \E v : a[1] = WithLatency(c, v)
    BY DEF LatencySaid
  <2>4. new[1] = WithLatency(c, item.value)
    <3>1. CASE a[1] = c
      BY <2>2, <3>1
    <3>2. CASE \E v : a[1] = WithLatency(c, v)
      <4>1. PICK v : a[1] = WithLatency(c, v)
        BY <3>2
      <4> DEFINE w == item.value
      <4> HIDE DEF w
      <4>2. WithLatency(WithLatency(c, v), w) = WithLatency(c, w)
        BY DEF Cfg, WithLatency
      <4> QED BY <2>2, <4>1, <4>2 DEF w
    <3> QED BY <2>3, <3>1, <3>2
  <2> QED BY <1>2, <1>5, <2>1, <2>4 DEF LatencySaid, new
<1> QED BY <1>4, <1>5 DEF new

(* One item more, and the last "profile=" or the first bare word decides.   *)
LEMMA NameNext ==
    ASSUME NEW s \in Seq(Dummy!Item), NEW k \in Nat, k + 1 \in 1..Len(s),
           NEW a \in Read, NameSaid(s, a, k)
    PROVE  NameSaid(s, Dummy!ScenarioItem(a, s[k + 1]), k + 1)
<1> DEFINE item == s[k + 1]
           new == Dummy!ScenarioItem(a, item)
<1>1. /\ item.key \in {"bare", "profile", "latency"}
      /\ item.key = "latency" \/ (item.key = "bare" /\ a[3])
            => new[2] = a[2] /\ new[3] = a[3]
      /\ item.key = "profile" \/ (item.key = "bare" /\ ~a[3])
            => new[2] = item.name /\ new[3] = TRUE
  <2>1. item \in Dummy!Item
    OBVIOUS
  <2> QED BY <2>1, ItemReads, ItemIs
<1>2. /\ k + 1 \in 1..(k + 1) /\ \A i \in 1..(k + 1) : i = k + 1 \/ i \in 1..k
      /\ \A i \in 1..k : i \in 1..(k + 1) /\ i < k + 1 /\ ~(k + 1 < i)
      /\ \A i \in 1..(k + 1) : ~(k + 1 < i)
  OBVIOUS
<1> HIDE DEF new
<1>3. CASE item.key = "profile"
  <2>1. new[2] = item.name /\ new[3] = TRUE
    BY <1>1, <1>3
  <2> QED BY <1>2, <1>3, <2>1 DEF NameSaid, new
<1>4. CASE (\A j \in 1..k : s[j].key = "latency") /\ a[2] = Dummy!NoName /\ a[3] = FALSE
  <2>1. CASE item.key = "latency"
    <3>1. new[2] = Dummy!NoName /\ new[3] = FALSE
      BY <1>1, <1>4, <2>1
    <3>2. \A j \in 1..(k + 1) : s[j].key = "latency"
      BY <1>2, <1>4, <2>1
    <3> QED BY <3>1, <3>2 DEF NameSaid, new
  <2>2. CASE item.key = "bare"
    <3>1. new[2] = item.name /\ new[3] = TRUE
      BY <1>1, <1>4, <2>2
    <3>2. /\ \A i \in 1..(k + 1) : s[i].key # "profile"
          /\ \A i \in 1..(k + 1) : i < k + 1 => s[i].key # "bare"
      BY <1>2, <1>4, <2>2
    <3> QED BY <1>2, <2>2, <3>1, <3>2 DEF NameSaid, new
  <2> QED BY <1>1, <1>3, <2>1, <2>2
<1>5. CASE item.key # "profile"
           /\ \E j \in 1..k : /\ s[j].key = "profile" /\ a[2] = s[j].name /\ a[3] = TRUE
                              /\ \A i \in 1..k : j < i => s[i].key # "profile"
  <2>1. PICK j \in 1..k : /\ s[j].key = "profile" /\ a[2] = s[j].name /\ a[3] = TRUE
                          /\ \A i \in 1..k : j < i => s[i].key # "profile"
    BY <1>5
  <2>2. new[2] = s[j].name /\ new[3] = TRUE
    BY <1>1, <1>5, <2>1
  <2>3. \A i \in 1..(k + 1) : j < i => s[i].key # "profile"
    BY <1>2, <1>5, <2>1
  <2> QED BY <1>2, <2>1, <2>2, <2>3 DEF NameSaid, new
<1>6. CASE item.key # "profile"
           /\ \E j \in 1..k : /\ s[j].key = "bare" /\ a[2] = s[j].name /\ a[3] = TRUE
                              /\ \A i \in 1..k : s[i].key # "profile"
                              /\ \A i \in 1..k : i < j => s[i].key # "bare"
  <2>1. PICK j \in 1..k : /\ s[j].key = "bare" /\ a[2] = s[j].name /\ a[3] = TRUE
                          /\ \A i \in 1..k : s[i].key # "profile"
                          /\ \A i \in 1..k : i < j => s[i].key # "bare"
    BY <1>6
  <2>2. new[2] = s[j].name /\ new[3] = TRUE
    BY <1>1, <1>6, <2>1
  <2>3. \A i \in 1..(k + 1) : s[i].key # "profile"
    BY <1>2, <1>6, <2>1
  <2>4. \A i \in 1..(k + 1) : i < j => s[i].key # "bare"
    BY <1>2, <2>1
  <2> QED BY <1>2, <2>1, <2>2, <2>3, <2>4 DEF NameSaid, new
<1> QED BY <1>3, <1>4, <1>5, <1>6 DEF NameSaid, new

(* By induction over the list: what all its items say.                      *)
LEMMA ItemsSay ==
    ASSUME NEW s \in Seq(Dummy!Item), NEW c \in Cfg
    PROVE  LET a == Dummy!ItemsRead(s, c)[Len(s)] IN
           a \in Read /\ LatencySaid(s, c, a, Len(s)) /\ NameSaid(s, a, Len(s))
<1> DEFINE n == Len(s)
           A == Dummy!ItemsRead(s, c)
           T == {k \in 0..n : LatencySaid(s, c, A[k], k) /\ NameSaid(s, A[k], k)}
<1>1. /\ A[0] = <<c, Dummy!NoName, FALSE>>
      /\ \A k \in 1..n : A[k] = Dummy!ScenarioItem(A[k - 1], s[k])
      /\ \A k \in 0..n : A[k] \in Read
  BY ItemsAre
<1>2. n \in Nat
  OBVIOUS
<1> HIDE DEF A
<1>3. 0 \in T
  <2>1. A[0][1] = c /\ A[0][2] = Dummy!NoName /\ A[0][3] = FALSE
    BY <1>1
  <2>2. \A j \in 1..0 : FALSE
    OBVIOUS
  <2> QED BY <1>2, <2>1, <2>2 DEF LatencySaid, NameSaid
<1>4. ASSUME NEW k \in 0..(n - 1), k \in T PROVE k + 1 \in T
  <2>1. k \in Nat /\ k + 1 \in 1..n /\ (k + 1) - 1 = k /\ k + 1 \in 0..n /\ k \in 0..n
    <3> HIDE DEF n
    <3> QED BY <1>2
  <2>2. A[k] \in Read /\ A[k + 1] = Dummy!ScenarioItem(A[k], s[k + 1])
    <3> HIDE DEF n
    <3> QED BY <1>1, <2>1
  <2>3. LatencySaid(s, c, A[k], k) /\ NameSaid(s, A[k], k)
    BY <1>4
  <2>4. LatencySaid(s, c, A[k + 1], k + 1) /\ NameSaid(s, A[k + 1], k + 1)
    BY <2>1, <2>2, <2>3, LatencyNext, NameNext
  <2> QED BY <2>1, <2>4
<1>5. \A k \in 0..n : k \in T
  <2> HIDE DEF T, n
  <2> QED BY <1>2, <1>3, <1>4, RangeInduction
<1>6. n \in 0..n
  BY <1>2
<1>7. A[n] \in Read /\ LatencySaid(s, c, A[n], n) /\ NameSaid(s, A[n], n)
  BY <1>1, <1>5, <1>6
<1> QED BY <1>7 DEF A

(* A configuration before and after the names are applied, and the link.    *)
LEMMA AppliedIs ==
    ASSUME NEW name \in Name, NEW c \in Cfg
    PROVE  LET d == Dummy!Applied(name, c) IN
           /\ d \in Cfg /\ d.latency = c.latency
           /\ ~Dummy!Valid(name) => d = c
           /\ Dummy!Valid(name) => /\ d.max_speed = name.speed /\ d.neg_speed = name.speed
                                   /\ d.max_width = name.width /\ d.neg_width = name.width
BY DEF Dummy!Applied, Cfg, Name

(* What the five numeric variables make of a configuration.                 *)
LEMMA BaseIs ==
    ASSUME env \in Dummy!Environment
    PROVE  LET b == Dummy!Base(env) IN
           /\ b \in Cfg
           /\ b.max_speed = Dummy!Parse(env.max_speed, 5)
           /\ b.neg_speed = Dummy!Parse(env.neg_speed, 0)
           /\ b.max_width = Dummy!Parse(env.max_width, 16)
           /\ b.neg_width = Dummy!Parse(env.neg_width, 0)
           /\ b.latency = Dummy!Parse(env.latency, 0)
<1>1. /\ env.max_speed \in Nat \cup {NoNumber} /\ env.neg_speed \in Nat \cup {NoNumber}
      /\ env.max_width \in Nat \cup {NoNumber} /\ env.neg_width \in Nat \cup {NoNumber}
      /\ env.latency \in Nat \cup {NoNumber}
  BY ConfigAssumption DEF Dummy!Environment
<1>2. \A v \in Nat \cup {NoNumber} : \A d \in Nat : Dummy!Parse(v, d) \in Nat
  BY DEF Dummy!Parse
<1>3. /\ Dummy!Parse(env.max_speed, 5) \in Nat /\ Dummy!Parse(env.neg_speed, 0) \in Nat
      /\ Dummy!Parse(env.max_width, 16) \in Nat /\ Dummy!Parse(env.neg_width, 0) \in Nat
      /\ Dummy!Parse(env.latency, 0) \in Nat
  BY <1>1, <1>2
<1> QED BY <1>3 DEF Dummy!Base, Cfg

(* The names and the configuration that the variables come down to: that of *)
(* PCIE_DUMMY_PROFILE is applied first, and that of the scenario over it.   *)
Start   == Dummy!Applied(env.profile, Dummy!Base(env))
AllRead == Dummy!ItemsRead(env.scenario, Start)[Len(env.scenario)]
Result  == Dummy!Applied(AllRead[2], AllRead[1])

Reported == /\ cfg = [Result EXCEPT !.neg_speed = IF @ = 0 THEN Result.max_speed ELSE @,
                                    !.neg_width = IF @ = 0 THEN Result.max_width ELSE @]
            /\ status = [max_gen |-> Dummy!Gen(cfg.max_speed), gen |-> Dummy!Gen(cfg.neg_speed),
                         max_width |-> Dummy!Lanes(cfg.max_width),
                         width |-> Dummy!Lanes(cfg.neg_width)]

ConfigInv == env \in Dummy!Environment /\ Reported

(* The stages of dummy_read_runtime_config, and what each of them knows.    *)
LEMMA Steps ==
    ASSUME env \in Dummy!Environment
    PROVE  /\ env.profile \in Name /\ env.scenario \in Seq(Dummy!Item)
           /\ Start \in Cfg /\ AllRead \in Read
           /\ AllRead[1] \in Cfg /\ AllRead[2] \in Name /\ Result \in Cfg
           /\ LatencySaid(env.scenario, Start, AllRead, Len(env.scenario))
           /\ NameSaid(env.scenario, AllRead, Len(env.scenario))
<1>1. env.profile \in Name /\ env.scenario \in Seq(Dummy!Item)
  BY NamesAreNames DEF Dummy!Environment
<1>2. Start \in Cfg
  BY <1>1, BaseIs, AppliedIs DEF Start
<1>3. /\ AllRead \in Read
      /\ LatencySaid(env.scenario, Start, AllRead, Len(env.scenario))
      /\ NameSaid(env.scenario, AllRead, Len(env.scenario))
  BY <1>1, <1>2, ItemsSay DEF AllRead
<1>4. AllRead[1] \in Cfg /\ AllRead[2] \in Name
  BY <1>3 DEF Read
<1>5. Result \in Cfg
  BY <1>4, AppliedIs DEF Result
<1> QED BY <1>1, <1>2, <1>3, <1>4, <1>5

(* What the dummy reports is what it makes of the environment.              *)
LEMMA Reports ==
    ASSUME env \in Dummy!Environment,
           status = Dummy!dummy_link_status(env), cfg = Dummy!dummy_read_runtime_config(env)
    PROVE  ConfigInv
<1>1. Dummy!dummy_apply_scenario_values(env.scenario, Start) = Result
  BY DEF Dummy!dummy_apply_scenario_values, Result, AllRead
<1>2. cfg = [Result EXCEPT !.neg_speed = IF @ = 0 THEN Result.max_speed ELSE @,
                           !.neg_width = IF @ = 0 THEN Result.max_width ELSE @]
  BY <1>1 DEF Dummy!dummy_read_runtime_config, Start
<1>3. status = [max_gen |-> Dummy!Gen(cfg.max_speed), gen |-> Dummy!Gen(cfg.neg_speed),
                max_width |-> Dummy!Lanes(cfg.max_width),
                width |-> Dummy!Lanes(cfg.neg_width)]
  BY DEF Dummy!dummy_link_status
<1> QED BY <1>2, <1>3 DEF ConfigInv, Reported

Link(c, name) == /\ c.max_speed = name.speed /\ c.neg_speed = name.speed
                 /\ c.max_width = name.width /\ c.neg_width = name.width

(* The link is that of one name, or of the variables.                       *)
LEMMA ResultIs ==
    ASSUME env \in Dummy!Environment
    PROVE  /\ Dummy!Valid(AllRead[2]) => Link(Result, AllRead[2])
           /\ ~Dummy!Valid(AllRead[2]) /\ Dummy!Valid(env.profile) => Link(Result, env.profile)
           /\ ~Dummy!Valid(AllRead[2]) /\ ~Dummy!Valid(env.profile) =>
                 /\ Result.max_speed = Dummy!Parse(env.max_speed, 5)
                 /\ Result.neg_speed = Dummy!Parse(env.neg_speed, 0)
                 /\ Result.max_width = Dummy!Parse(env.max_width, 16)
                 /\ Result.neg_width = Dummy!Parse(env.neg_width, 0)
           /\ Result.latency = AllRead[1].latency /\ Start.latency = Dummy!Parse(env.latency, 0)
<1>1. /\ env.profile \in Name /\ Start \in Cfg /\ AllRead[1] \in Cfg /\ AllRead[2] \in Name
      /\ LatencySaid(env.scenario, Start, AllRead, Len(env.scenario))
  BY Steps
<1>2. /\ AllRead[1].max_speed = Start.max_speed /\ AllRead[1].neg_speed = Start.neg_speed
      /\ AllRead[1].max_width = Start.max_width /\ AllRead[1].neg_width = Start.neg_width
  <2>1. AllRead[1] = Start \/ \E v : AllRead[1] = WithLatency(Start, v)
    BY <1>1 DEF LatencySaid
  <2>2. CASE AllRead[1] = Start
    BY <2>2
  <2>3. CASE \E v : AllRead[1] = WithLatency(Start, v)
    <3>1. PICK v : AllRead[1] = WithLatency(Start, v)
      BY <2>3
    <3>2. \A c \in Cfg : LET d == WithLatency(c, v) IN
             /\ d.max_speed = c.max_speed /\ d.neg_speed = c.neg_speed
             /\ d.max_width = c.max_width /\ d.neg_width = c.neg_width
      BY DEF Cfg, WithLatency
    <3> QED BY <1>1, <3>1, <3>2
  <2> QED BY <2>1, <2>2, <2>3
<1>3. /\ Result.latency = AllRead[1].latency
      /\ ~Dummy!Valid(AllRead[2]) => Result = AllRead[1]
      /\ Dummy!Valid(AllRead[2]) => Link(Result, AllRead[2])
  BY <1>1, AppliedIs DEF Result, Link
<1> DEFINE base == Dummy!Base(env)
<1>4. /\ base \in Cfg
      /\ base.max_speed = Dummy!Parse(env.max_speed, 5)
      /\ base.neg_speed = Dummy!Parse(env.neg_speed, 0)
      /\ base.max_width = Dummy!Parse(env.max_width, 16)
      /\ base.neg_width = Dummy!Parse(env.neg_width, 0)
      /\ base.latency = Dummy!Parse(env.latency, 0)
  BY BaseIs
<1> HIDE DEF base
<1>5. /\ Start.latency = base.latency
      /\ ~Dummy!Valid(env.profile) => Start = base
      /\ Dummy!Valid(env.profile) => Link(Start, env.profile)
  BY <1>1, <1>4, AppliedIs DEF Start, Link, base
<1>6. ~Dummy!Valid(AllRead[2]) /\ Dummy!Valid(env.profile) => Link(Result, env.profile)
  BY <1>2, <1>3, <1>5 DEF Link
<1> QED BY <1>2, <1>3, <1>4, <1>5, <1>6

(* What is reported of a link, in numbers.                                  *)
LEMMA ReportIs ==
    ASSUME ConfigInv
    PROVE  LET neg  == IF Result.neg_speed = 0 THEN Result.max_speed ELSE Result.neg_speed
               wide == IF Result.neg_width = 0 THEN Result.max_width ELSE Result.neg_width
           IN  /\ status = [max_gen |-> Dummy!Gen(Result.max_speed), gen |-> Dummy!Gen(neg),
                            max_width |-> Dummy!Lanes(Result.max_width),
                            width |-> Dummy!Lanes(wide)]
               /\ cfg.latency = Result.latency
<1>1. Result \in Cfg /\ Reported
  BY Steps DEF ConfigInv
<1> QED BY <1>1 DEF Reported, Cfg

(* Numbers in range survive the cut to a byte.                              *)
LEMMA SmallNumbers ==
    /\ \A v \in 1..8 : Dummy!Gen(v) = v
    /\ \A v \in 1..16 : Dummy!Lanes(v) = v
    /\ Dummy!Lanes(0) = 1
<1>1. \A v \in 0..255 : v % 256 = v
  OBVIOUS
<1> QED BY <1>1 DEF Dummy!Gen, Dummy!Lanes

(* A valid name that decides is what is reported.                           *)
LEMMA NameReported ==
    ASSUME ConfigInv, NEW name \in Name, Dummy!Valid(name), Link(Result, name)
    PROVE  status = [max_gen |-> name.speed, gen |-> name.speed,
                     max_width |-> name.width, width |-> name.width]
<1>1. name.speed \in 1..8 /\ name.width \in 1..16
  BY DEF Dummy!Valid
<1>2. /\ Result.max_speed = name.speed /\ Result.neg_speed = name.speed
      /\ Result.max_width = name.width /\ Result.neg_width = name.width
  BY DEF Link
<1>3. name.speed # 0 /\ name.width # 0
  BY <1>1
<1>4. status = [max_gen |-> Dummy!Gen(name.speed), gen |-> Dummy!Gen(name.speed),
                max_width |-> Dummy!Lanes(name.width), width |-> Dummy!Lanes(name.width)]
  BY <1>2, <1>3, ReportIs
<1> QED BY <1>1, <1>4, SmallNumbers

(* The last and the first of a set of numbers, when it is known.            *)
LEMMA TheLast ==
    ASSUME NEW W \in SUBSET Nat, NEW j \in W, \A i \in W : ~(j < i)
    PROVE  {k \in W : \A i \in W : i <= k} = {j}
<1>1. \A i \in W : i <= j
  OBVIOUS
<1>2. ASSUME NEW k \in W, \A i \in W : i <= k PROVE k = j
  <2>1. j <= k /\ k <= j /\ j \in Nat /\ k \in Nat
    BY <1>1, <1>2
  <2> QED BY <2>1
<1> QED BY <1>1, <1>2, Zenon

LEMMA TheFirst ==
    ASSUME NEW W \in SUBSET Nat, NEW j \in W, \A i \in W : ~(i < j)
    PROVE  {k \in W : \A i \in W : k <= i} = {j}
<1>1. \A i \in W : j <= i
  OBVIOUS
<1>2. ASSUME NEW k \in W, \A i \in W : k <= i PROVE k = j
  <2>1. j <= k /\ k <= j /\ j \in Nat /\ k \in Nat
    BY <1>1, <1>2
  <2> QED BY <2>1
<1> QED BY <1>1, <1>2, Zenon

(* The name that a scenario stands for is the one that was read.            *)
LEMMA NamedIs ==
    ASSUME env \in Dummy!Environment
    PROVE  \/ Dummy!Named = {} /\ AllRead[2] = Dummy!NoName
           \/ Dummy!Named = {AllRead[2]}
<1> DEFINE s == env.scenario
           n == Len(s)
           P == Dummy!Keyed("profile")
           B == Dummy!Keyed("bare")
<1>1. s \in Seq(Dummy!Item) /\ NameSaid(s, AllRead, n)
  BY Steps
<1>2. n \in Nat /\ DOMAIN s = 1..n
  BY <1>1
<1>3. /\ P = {k \in 1..n : s[k].key = "profile"}
      /\ B = {k \in 1..n : s[k].key = "bare"}
  BY <1>2 DEF Dummy!Keyed
<1>4. /\ P # {} => Dummy!Named = {s[k].name : k \in {j \in P : \A i \in P : i <= j}}
      /\ P = {} => Dummy!Named = {s[k].name : k \in {j \in B : \A i \in B : j <= i}}
  BY DEF Dummy!Named, Dummy!LastOf, Dummy!FirstOf
<1> HIDE DEF s, n, P, B
<1>5. CASE /\ \A j \in 1..n : s[j].key = "latency"
           /\ AllRead[2] = Dummy!NoName
  <2>1. P = {} /\ B = {}
    BY <1>3, <1>5
  <2> QED BY <1>4, <1>5, <2>1
<1>6. CASE \E j \in 1..n : /\ s[j].key = "profile" /\ AllRead[2] = s[j].name
                           /\ \A i \in 1..n : j < i => s[i].key # "profile"
  <2>1. PICK j \in 1..n : /\ s[j].key = "profile" /\ AllRead[2] = s[j].name
                          /\ \A i \in 1..n : j < i => s[i].key # "profile"
    BY <1>6
  <2>2. j \in P /\ \A i \in P : ~(j < i)
    BY <1>3, <2>1
  <2>3. P \subseteq Nat
    BY <1>2, <1>3
  <2>4. {k \in P : \A i \in P : i <= k} = {j}
    BY <2>2, <2>3, TheLast
  <2>5. Dummy!Named = {s[k].name : k \in {j}}
    BY <1>4, <2>2, <2>4
  <2>6. Dummy!Named = {s[j].name}
    BY <2>5
  <2> QED BY <2>1, <2>6
<1>7. CASE \E j \in 1..n : /\ s[j].key = "bare" /\ AllRead[2] = s[j].name
                           /\ \A i \in 1..n : s[i].key # "profile"
                           /\ \A i \in 1..n : i < j => s[i].key # "bare"
  <2>1. PICK j \in 1..n : /\ s[j].key = "bare" /\ AllRead[2] = s[j].name
                          /\ \A i \in 1..n : s[i].key # "profile"
                          /\ \A i \in 1..n : i < j => s[i].key # "bare"
    BY <1>7
  <2>2. P = {} /\ j \in B /\ \A i \in B : ~(i < j)
    BY <1>3, <2>1
  <2>3. B \subseteq Nat
    BY <1>2, <1>3
  <2>4. {k \in B : \A i \in B : k <= i} = {j}
    BY <2>2, <2>3, TheFirst
  <2>5. Dummy!Named = {s[k].name : k \in {j}}
    BY <1>4, <2>2, <2>4
  <2>6. Dummy!Named = {s[j].name}
    BY <2>5
  <2> QED BY <2>1, <2>6
<1> QED BY <1>1, <1>5, <1>6, <1>7 DEF NameSaid

(* The two halves of LinkAsConfigured, from the stages.                     *)
LEMMA LastWinsFollows == ConfigInv => Dummy!LastWins
<1> SUFFICES ASSUME ConfigInv PROVE Dummy!LastWins
  OBVIOUS
<1>0. env \in Dummy!Environment
  BY DEF ConfigInv
<1>1. /\ env.profile \in Name /\ env.scenario \in Seq(Dummy!Item)
      /\ AllRead[2] \in Name /\ Start \in Cfg
      /\ LatencySaid(env.scenario, Start, AllRead, Len(env.scenario))
  BY <1>0, Steps
<1>2. ASSUME NEW name \in IF \E m \in Dummy!Named : Dummy!Valid(m) THEN Dummy!Named
                          ELSE {env.profile},
             Dummy!Valid(name)
      PROVE  status = [max_gen |-> name.speed, gen |-> name.speed,
                       max_width |-> name.width, width |-> name.width]
  <2>1. CASE \E m \in Dummy!Named : Dummy!Valid(m)
    <3>1. name = AllRead[2]
      BY <1>0, <2>1, NamedIs
    <3> QED BY <1>0, <1>1, <1>2, <3>1, ResultIs, NameReported
  <2>2. CASE ~\E m \in Dummy!Named : Dummy!Valid(m)
    <3>1. name = env.profile
      BY <2>2
    <3>2. ~Dummy!Valid(Dummy!NoName)
      BY DEF Dummy!Valid, Dummy!NoName
    <3>3. ~Dummy!Valid(AllRead[2])
      BY <1>0, <2>2, <3>2, NamedIs
    <3> QED BY <1>0, <1>1, <1>2, <3>1, <3>3, ResultIs, NameReported
  <2> QED BY <2>1, <2>2
<1>3. cfg.latency \in IF Dummy!Parsed # {}
                      THEN {env.scenario[k].value : k \in Dummy!LastOf(Dummy!Parsed)}
                      ELSE {Dummy!Parse(env.latency, 0)}
  <2> DEFINE s == env.scenario
             n == Len(s)
             V == Dummy!Parsed
  <2>1. cfg.latency = AllRead[1].latency /\ Start.latency = Dummy!Parse(env.latency, 0)
    BY <1>0, ResultIs, ReportIs
  <2>2. n \in Nat /\ V = {k \in 1..n : s[k].value # NoNumber}
    <3>1. n \in Nat /\ DOMAIN s = 1..n
      BY <1>1
    <3> QED BY <3>1 DEF Dummy!Parsed
  <2>3. LatencySaid(s, Start, AllRead, n)
    BY <1>1
  <2> HIDE DEF s, n, V
  <2>4. CASE (\A j \in 1..n : s[j].value = NoNumber) /\ AllRead[1] = Start
    <3>1. V = {}
      BY <2>2, <2>4
    <3> QED BY <2>1, <2>4, <3>1 DEF V
  <2>5. CASE \E j \in 1..n : /\ s[j].value # NoNumber
                             /\ \A i \in 1..n : j < i => s[i].value = NoNumber
                             /\ AllRead[1] = WithLatency(Start, s[j].value)
    <3>1. PICK j \in 1..n : /\ s[j].value # NoNumber
                            /\ \A i \in 1..n : j < i => s[i].value = NoNumber
                            /\ AllRead[1] = WithLatency(Start, s[j].value)
      BY <2>5
    <3>2. j \in V /\ V \subseteq Nat /\ \A i \in V : ~(j < i)
      BY <2>2, <3>1
    <3>3. j \in Dummy!LastOf(V)
      BY <3>2 DEF Dummy!LastOf
    <3>4. \A c \in Cfg : \A v : WithLatency(c, v).latency = v
      BY DEF Cfg, WithLatency
    <3>5. cfg.latency = s[j].value
      BY <1>1, <2>1, <3>1, <3>4
    <3>6. cfg.latency \in {s[k].value : k \in Dummy!LastOf(V)} /\ V # {}
      BY <3>2, <3>3, <3>5
    <3> QED BY <3>6 DEF V, s
  <2> QED BY <2>3, <2>4, <2>5 DEF LatencySaid
<1> QED BY <1>2, <1>3 DEF Dummy!LastWins

LEMMA PossibleFollows == ConfigInv => Dummy!LinkPossible
<1> SUFFICES ASSUME ConfigInv,
                    Dummy!InRange(env.max_speed, 8), Dummy!InRange(env.neg_speed, 8),
                    env.max_speed # 0,
                    Dummy!InRange(env.max_width, 16), Dummy!InRange(env.neg_width, 16)
             PROVE  /\ status.max_gen # Dummy!UNKNOWN /\ status.gen # Dummy!UNKNOWN
                    /\ status.max_width \in 1..16 /\ status.width \in 1..16
                    /\ env.neg_speed = NoNumber => status.gen = status.max_gen
                    /\ env.neg_width = NoNumber => status.width = status.max_width
  BY DEF Dummy!LinkPossible
<1>0. env \in Dummy!Environment
  BY DEF ConfigInv
<1>1. CASE \E name \in Name : Dummy!Valid(name) /\ Link(Result, name)
  <2>1. PICK name \in Name : Dummy!Valid(name) /\ Link(Result, name)
    BY <1>1
  <2>2. status = [max_gen |-> name.speed, gen |-> name.speed,
                  max_width |-> name.width, width |-> name.width]
    BY <2>1, NameReported
  <2>3. name.speed \in 1..8 /\ name.width \in 1..16
    BY <2>1 DEF Dummy!Valid
  <2> QED BY <2>2, <2>3 DEF Dummy!UNKNOWN
<1>2. CASE ~\E name \in Name : Dummy!Valid(name) /\ Link(Result, name)
  <2> DEFINE ms == Result.max_speed
             ns == Result.neg_speed
             mw == Result.max_width
             nw == Result.neg_width
             neg == IF ns = 0 THEN ms ELSE ns
             wide == IF nw = 0 THEN mw ELSE nw
  <2>1. /\ ms = Dummy!Parse(env.max_speed, 5) /\ ns = Dummy!Parse(env.neg_speed, 0)
        /\ mw = Dummy!Parse(env.max_width, 16) /\ nw = Dummy!Parse(env.neg_width, 0)
    BY <1>0, <1>2, Steps, ResultIs
  <2>2. ms \in Nat /\ ns \in Nat /\ mw \in Nat /\ nw \in Nat
    BY <1>0, Steps DEF Cfg
  <2>3. status = [max_gen |-> Dummy!Gen(ms), gen |-> Dummy!Gen(neg),
                  max_width |-> Dummy!Lanes(mw), width |-> Dummy!Lanes(wide)]
    BY ReportIs
  <2> HIDE DEF ms, ns, mw, nw
  <2>4. ms \in 1..8 /\ ns \in 0..8 /\ mw \in 0..16 /\ nw \in 0..16
    BY <2>1, <2>2 DEF Dummy!InRange, Dummy!Parse
  <2>5. /\ env.neg_speed = NoNumber => ns = 0
        /\ env.neg_width = NoNumber => nw = 0
    BY <2>1 DEF Dummy!Parse
  <2>6. neg \in 1..8 /\ wide \in 0..16
    BY <2>4
  <2>7. Dummy!Gen(ms) = ms /\ Dummy!Gen(neg) = neg
    BY <2>4, <2>6, SmallNumbers
  <2>8. Dummy!Lanes(mw) \in 1..16 /\ Dummy!Lanes(wide) \in 1..16
    <3>1. \A v \in 0..16 : v = 0 \/ v \in 1..16
      OBVIOUS
    <3>2. \A v \in 0..16 : Dummy!Lanes(v) \in 1..16
      BY <3>1, SmallNumbers
    <3> QED BY <2>4, <2>6, <3>2
  <2> QED BY <2>3, <2>4, <2>5, <2>6, <2>7, <2>8 DEF Dummy!UNKNOWN
<1> QED BY <1>1, <1>2

(* ConfigInv is inductive: the query after each setenv re-establishes it.   *)
LEMMA ConfigInvInit == Dummy!Init => ConfigInv
<1> SUFFICES ASSUME Dummy!Init PROVE ConfigInv
  OBVIOUS
<1>1. env = Dummy!Default
  BY DEF Dummy!Init
<1>2. env \in Dummy!Environment
  <2>1. <<>> \in Seq(Dummy!Item)
    OBVIOUS
  <2> QED BY <1>1, <2>1 DEF Dummy!Default, Dummy!Environment
<1> QED BY <1>2, Reports DEF Dummy!Init

LEMMA ConfigInvNext == ConfigInv /\ [Dummy!Setenv]_dummyVars => ConfigInv'
<1> SUFFICES ASSUME ConfigInv, [Dummy!Setenv]_dummyVars PROVE ConfigInv'
  OBVIOUS
<1>0. env \in Dummy!Environment
  BY DEF ConfigInv
<1>1. CASE UNCHANGED dummyVars
  BY <1>1 DEF dummyVars, ConfigInv, Reported, Result, AllRead, Start
<1>2. CASE Dummy!Setenv
  <2>1. env' \in Dummy!Environment
    <3>1. \/ \E v \in Speeds : env' \in {[env EXCEPT !.max_speed = v],
                                        [env EXCEPT !.neg_speed = v]}
          \/ \E v \in Widths : env' \in {[env EXCEPT !.max_width = v],
                                        [env EXCEPT !.neg_width = v]}
          \/ \E v \in Durations : env' = [env EXCEPT !.latency = v]
          \/ \E name \in Names \cup {Dummy!NoName} : env' = [env EXCEPT !.profile = name]
          \/ \E item \in Dummy!Item : env' = [env EXCEPT !.scenario = Append(@, item)]
      BY <1>2 DEF Dummy!Setenv
    <3>2. \A item \in Dummy!Item : Append(env.scenario, item) \in Seq(Dummy!Item)
      BY <1>0 DEF Dummy!Environment
    <3> DEFINE S == Seq(Dummy!Item)
    <3>3. \A e : e \in Dummy!Environment <=>
              e \in [max_speed : Speeds \cup {NoNumber}, neg_speed : Speeds \cup {NoNumber},
                    max_width : Widths \cup {NoNumber}, neg_width : Widths \cup {NoNumber},
                    latency : Durations \cup {NoNumber}, profile : Names \cup {Dummy!NoName},
                    scenario : S]
      BY DEF Dummy!Environment
    <3>4. \A item \in Dummy!Item : Append(env.scenario, item) \in S
      BY <3>2
    <3> HIDE DEF S
    <3>5. CASE \E v \in Speeds : env' \in {[env EXCEPT !.max_speed = v],
                                           [env EXCEPT !.neg_speed = v]}
      BY <1>0, <3>3, <3>5
    <3>6. CASE \E v \in Widths : env' \in {[env EXCEPT !.max_width = v],
                                           [env EXCEPT !.neg_width = v]}
      BY <1>0, <3>3, <3>6
    <3>7. CASE \E v \in Durations : env' = [env EXCEPT !.latency = v]
      BY <1>0, <3>3, <3>7
    <3>8. CASE \E name \in Names \cup {Dummy!NoName} : env' = [env EXCEPT !.profile = name]
      BY <1>0, <3>3, <3>8
    <3>9. CASE \E item \in Dummy!Item : env' = [env EXCEPT !.scenario = Append(@, item)]
      <4>1. PICK item \in Dummy!Item : env' = [env EXCEPT !.scenario = Append(@, item)]
        BY <3>9
      <4> DEFINE a == Append(env.scenario, item)
      <4>2. env' = [env EXCEPT !.scenario = a]
        BY <4>1
      <4>3. a \in S
        BY <3>4
      <4> HIDE DEF a
      <4> QED BY <1>0, <3>3, <4>2, <4>3
    <3> QED BY <3>1, <3>5, <3>6, <3>7, <3>8, <3>9
  <2>2. status' = Dummy!dummy_link_status(env') /\ cfg' = Dummy!dummy_read_runtime_config(env')
    BY <1>2 DEF Dummy!Setenv, Dummy!Query
  <2>3. Dummy!dummy_apply_scenario_values(env'.scenario, Start') = Result'
    BY DEF Dummy!dummy_apply_scenario_values, Result, AllRead
  <2>4. cfg' = [Result' EXCEPT !.neg_speed = IF @ = 0 THEN Result'.max_speed ELSE @,
                              !.neg_width = IF @ = 0 THEN Result'.max_width ELSE @]
    BY <2>2, <2>3 DEF Dummy!dummy_read_runtime_config, Start
  <2>5. status' = [max_gen |-> Dummy!Gen(cfg'.max_speed), gen |-> Dummy!Gen(cfg'.neg_speed),
                   max_width |-> Dummy!Lanes(cfg'.max_width),
                   width |-> Dummy!Lanes(cfg'.neg_width)]
    BY <2>2 DEF Dummy!dummy_link_status
  <2>6. Reported'
    BY <2>4, <2>5 DEF Reported
  <2> QED BY <2>1, <2>6 DEF ConfigInv
<1> QED BY <1>1, <1>2

(* Whatever the variables and the list hold, and however they got there:    *)
(* the link that the dummy reports is that of the last name that decides,   *)
(* and a possible one if the numbers are.                                   *)
THEOREM LinkConfigured == Spec => []LinkAsConfigured
<1>1. ConfigInv => LinkAsConfigured
  BY LastWinsFollows, PossibleFollows DEF LinkAsConfigured, Dummy!LinkAsConfigured
<1>2. Init => ConfigInv
  BY ConfigInvInit DEF Init
<1> QED
  BY <1>1, <1>2, OneStep, ConfigInvNext, PTL DEF Spec
=============================================================================
