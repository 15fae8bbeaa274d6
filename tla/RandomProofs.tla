---------------------------- MODULE RandomProofs ----------------------------
(***************************************************************************)
(* The descriptor of /dev/urandom is opened once and seen by every thread  *)
(* of a client that calls fp256_init first, although nothing guards the    *)
(* two static variables; buffers are filled, numbers have the bits they    *)
(* should, and none of them is missing: for any number of threads, bytes   *)
(* and limbs of any width, and all requests.                               *)
(***************************************************************************)
EXTENDS Random, TLAPS, WellFoundedInduction

(* What every step of a call leaves alone, and what it does to its thread. *)
LEMMA Placed ==
  ASSUME Shape, NEW t \in Threads, NEW to \in Steps, NEW j, JobOK(j), Goto(t, to, j)
  PROVE  /\ Shape'
         /\ pc'[t] = to /\ job'[t] = j
         /\ \A u \in Threads \ {t} : pc'[u] = pc[u] /\ job'[u] = job[u]
         /\ UNCHANGED client /\ ~dead
  BY DEF Shape, Goto

(* Local variables may change, but not the function nor the descriptor.    *)
LEMMA Kept ==
  ASSUME NEW r, JobOK(r), NEW x, NEW y
  PROVE  /\ JobOK([r EXCEPT !.pos = x]) /\ [r EXCEPT !.pos = x].fn = r.fn
         /\ [r EXCEPT !.pos = x].new = r.new
         /\ JobOK([r EXCEPT !.ret = x]) /\ [r EXCEPT !.ret = x].fn = r.fn
         /\ [r EXCEPT !.ret = x].new = r.new
         /\ JobOK([r EXCEPT !.rd = x]) /\ [r EXCEPT !.rd = x].fn = r.fn
         /\ [r EXCEPT !.rd = x].new = r.new
         /\ JobOK([r EXCEPT !.new = x]) /\ [r EXCEPT !.new = x].fn = r.fn
         /\ [r EXCEPT !.new = x].new = x
         /\ JobOK([r EXCEPT !.pos = x, !.ret = y]) /\ [r EXCEPT !.pos = x, !.ret = y].fn = r.fn
         /\ JobOK([r EXCEPT !.count = x, !.pos = y]) /\ [r EXCEPT !.count = x, !.pos = y].fn = r.fn
         /\ JobOK([r EXCEPT !.rd = x, !.ret = y]) /\ [r EXCEPT !.rd = x, !.ret = y].fn = r.fn
  BY DEF JobOK

(* A job begins with the function of its call.                             *)
LEMMA NewJob ==
  ASSUME NEW f, NEW x, NEW y, NEW z
  PROVE  /\ JobOK(NoJob) /\ NoJob.fn = "none"
         /\ JobOK([NoJob EXCEPT !.fn = f, !.nbits = x]) /\ [NoJob EXCEPT !.fn = f, !.nbits = x].fn = f
         /\ JobOK([NoJob EXCEPT !.fn = f, !.bound = x]) /\ [NoJob EXCEPT !.fn = f, !.bound = x].fn = f
  BY DEF JobOK, NoJob

(* At the start no thread calls and the device is untouched.               *)
LEMMA InitHolds == Init => DeviceInv
<1> SUFFICES ASSUME Init PROVE DeviceInv
  OBVIOUS
<1>1. Shape
  BY NewJob DEF Init, Shape, Steps
<1>2. InitComesFirst
  BY NewJob DEF Init, InitComesFirst
<1>3. DeviceFollows
  BY DEF Init, DeviceFollows, Untouched, Opening
<1> QED
  BY <1>1, <1>2, <1>3 DEF DeviceInv

(* A thread that is not fp256_init's, and stays out of the device.         *)
LEMMA Elsewhere ==
  ASSUME DeviceInv, NEW t \in Threads, NEW to \in Steps, NEW j, JobOK(j), Local(t, to, j),
         job[t].fn # "init" /\ j.fn # "init",
         to = "idle" <=> j.fn = "none",
         to \notin Opening,
         policy = "ready" => up,
         policy = "ready" /\ to \in {"fill", "drawn", "overrun"} /\ source = "urandom" => Ready
  PROVE  DeviceInv'
<1>1. /\ Shape'
      /\ pc'[t] = to /\ job'[t] = j
      /\ \A u \in Threads \ {t} : pc'[u] = pc[u] /\ job'[u] = job[u]
      /\ UNCHANGED client
  BY Placed DEF Local, DeviceInv
<1>2. UNCHANGED <<source, policy, fd, initialized, opened, up>>
  BY <1>1 DEF Local, client, device
<1>3. InitComesFirst'
  BY <1>1, <1>2 DEF DeviceInv, InitComesFirst
<1>4. DeviceFollows'
  BY <1>1, <1>2 DEF DeviceInv, DeviceFollows, Untouched, Ready, Opening
<1> QED
  BY <1>1, <1>3, <1>4 DEF DeviceInv

(* A step inside fp256_init, or of anybody who has got to the same place.  *)
LEMMA Along ==
  ASSUME DeviceInv, NEW t \in Threads, NEW to \in Steps, NEW j, JobOK(j), Local(t, to, j),
         pc[t] # "idle", j.fn = job[t].fn, j.new = job[t].new,
         to \in {"fill", "drawn", "overrun"} /\ pc[t] \in {"buf", "fill"},
         policy = "ready" /\ pc[t] = "buf" /\ source = "urandom" => initialized # 0
  PROVE  DeviceInv'
<1>1. /\ Shape'
      /\ pc'[t] = to /\ job'[t] = j
      /\ \A u \in Threads \ {t} : pc'[u] = pc[u] /\ job'[u] = job[u]
      /\ UNCHANGED client
  BY Placed DEF Local, DeviceInv
<1>2. UNCHANGED <<source, policy, fd, initialized, opened, up>>
  BY <1>1 DEF Local, client, device
<1>3. InitComesFirst'
  BY <1>1, <1>2 DEF DeviceInv, InitComesFirst
<1>4. DeviceFollows'
  BY <1>1, <1>2 DEF DeviceInv, DeviceFollows, Untouched, Ready, Opening
<1> QED
  BY <1>1, <1>3, <1>4 DEF DeviceInv

(* Where a thread cannot be while it is inside fp256_init.                 *)
LEMMA NotInit ==
  ASSUME DeviceInv, NEW t \in Threads, pc[t] \in {"idle", "try", "compare", "back"}
  PROVE  job[t].fn # "init" /\ (pc[t] # "idle" /\ policy = "ready" => up)
<1>1. job[t].fn # "init"
  BY DEF DeviceInv, InitComesFirst, Opening
<1> QED
  BY <1>1 DEF DeviceInv, InitComesFirst

(* fp256_init begins, alone, with the device untouched if it is the first. *)
LEMMA CallInitIInv == ASSUME DeviceInv, NEW t \in Threads, CallInit(t) PROVE DeviceInv'
<1> DEFINE j == [NoJob EXCEPT !.fn = "init", !.nbits = W]
<1>1. JobOK(j) /\ j.fn = "init"
  BY NewJob
<1> HIDE DEF j
<1>2. Local(t, "buf", j) /\ pc[t] = "idle" /\ \A u \in Threads : job[u].fn # "init"
  BY DEF CallInit, j
<1>3. /\ Shape'
      /\ pc'[t] = "buf" /\ job'[t] = j
      /\ \A u \in Threads \ {t} : pc'[u] = pc[u] /\ job'[u] = job[u]
      /\ UNCHANGED client
  BY <1>1, <1>2, Placed DEF Local, DeviceInv, Steps
<1>4. UNCHANGED <<source, policy, fd, initialized, opened, up>>
  BY <1>2, <1>3 DEF Local, client, device
<1>5. InitComesFirst'
  BY <1>1, <1>2, <1>3, <1>4 DEF DeviceInv, InitComesFirst
<1>6. ASSUME policy = "ready", ~up PROVE Untouched
  <2>1. \A u \in Threads : pc[u] = "idle"
    BY <1>2, <1>6 DEF DeviceInv, InitComesFirst
  <2> QED
    BY <2>1, <1>6 DEF DeviceInv, DeviceFollows
<1>7. DeviceFollows'
  BY <1>2, <1>3, <1>4, <1>6 DEF DeviceInv, DeviceFollows, Untouched, Ready, Opening
<1> QED
  BY <1>3, <1>5, <1>7 DEF DeviceInv

(* A buffer is asked for, by a client that has called fp256_init.          *)
LEMMA CallBufIInv == ASSUME DeviceInv, NEW t \in Threads, CallBuf(t) PROVE DeviceInv'
<1>1. pc[t] = "idle" /\ (policy = "ready" => up)
  BY DEF CallBuf, MayCall
<1>2. JobOK([NoJob EXCEPT !.fn = "buf", !.nbits = W]) /\ [NoJob EXCEPT !.fn = "buf", !.nbits = W].fn = "buf"
  BY NewJob
<1>3. job[t].fn # "init"
  BY <1>1, NotInit
<1>4. Local(t, "buf", [NoJob EXCEPT !.fn = "buf", !.nbits = W])
  BY DEF CallBuf
<1> QED
  BY <1>1, <1>2, <1>3, <1>4, Elsewhere DEF Steps, Opening

(* A number of n bits is asked for.                                        *)
LEMMA CallBitsIInv == ASSUME DeviceInv, NEW t \in Threads, CallBits(t) PROVE DeviceInv'
<1>1. pc[t] = "idle" /\ up
  BY DEF CallBits
<1>2. PICK n, x :
        LET j == [NoJob EXCEPT !.fn = "bits", !.nbits = n]
        IN  \/ Local(t, "back", [j EXCEPT !.ret = "refused"])
            \/ Local(t, "back", [j EXCEPT !.ret = "ok"])
            \/ Local(t, "buf", [j EXCEPT !.rd = x])
  BY DEF CallBits
<1> DEFINE j == [NoJob EXCEPT !.fn = "bits", !.nbits = n]
<1>3. JobOK(j) /\ j.fn = "bits"
  BY NewJob
<1>4. job[t].fn # "init"
  BY <1>1, NotInit
<1> HIDE DEF j
<1>5. \A y : JobOK([j EXCEPT !.ret = y]) /\ [j EXCEPT !.ret = y].fn = "bits"
            /\ JobOK([j EXCEPT !.rd = y]) /\ [j EXCEPT !.rd = y].fn = "bits"
  BY <1>3, Kept
<1>6. \/ Local(t, "back", [j EXCEPT !.ret = "refused"])
      \/ Local(t, "back", [j EXCEPT !.ret = "ok"])
      \/ Local(t, "buf", [j EXCEPT !.rd = x])
  BY <1>2 DEF j
<1> QED
  BY <1>1, <1>4, <1>5, <1>6, Elsewhere DEF Steps, Opening

(* A number below a bound is asked for.                                    *)
LEMMA CallRangeIInv == ASSUME DeviceInv, NEW t \in Threads, CallRange(t) PROVE DeviceInv'
<1>1. pc[t] = "idle" /\ up
  BY DEF CallRange
<1>2. PICK x, y :
        LET j == [NoJob EXCEPT !.fn = "range", !.bound = x]
        IN  \/ Local(t, "back", [j EXCEPT !.ret = "ok"])
            \/ Local(t, "try", [j EXCEPT !.nbits = y, !.count = Tries])
  BY DEF CallRange
<1> DEFINE j == [NoJob EXCEPT !.fn = "range", !.bound = x]
<1>3. JobOK(j) /\ j.fn = "range"
  BY NewJob
<1>4. job[t].fn # "init"
  BY <1>1, NotInit
<1> HIDE DEF j
<1>5. /\ JobOK([j EXCEPT !.ret = "ok"]) /\ [j EXCEPT !.ret = "ok"].fn = "range"
      /\ JobOK([j EXCEPT !.nbits = y, !.count = Tries])
      /\ [j EXCEPT !.nbits = y, !.count = Tries].fn = "range"
  BY <1>3 DEF JobOK
<1>6. \/ Local(t, "back", [j EXCEPT !.ret = "ok"])
      \/ Local(t, "try", [j EXCEPT !.nbits = y, !.count = Tries])
  BY <1>2 DEF j
<1> QED
  BY <1>1, <1>4, <1>5, <1>6, Elsewhere DEF Steps, Opening

(* An attempt begins, or there is none left.                               *)
LEMMA TryIInv == ASSUME DeviceInv, NEW t \in Threads, Try(t) PROVE DeviceInv'
<1> DEFINE j == [job[t] EXCEPT !.count = @ - 1, !.pos = 0]
<1>1. pc[t] = "try" /\ JobOK(job[t])
  BY DEF Try, DeviceInv, Shape
<1>2. job[t].fn \notin {"init", "none"} /\ (policy = "ready" => up)
  BY <1>1, NotInit DEF DeviceInv, InitComesFirst
<1>3. JobOK(j) /\ j.fn = job[t].fn
  BY <1>1 DEF JobOK
<1>4. \/ Local(t, "back", [j EXCEPT !.rd = 0, !.ret = "none left"])
      \/ Local(t, "compare", [j EXCEPT !.ret = "ok"])
      \/ Local(t, "buf", j)
  BY DEF Try
<1> HIDE DEF j
<1>5. /\ JobOK([j EXCEPT !.rd = 0, !.ret = "none left"]) /\ [j EXCEPT !.rd = 0, !.ret = "none left"].fn = j.fn
      /\ JobOK([j EXCEPT !.ret = "ok"]) /\ [j EXCEPT !.ret = "ok"].fn = j.fn
  BY <1>3 DEF JobOK
<1>6. CASE Local(t, "back", [j EXCEPT !.rd = 0, !.ret = "none left"])
  BY <1>2, <1>3, <1>5, <1>6, Elsewhere DEF Steps, Opening
<1>7. CASE Local(t, "compare", [j EXCEPT !.ret = "ok"])
  BY <1>2, <1>3, <1>5, <1>7, Elsewhere DEF Steps, Opening
<1>8. CASE Local(t, "buf", j)
  BY <1>2, <1>3, <1>8, Elsewhere DEF Steps, Opening
<1> QED
  BY <1>4, <1>6, <1>7, <1>8

(* The upper bits are cleared.                                             *)
LEMMA MaskIInv == ASSUME DeviceInv, NEW t \in Threads, Mask(t) PROVE DeviceInv'
<1>1. pc[t] = "drawn" /\ job[t].fn \in {"bits", "range"} /\ JobOK(job[t])
  BY DEF Mask, Draws, DeviceInv, Shape
<1>2. policy = "ready" => up
  BY <1>1 DEF DeviceInv, InitComesFirst
<1>3. PICK x : \/ Local(t, "compare", [job[t] EXCEPT !.rd = x])
               \/ Local(t, "back", [job[t] EXCEPT !.rd = x])
  BY DEF Mask
<1>4. JobOK([job[t] EXCEPT !.rd = x]) /\ [job[t] EXCEPT !.rd = x].fn = job[t].fn
  BY <1>1, Kept
<1> QED
  BY <1>1, <1>2, <1>3, <1>4, Elsewhere DEF Steps, Opening

(* The number is compared with the bound.                                  *)
LEMMA CompareIInv == ASSUME DeviceInv, NEW t \in Threads, Compare(t) PROVE DeviceInv'
<1>1. pc[t] = "compare" /\ JobOK(job[t])
  BY DEF Compare, DeviceInv, Shape
<1>2. job[t].fn \notin {"init", "none"} /\ (policy = "ready" => up)
  BY <1>1, NotInit DEF DeviceInv, InitComesFirst
<1>3. Local(t, "back", job[t]) \/ Local(t, "try", job[t])
  BY DEF Compare
<1> QED
  BY <1>1, <1>2, <1>3, Elsewhere DEF Steps, Opening

(* The call returns and the thread is idle.                                *)
LEMMA ReturnIInv == ASSUME DeviceInv, NEW t \in Threads, Return(t) PROVE DeviceInv'
<1>1. pc[t] = "back" \/ (pc[t] = "drawn" /\ job[t].fn = "buf")
  BY DEF Return
<1>2. job[t].fn \notin {"init", "none"} /\ (policy = "ready" => up)
  BY <1>1, NotInit DEF DeviceInv, InitComesFirst
<1>3. Local(t, "idle", NoJob) /\ JobOK(NoJob) /\ NoJob.fn = "none"
  BY NewJob DEF Return
<1> QED
  BY <1>2, <1>3, Elsewhere DEF Steps, Opening

(* The unguarded test: only fp256_init finds the device closed.            *)
LEMMA BufIInv == ASSUME DeviceInv, NEW t \in Threads, Buf(t) PROVE DeviceInv'
<1>1. pc[t] = "buf" /\ JobOK(job[t])
  BY DEF Buf, DeviceInv, Shape
<1>2. CASE ~(source = "urandom" /\ initialized = 0)
  <2>1. Local(t, "fill", job[t])
    BY <1>2 DEF Buf
  <2> QED
    BY <1>1, <1>2, <2>1, Along DEF Steps
<1>3. CASE source = "urandom" /\ initialized = 0
  <2>1. Local(t, "open", job[t])
    BY <1>3 DEF Buf
  <2>2. /\ Shape'
        /\ pc'[t] = "open" /\ job'[t] = job[t]
        /\ \A u \in Threads \ {t} : pc'[u] = pc[u] /\ job'[u] = job[u]
        /\ UNCHANGED client
    BY <1>1, <2>1, Placed DEF Local, DeviceInv, Steps
  <2>3. UNCHANGED <<source, policy, fd, initialized, opened, up>>
    BY <2>1, <2>2 DEF Local, client, device
  <2>4. InitComesFirst'
    BY <1>1, <2>2, <2>3 DEF DeviceInv, InitComesFirst, Opening
  <2>5. policy = "ready" => ~up /\ Untouched
    BY <1>1, <1>3 DEF DeviceInv, DeviceFollows, Ready
  <2>6. DeviceFollows'
    BY <1>1, <1>3, <2>2, <2>3, <2>5 DEF DeviceInv, DeviceFollows, Untouched, Ready, Opening
  <2> QED
    BY <2>2, <2>4, <2>6 DEF DeviceInv
<1> QED
  BY <1>2, <1>3

(* What one answer of the kernel does to a job.                            *)
LEMMA Answer ==
  ASSUME DeviceInv, NEW t \in Threads, pc[t] = "fill", NEW x, NEW y,
         NEW to \in {"fill", "overrun", "drawn"},
         \/ Local(t, to, [job[t] EXCEPT !.pos = x])
         \/ Local(t, to, [job[t] EXCEPT !.ret = y])
         \/ Local(t, to, [job[t] EXCEPT !.pos = x, !.ret = y])
  PROVE  DeviceInv'
<1>1. JobOK(job[t])
  BY DEF DeviceInv, Shape
<1>2. \A j \in {[job[t] EXCEPT !.pos = x], [job[t] EXCEPT !.ret = y],
                [job[t] EXCEPT !.pos = x, !.ret = y]} :
        JobOK(j) /\ j.fn = job[t].fn /\ j.new = job[t].new
  BY <1>1 DEF JobOK
<1>3. PICK j : Local(t, to, j) /\ JobOK(j) /\ j.fn = job[t].fn /\ j.new = job[t].new
  BY <1>2
<1> QED
  BY <1>3, Along DEF Steps

(* Some bytes have arrived.                                                *)
LEMMA ReceiveIInv ==
  ASSUME DeviceInv, NEW t \in Threads, pc[t] = "fill", NEW n, Receive(t, n)
  PROVE  DeviceInv'
<1>1. \/ Local(t, "fill", [job[t] EXCEPT !.pos = @ + n])
      \/ Local(t, "overrun", [job[t] EXCEPT !.pos = @ + n])
  BY DEF Receive
<1> QED
  BY <1>1, Answer

(* The last answer of the kernel.                                          *)
LEMMA FinishIInv ==
  ASSUME DeviceInv, NEW t \in Threads, pc[t] = "fill", NEW r, Finish(t, r)
  PROVE  DeviceInv'
  BY Answer DEF Finish

(* getrandom answers.                                                      *)
LEMMA GetRandomIInv == ASSUME DeviceInv, NEW t \in Threads, GetRandom(t) PROVE DeviceInv'
  BY ReceiveIInv, FinishIInv DEF GetRandom

(* read answers.                                                           *)
LEMMA ReadDeviceIInv == ASSUME DeviceInv, NEW t \in Threads, ReadDevice(t) PROVE DeviceInv'
<1>1. pc[t] = "fill"
  BY DEF ReadDevice
<1>2. ASSUME NEW n, Local(t, "drawn", [job[t] EXCEPT !.pos = @ + n, !.ret = "ok"])
      PROVE  DeviceInv'
  BY <1>1, <1>2, Answer
<1> QED
  BY <1>1, <1>2, ReceiveIInv, FinishIInv DEF ReadDevice

(* fp256_init opens the device, which nobody has opened before.            *)
LEMMA OpenIInv == ASSUME DeviceInv, NEW t \in Threads, Open(t) PROVE DeviceInv'
<1> DEFINE j == [job[t] EXCEPT !.new = opened + 1]
<1>1. pc[t] = "open" /\ JobOK(job[t])
  BY DEF Open, DeviceInv, Shape
<1>2. JobOK(j) /\ j.fn = job[t].fn /\ j.new = opened + 1
  BY <1>1 DEF JobOK
<1> HIDE DEF j
<1>3. Goto(t, "opened", j) /\ opened' = opened + 1 /\ UNCHANGED <<fd, initialized, up>>
  BY DEF Open, j
<1>4. /\ Shape'
      /\ pc'[t] = "opened" /\ job'[t] = j
      /\ \A u \in Threads \ {t} : pc'[u] = pc[u] /\ job'[u] = job[u]
      /\ UNCHANGED client
  BY <1>2, <1>3, Placed DEF DeviceInv, Steps
<1>5. InitComesFirst'
  BY <1>1, <1>2, <1>3, <1>4 DEF DeviceInv, InitComesFirst, Opening, client
<1>6. ASSUME policy = "ready"
      PROVE  /\ ~up /\ source = "urandom" /\ Untouched
             /\ \A u \in Threads \ {t} : pc[u] = "idle"
  BY <1>1, <1>6 DEF DeviceInv, InitComesFirst, DeviceFollows, Opening
<1>7. DeviceFollows'
  BY <1>2, <1>3, <1>4, <1>6 DEF DeviceFollows, Untouched, Ready, Opening, client
<1> QED
  BY <1>4, <1>5, <1>7 DEF DeviceInv

(* One of the two stores, and what it leaves to do.                        *)
LEMMA OpenDoneIInv == ASSUME DeviceInv, NEW t \in Threads, OpenDone(t) PROVE DeviceInv'
<1>1. pc[t] \in {"opened", "flag", "descriptor"} /\ JobOK(job[t])
  BY DEF OpenDone, DeviceInv, Shape
<1>2. PICK to \in {"flag", "descriptor", "fill"} : Goto(t, to, job[t])
  BY DEF OpenDone, StoreDescriptor, StoreFlag
<1>3. /\ Shape'
      /\ pc'[t] = to /\ job'[t] = job[t]
      /\ \A u \in Threads \ {t} : pc'[u] = pc[u] /\ job'[u] = job[u]
      /\ UNCHANGED client
  BY <1>1, <1>2, Placed DEF DeviceInv, Steps
<1>4. UNCHANGED <<source, policy, opened, up>>
  BY <1>3 DEF OpenDone, client
<1>5. InitComesFirst'
  BY <1>1, <1>3, <1>4 DEF DeviceInv, InitComesFirst, Opening
<1>6. ASSUME policy = "ready"
      PROVE  /\ ~up /\ source = "urandom" /\ opened = 1
             /\ \A u \in Threads \ {t} : pc[u] = "idle"
  BY <1>1, <1>6 DEF DeviceInv, InitComesFirst, DeviceFollows, Opening
<1>7. ASSUME policy = "ready"
      PROVE  /\ to = "flag" => fd' = 1
             /\ to = "descriptor" => initialized' = 1 /\ job[t].new = 1
             /\ to = "fill" => initialized' = 1 /\ fd' = 1
  <2>1. CASE pc[t] = "opened"
    <3>1. job[t].new = 1
      BY <1>7, <2>1 DEF DeviceInv, DeviceFollows
    <3> QED
      BY <1>3, <2>1, <3>1 DEF OpenDone, StoreDescriptor, StoreFlag, Goto, DeviceInv, Shape
  <2>2. CASE pc[t] = "flag"
    BY <1>3, <1>7, <2>2 DEF OpenDone, StoreFlag, Goto, DeviceInv, Shape, DeviceFollows
  <2>3. CASE pc[t] = "descriptor"
    BY <1>3, <1>7, <2>3 DEF OpenDone, StoreDescriptor, Goto, DeviceInv, Shape, DeviceFollows
  <2> QED
    BY <1>1, <2>1, <2>2, <2>3
<1>8. DeviceFollows'
  BY <1>2, <1>3, <1>4, <1>6, <1>7 DEF DeviceFollows, Untouched, Ready, Opening
<1> QED
  BY <1>3, <1>5, <1>8 DEF DeviceInv

(* The program stops, and nothing moves any more.                          *)
LEMMA StopIInv ==
  ASSUME DeviceInv, UNCHANGED <<client, device, up, pc, job>>
  PROVE  DeviceInv'
  BY DEF DeviceInv, Shape, InitComesFirst, DeviceFollows, Untouched, Ready, client, device

(* fp256_init returns when the device is ready, or stops the program.      *)
LEMMA InitDoneIInv == ASSUME DeviceInv, NEW t \in Threads, InitDone(t) PROVE DeviceInv'
<1>0. JobOK(NoJob) /\ NoJob.fn = "none"
  BY NewJob
<1>1. pc[t] = "drawn" /\ job[t].fn = "init" /\ UNCHANGED device
  BY DEF InitDone
<1>2. CASE UNCHANGED <<client, up, pc, job>>
  BY <1>1, <1>2, StopIInv
<1>3. CASE up' = TRUE /\ Goto(t, "idle", NoJob)
  <2>1. /\ Shape'
        /\ pc'[t] = "idle" /\ job'[t] = NoJob
        /\ \A u \in Threads \ {t} : pc'[u] = pc[u] /\ job'[u] = job[u]
        /\ UNCHANGED client
    BY <1>0, <1>3, Placed DEF DeviceInv, Steps
  <2>2. InitComesFirst'
    BY <1>0, <1>1, <1>3, <2>1 DEF DeviceInv, InitComesFirst, client
  <2>3. ASSUME policy = "ready"
        PROVE  /\ source = "urandom" => Ready
               /\ source # "urandom" => Untouched
    BY <1>1, <2>3 DEF DeviceInv, DeviceFollows
  <2>4. ASSUME policy = "ready", NEW u \in Threads
        PROVE  pc[u] \notin Opening
    BY <1>1, <2>4 DEF DeviceInv, DeviceFollows, InitComesFirst, Opening
  <2>5. DeviceFollows'
    BY <1>1, <1>3, <2>1, <2>3, <2>4 DEF DeviceInv, DeviceFollows, Untouched, Ready, Opening, client, device
  <2> QED
    BY <2>1, <2>2, <2>5 DEF DeviceInv
<1> QED
  BY <1>2, <1>3 DEF InitDone

(* Where the descriptor is, by where fp256_init is, always.                *)
THEOREM DeviceInvariant == Spec => []DeviceInv
<1>1. ASSUME DeviceInv, [Next]_vars PROVE DeviceInv'
  <2>1. CASE UNCHANGED vars
    BY <1>1, <2>1, StopIInv DEF vars, client, device
  <2>2. ASSUME NEW t \in Threads,
               \/ CallInit(t) \/ CallBuf(t) \/ CallBits(t) \/ CallRange(t)
               \/ Advance(t) \/ OpenFails(t)
        PROVE  DeviceInv'
    <3>1. CASE CallInit(t) \/ CallBuf(t) \/ CallBits(t) \/ CallRange(t)
      BY <1>1, <3>1, CallInitIInv, CallBufIInv, CallBitsIInv, CallRangeIInv
    <3>2. CASE Try(t) \/ Mask(t) \/ Compare(t) \/ Return(t) \/ InitDone(t)
      BY <1>1, <3>2, TryIInv, MaskIInv, CompareIInv, ReturnIInv, InitDoneIInv
    <3>3. CASE Buf(t) \/ Open(t) \/ OpenDone(t) \/ GetRandom(t) \/ ReadDevice(t)
      BY <1>1, <3>3, BufIInv, OpenIInv, OpenDoneIInv, GetRandomIInv, ReadDeviceIInv
    <3>4. CASE OpenFails(t)
      BY <1>1, <3>4, StopIInv DEF OpenFails
    <3> QED
      BY <2>2, <3>1, <3>2, <3>3, <3>4 DEF Advance
  <2> QED
    BY <1>1, <2>1, <2>2 DEF Next
<1> QED
  BY <1>1, InitHolds, PTL DEF Spec

(* A client that calls fp256_init first has one descriptor, which all of   *)
(* its threads read from, for any number of threads and any order of the   *)
(* two stores.                                                             *)
THEOREM OneDescriptorKept == Spec => []OneDescriptor
<1>1. DeviceInv => OneDescriptor
  <2> SUFFICES ASSUME DeviceInv, policy = "ready" PROVE OneDescriptor
    BY DEF OneDescriptor
  <2>1. \A t \in Threads : pc[t] = "fill" /\ source = "urandom" => fd = 1
    BY DEF DeviceInv, DeviceFollows, Ready
  <2>2. opened <= 1
    <3>1. CASE up \/ source # "urandom" \/ \A t \in Threads : pc[t] = "idle"
      BY <3>1 DEF DeviceInv, DeviceFollows, Untouched, Ready
    <3>2. CASE ~up /\ source = "urandom" /\ \E t \in Threads : pc[t] # "idle"
      <4>1. PICK t \in Threads : job[t].fn = "init"
        BY <3>2 DEF DeviceInv, InitComesFirst
      <4>2. pc[t] \in Opening \cup {"buf", "fill", "drawn", "overrun"}
        BY <4>1 DEF DeviceInv, InitComesFirst
      <4> QED
        BY <3>2, <4>2 DEF DeviceInv, DeviceFollows, Untouched, Ready, Opening
    <3> QED
      BY <3>1, <3>2
  <2> QED
    BY <2>1, <2>2 DEF OneDescriptor
<1> QED
  BY <1>1, DeviceInvariant, PTL

------------------------------------------------------------------------------
(* Bits, bytes and limbs.                                                  *)

(* A set of numbers that is not empty has a least element.                 *)
LEMMA Least ==
  ASSUME NEW T, T \subseteq Nat, T # {}
  PROVE  \E m \in T : \A k \in T : m <= k
<1>1. IsWellFoundedOn(OpToRel(<, Nat), Nat)
  BY NatLessThanWellFounded
<1>2. PICK m \in T : \A k \in T : ~(<<k, m>> \in OpToRel(<, Nat))
  BY <1>1, WFMin
<1>3. \A k \in T : ~(k < m)
  BY <1>2 DEF OpToRel
<1> QED
  BY <1>3

(* A set that has 0 and with a number the next one has them all.           *)
LEMMA Induction ==
  ASSUME NEW T, 0 \in T, \A n \in Nat : n \in T => n + 1 \in T
  PROVE  Nat \subseteq T
<1> SUFFICES ASSUME Nat \ T # {} PROVE FALSE
  OBVIOUS
<1>1. PICK m \in Nat \ T : \A k \in Nat \ T : m <= k
  BY Least
<1>2. m - 1 \in Nat /\ m - 1 \in T
  BY <1>1
<1> QED
  BY <1>1, <1>2

(* The same for the numbers up to a bound.                                 *)
LEMMA InductionTo ==
  ASSUME NEW n \in Nat, NEW T, 0 \in T, \A k \in 0 .. n - 1 : k \in T => k + 1 \in T
  PROVE  0 .. n \subseteq T
<1> DEFINE S == {k \in Nat : k <= n => k \in T}
<1>1. 0 \in S
  OBVIOUS
<1>2. \A k \in Nat : k \in S => k + 1 \in S
  OBVIOUS
<1>3. Nat \subseteq S
  <2> HIDE DEF S
  <2> QED
    BY <1>1, <1>2, Induction
<1> QED
  BY <1>3


(* Quotient and remainder are what a quotient and a remainder are.         *)
LEMMA DivModIs ==
  ASSUME NEW b \in Nat \ {0}, NEW a \in Int, NEW q \in Int, NEW r \in 0 .. b - 1,
         a = b * q + r
  PROVE  a \div b = q /\ a % b = r
  OBVIOUS

(* The numbers of bits that objects have.                                  *)
Numbers == 0 .. W * MaxLimbs

(* The sizes are positive, and an object has at least a limb.              *)
LEMMA Sizes ==
  /\ W \in Nat \ {0} /\ IntBits \in Nat \ {0} /\ IntBits <= W /\ LimbBytes \in Nat \ {0}
  /\ W * MaxLimbs \in Nat \ {0} /\ W <= W * MaxLimbs
<1>1. LimbBytes = 2 * (LimbBytes \div 2) /\ LimbBytes \in Nat \ {0} /\ LimbBytes \div 2 \in Nat \ {0}
  BY SizesAssumption
<1> DEFINE h == LimbBytes \div 2
<1>2. h \in Nat \ {0} /\ ByteBits * h \in Nat \ {0} /\ W = 2 * (ByteBits * h)
  <2>1. h \in Nat \ {0}
    BY <1>1
  <2> HIDE DEF h
  <2>2. ByteBits * (2 * h) = 2 * (ByteBits * h) /\ ByteBits * h \in Nat \ {0}
    BY <2>1, SizesAssumption
  <2>3. W = ByteBits * (2 * h)
    BY <1>1 DEF W, h
  <2> QED
    BY <2>1, <2>2, <2>3
<1> DEFINE p == ByteBits * h
<1> HIDE DEF h, p
<1>3. p \in Nat \ {0} /\ W = 2 * p
  BY <1>2 DEF p
<1>4. W \in Nat \ {0} /\ IntBits = p
  <2> HIDE DEF W
  <2> QED
    BY <1>3 DEF IntBits
<1>5. MaxLimbs \in Nat \ {0}
  BY SizesAssumption
<1>6. W * MaxLimbs \in Nat \ {0} /\ W <= W * MaxLimbs
  <2> HIDE DEF W
  <2>1. MaxLimbs - 1 \in Nat /\ W * (MaxLimbs - 1) \in Nat
        /\ W * (MaxLimbs - 1) = W * MaxLimbs - W
    BY <1>4, <1>5
  <2>2. W * MaxLimbs \in Nat
    BY <1>4, <1>5
  <2> QED
    BY <1>4, <2>1, <2>2
<1> QED
  BY <1>1, <1>3, <1>4, <1>6

(* A number of n bits ends e bits into its last limb.                      *)
LEMMA LastLimb ==
  ASSUME NEW n \in 1 .. W * MaxLimbs
  PROVE  /\ LimbsOf(n) \in 1 .. MaxLimbs
         /\ \E e \in 1 .. W :
              /\ n = W * (LimbsOf(n) - 1) + e
              /\ n % W = IF e = W THEN 0 ELSE e
<1> DEFINE q == (n - 1) \div W
           r == (n - 1) % W
<1>1. W \in Nat \ {0} /\ MaxLimbs \in Nat \ {0} /\ n \in Nat \ {0} /\ n - 1 < W * MaxLimbs
  BY Sizes, SizesAssumption
<1> HIDE DEF W
<1>2. n - 1 = W * q + r /\ q \in Nat /\ r \in 0 .. W - 1
  BY <1>1
<1> HIDE DEF q, r
<1>3. q < MaxLimbs
  <2> SUFFICES ASSUME q >= MaxLimbs PROVE FALSE
    BY <1>1, <1>2
  <2>1. q - MaxLimbs \in Nat /\ W * (q - MaxLimbs) \in Nat /\ W * (q - MaxLimbs) = W * q - W * MaxLimbs
    BY <1>1, <1>2
  <2>2. W * q \in Nat /\ W * MaxLimbs \in Nat
    BY <1>1, <1>2
  <2> QED
    BY <1>1, <1>2, <2>1, <2>2
<1>4. LimbsOf(n) = q + 1
  BY DEF LimbsOf, q
<1>5. n = W * q + (r + 1)
  <2>1. W * q \in Nat
    BY <1>1, <1>2
  <2> QED
    BY <1>1, <1>2, <2>1
<1>6. n % W = IF r + 1 = W THEN 0 ELSE r + 1
  <2>1. CASE r + 1 = W
    <3>1. n = W * (q + 1) + 0 /\ q + 1 \in Int /\ 0 \in 0 .. W - 1
      <4>1. W * (q + 1) = W * q + W /\ W * q \in Nat
        BY <1>1, <1>2
      <4> QED
        BY <1>1, <1>2, <1>5, <2>1, <4>1
    <3> DEFINE p == q + 1
    <3> HIDE DEF p
    <3>2. p \in Int /\ n = W * p + 0 /\ n \in Int /\ 0 \in 0 .. W - 1
      BY <1>1, <3>1 DEF p
    <3>3. n % W = 0
      BY <1>1, <3>2, DivModIs
    <3> QED
      BY <2>1, <3>3
  <2>2. CASE r + 1 # W
    <3>1. r + 1 \in 0 .. W - 1
      BY <1>1, <1>2, <2>2
    <3>2. n % W = r + 1
      BY <1>1, <1>2, <1>5, <3>1, DivModIs
    <3> QED
      BY <2>2, <3>2
  <2> QED
    BY <2>1, <2>2
<1>7. LimbsOf(n) \in 1 .. MaxLimbs /\ LimbsOf(n) - 1 = q
  BY <1>1, <1>2, <1>3, <1>4
<1>8. n = W * (LimbsOf(n) - 1) + (r + 1) /\ r + 1 \in 1 .. W
  BY <1>1, <1>2, <1>5, <1>7
<1> QED
  BY <1>6, <1>7, <1>8

(* The bytes of the limbs of n bits have the bits of the limbs.            *)
LEMMA LimbCount ==
  ASSUME NEW n \in 1 .. W * MaxLimbs
  PROVE  /\ LimbsOf(n) \in 1 .. MaxLimbs
         /\ SizeOf(n) \in Nat \ {0}
         /\ ByteBits * SizeOf(n) \in Numbers
<1> DEFINE l == LimbsOf(n)
<1>1. l \in 1 .. MaxLimbs
  BY LastLimb
<1>2. SizeOf(n) = LimbBytes * l
  BY DEF SizeOf
<1> HIDE DEF l
<1>3. l \in Nat \ {0} /\ LimbBytes \in Nat \ {0} /\ W \in Nat \ {0} /\ ByteBits \in Nat \ {0} /\ MaxLimbs \in Nat
  BY <1>1, Sizes, SizesAssumption
<1>4. LimbBytes * l \in Nat \ {0}
  BY <1>3
<1>5. ByteBits * (LimbBytes * l) = W * l
  BY <1>3 DEF W
<1>6. W * l \in 0 .. W * MaxLimbs
  <2> HIDE DEF W
  <2>1. MaxLimbs - l \in Nat /\ W * (MaxLimbs - l) \in Nat /\ W * (MaxLimbs - l) = W * MaxLimbs - W * l
    BY <1>1, <1>3
  <2>2. W * MaxLimbs \in Nat /\ W * l \in Nat
    BY <1>3
  <2> QED
    BY <2>1, <2>2
<1> QED
  BY <1>1, <1>2, <1>4, <1>5, <1>6 DEF l, Numbers

(* Powers of two are positive numbers.                                     *)
LEMMA Powers2 == \A s \in Numbers : 2^s \in Nat \ {0}
<1> DEFINE T == {s \in Numbers : 2^s \in Nat \ {0}}
<1>1. W * MaxLimbs \in Nat
  BY Sizes
<1> DEFINE m == W * MaxLimbs
<1> HIDE DEF m
<1>2. m \in Nat /\ Numbers = 0 .. m
  BY <1>1 DEF m, Numbers
<1>3. 0 \in T
  BY <1>2
<1>4. \A s \in 0 .. m - 1 : s \in T => s + 1 \in T
  <2>1. \A s \in 0 .. m : 2^(s + 1) = 2 * 2^s
    BY PowersAssumption DEF m
  <2> QED
    BY <1>2, <2>1
<1>5. 0 .. m \subseteq T
  <2> HIDE DEF T
  <2> QED
    BY <1>2, <1>3, <1>4, InductionTo
<1> QED
  BY <1>2, <1>5

(* The power of a sum.                                                     *)
LEMMA PowerSum ==
  ASSUME NEW s \in Numbers, NEW t \in Numbers, s + t \in Numbers
  PROVE  2^(s + t) = 2^s * 2^t
<1> DEFINE m == W * MaxLimbs
           T == {k \in 0 .. t : 2^(s + k) = 2^s * 2^k}
<1>1. m \in Nat /\ s \in Nat /\ t \in Nat /\ s + t <= m
  BY Sizes DEF Numbers
<1>2. \A k \in 0 .. m : 2^(k + 1) = 2 * 2^k /\ 2^k \in Nat
  BY PowersAssumption, Powers2 DEF Numbers
<1> HIDE DEF m
<1>3. 0 \in T
  <2>1. 2^s \in Nat /\ s \in 0 .. m /\ 2^0 = 1 /\ s + 0 = s
    BY <1>1, <1>2
  <2> QED
    BY <1>1, <2>1
<1>4. ASSUME NEW k \in 0 .. t - 1, k \in T PROVE k + 1 \in T
  <2>1. s + k \in 0 .. m /\ k \in 0 .. m /\ s \in 0 .. m /\ s + (k + 1) = (s + k) + 1 /\ k + 1 \in 0 .. t
    BY <1>1
  <2>2. 2^(s + (k + 1)) = 2 * 2^(s + k) /\ 2^(k + 1) = 2 * 2^k
    BY <1>2, <2>1
  <2>3. 2^(s + k) = 2^s * 2^k
    BY <1>4
  <2>4. 2^s \in Nat /\ 2^k \in Nat
    BY <1>2, <2>1
  <2> DEFINE a == 2^s  b == 2^k
  <2> HIDE DEF a, b
  <2>5. 2 * (a * b) = a * (2 * b)
    BY <2>4 DEF a, b
  <2> QED
    BY <2>1, <2>2, <2>3, <2>5 DEF a, b
<1>5. 0 .. t \subseteq T
  <2> HIDE DEF T
  <2> QED
    BY <1>1, <1>3, <1>4, InductionTo
<1> QED
  BY <1>1, <1>5

(* A limb is W bits.                                                       *)
LEMMA PowersB == \A k \in 0 .. MaxLimbs : W * k \in Numbers /\ B^k = 2^(W * k)
<1> DEFINE T == {k \in 0 .. MaxLimbs : W * k \in Numbers /\ B^k = 2^(W * k)}
<1>1. MaxLimbs \in Nat /\ W \in Nat \ {0} /\ W * MaxLimbs \in Nat /\ W \in Numbers
  BY SizesAssumption, Sizes DEF Numbers
<1>2. 0 \in T
  <2>1. W * 0 = 0 /\ 2^0 = 1 /\ 0 \in 0 .. MaxLimbs
    BY <1>1
  <2>2. B^0 = 1
    BY PowersAssumption
  <2>3. W * 0 \in Numbers
    BY <1>1, <2>1 DEF Numbers
  <2>4. 2^(W * 0) = 1
    <3> HIDE DEF W
    <3> QED
      BY <2>1
  <2> QED
    BY <2>1, <2>2, <2>3, <2>4
<1>3. ASSUME NEW k \in 0 .. MaxLimbs - 1, k \in T PROVE k + 1 \in T
  <2>1. k \in Nat /\ k + 1 \in 0 .. MaxLimbs
    BY <1>1
  <2>2. W * (k + 1) = W + W * k /\ W * k \in Nat
    BY <1>1, <2>1
  <2>3. W * (k + 1) \in Numbers
    <3>1. MaxLimbs - (k + 1) \in Nat /\ W * (MaxLimbs - (k + 1)) \in Nat
          /\ W * (MaxLimbs - (k + 1)) = W * MaxLimbs - W * (k + 1)
      BY <1>1, <2>1
    <3>2. W * (k + 1) \in Nat
      BY <1>1, <2>1
    <3> HIDE DEF W
    <3> QED
      BY <1>1, <3>1, <3>2 DEF Numbers
  <2>4. B^(k + 1) = B * B^k
    BY PowersAssumption
  <2>5. B^k = 2^(W * k) /\ W * k \in Numbers
    BY <1>3
  <2>6. 2^(W + W * k) = 2^W * 2^(W * k)
    <3> DEFINE a == W * k
    <3>1. a \in Numbers /\ W + a \in Numbers
      BY <2>2, <2>3, <2>5
    <3> HIDE DEF a, W
    <3> QED
      BY <1>1, <3>1, PowerSum DEF a
  <2> QED
    BY <2>1, <2>2, <2>3, <2>4, <2>5, <2>6 DEF B
<1>4. 0 .. MaxLimbs \subseteq T
  <2> HIDE DEF T
  <2> QED
    BY <1>1, <1>2, <1>3, InductionTo
<1> QED
  BY <1>4

(* What becomes of the last limb: e of its bits are the number's.          *)
LEMMA MaskParts ==
  ASSUME NEW n \in 1 .. W * MaxLimbs
  PROVE  \E low \in Nat \ {0}, two \in Nat \ {0}, top \in Nat \ {0} :
           /\ 2^n = low * two /\ top <= two
           /\ n % W < IntBits => top = two
           /\ 2^n <= B^LimbsOf(n)
           /\ \A x : Masked(x, n) = (x % low) + ((x \div low) % top) * low
<1>1. PICK e \in 1 .. W : /\ n = W * (LimbsOf(n) - 1) + e
                          /\ n % W = IF e = W THEN 0 ELSE e
  BY LastLimb
<1>2. LimbsOf(n) \in 1 .. MaxLimbs /\ LimbsOf(n) - 1 \in 0 .. MaxLimbs
  BY LastLimb, SizesAssumption
<1>3. /\ W \in Nat \ {0} /\ IntBits \in Nat \ {0} /\ IntBits <= W
      /\ MaxLimbs \in Nat \ {0} /\ W * MaxLimbs \in Nat \ {0} /\ W <= W * MaxLimbs
  BY Sizes, SizesAssumption
<1> DEFINE l == LimbsOf(n)  low == B^(l - 1)  two == 2^e  b == n % W
           top == IF b = 0 THEN B ELSE 2^(b % IntBits)
<1>4. W * (l - 1) \in Numbers /\ low = 2^(W * (l - 1)) /\ W * l \in Numbers /\ B^l = 2^(W * l)
  BY <1>2, PowersB
<1>5. e \in Numbers /\ n \in Numbers /\ W \in Numbers
  <2> HIDE DEF W
  <2> QED
    BY <1>3 DEF Numbers
<1>6. low \in Nat \ {0} /\ two \in Nat \ {0}
  <2> HIDE DEF l
  <2> QED
    BY <1>4, <1>5, Powers2
<1>7. 2^n = low * two
  <2> DEFINE a == W * (l - 1)
  <2>1. a \in Numbers /\ n = a + e /\ low = 2^a
    BY <1>1, <1>4
  <2> HIDE DEF a, l
  <2>2. 2^(a + e) = 2^a * 2^e
    BY <1>5, <2>1, PowerSum
  <2> QED
    BY <2>1, <2>2
<1>8. W - e \in Numbers /\ B = two * 2^(W - e) /\ 2^(W - e) \in Nat \ {0}
  <2>1. W - e \in Numbers /\ e + (W - e) = W
    <3> HIDE DEF W
    <3> QED
      BY <1>3 DEF Numbers
  <2>2. 2^(e + (W - e)) = two * 2^(W - e)
    BY <1>5, <2>1, PowerSum
  <2> QED
    BY <2>1, <2>2, Powers2 DEF B
<1>9. two <= B
  <2> DEFINE p == 2^(W - e)
  <2>1. p \in Nat \ {0} /\ B = two * p
    BY <1>8
  <2> HIDE DEF p, two
  <2>2. p - 1 \in Nat /\ two * (p - 1) \in Nat /\ two * (p - 1) = two * p - two
    BY <1>6, <2>1
  <2> QED
    BY <1>6, <2>1, <2>2
<1>10. top \in Nat \ {0} /\ top <= two /\ (n % W < IntBits => top = two)
  <2>1. CASE e = W
    <3>1. top = B /\ two = B
      BY <1>1, <2>1 DEF B
    <3> QED
      BY <1>6, <3>1
  <2>2. CASE e # W
    <3>1. b = e /\ top = 2^(e % IntBits)
      BY <1>1, <2>2
    <3> DEFINE c == e % IntBits
    <3>2. c \in Nat /\ c <= e /\ (e < IntBits => c = e)
      BY <1>3
    <3> HIDE DEF c
    <3>3. c \in Numbers /\ e - c \in Numbers /\ c + (e - c) = e
      <4> HIDE DEF W
      <4> QED
        BY <1>3, <3>2 DEF Numbers
    <3>4. two = 2^c * 2^(e - c) /\ 2^c \in Nat \ {0} /\ 2^(e - c) \in Nat \ {0}
      <4>1. 2^(c + (e - c)) = 2^c * 2^(e - c)
        BY <3>3, <1>5, PowerSum
      <4> QED
        BY <3>3, <4>1, Powers2
    <3>5. 2^c <= two
      <4> DEFINE p == 2^(e - c)  g == 2^c
      <4>1. p \in Nat \ {0} /\ two = g * p /\ g \in Nat \ {0}
        BY <3>4
      <4> HIDE DEF p, two, g
      <4>2. p - 1 \in Nat /\ g * (p - 1) \in Nat /\ g * (p - 1) = g * p - g
        BY <4>1
      <4>3. g <= two
        BY <4>1, <4>2
      <4> QED
        BY <4>3 DEF g
    <3>6. top = 2^c
      BY <3>1 DEF c
    <3>7. n % W < IntBits => top = two
      BY <3>1, <3>2, <3>6
    <3> HIDE DEF top, two
    <3> QED
      BY <3>4, <3>5, <3>6, <3>7
  <2> QED
    BY <2>1, <2>2
<1>11. 2^n <= B^l
  <2>1. W * (l - 1) + W = W * l
    BY <1>2, <1>3
  <2>2. B^l = low * B
    <3> DEFINE a == W * (l - 1)
    <3>1. a \in Numbers /\ a + W \in Numbers /\ a + W = W * l
      BY <1>4, <2>1
    <3>2. low = 2^a /\ B^l = 2^(a + W)
      BY <1>4, <2>1
    <3> HIDE DEF a, l, low
    <3>3. 2^(a + W) = 2^a * 2^W
      BY <1>5, <3>1, PowerSum
    <3> QED
      BY <3>2, <3>3 DEF B
  <2>3. B \in Nat
    BY <1>5, Powers2 DEF B
  <2> HIDE DEF low, two, B
  <2>4. B - two \in Nat /\ low * (B - two) \in Nat /\ low * (B - two) = low * B - low * two
    BY <1>6, <1>9, <2>3
  <2>5. low * B \in Nat /\ low * two \in Nat
    BY <1>6, <2>3
  <2>6. low * two <= low * B
    BY <2>4, <2>5
  <2> QED
    BY <1>7, <2>2, <2>6
<1>12. \A x : Masked(x, n) = (x % low) + ((x \div low) % top) * low
  BY DEF Masked
<1> HIDE DEF low, two, top
<1> QED
  BY <1>6, <1>7, <1>10, <1>11, <1>12

(* A masked number has no more than its n bits.                            *)
LEMMA MaskedFits ==
  ASSUME NEW y \in Nat, NEW n \in 1 .. W * MaxLimbs
  PROVE  Masked(y, n) \in 0 .. 2^n - 1
<1>1. PICK low \in Nat \ {0}, two \in Nat \ {0}, top \in Nat \ {0} :
        /\ 2^n = low * two /\ top <= two
        /\ \A x : Masked(x, n) = (x % low) + ((x \div low) % top) * low
  BY MaskParts
<1> DEFINE q == (y \div low) % top  r == y % low
<1>2. r \in 0 .. low - 1 /\ q \in 0 .. top - 1
  <2>1. y \div low \in Nat
    OBVIOUS
  <2> QED
    BY <2>1
<1> HIDE DEF q, r
<1>3. two - 1 - q \in Nat /\ low * (two - 1 - q) \in Nat /\ q * low \in Nat
      /\ low * (two - 1 - q) = low * two - low - q * low
  BY <1>1, <1>2
<1>4. low * two \in Nat
  OBVIOUS
<1>5. r + q * low \in 0 .. low * two - 1
  BY <1>2, <1>3, <1>4
<1>6. Masked(y, n) = r + q * low
  BY <1>1 DEF q, r
<1> QED
  BY <1>1, <1>5, <1>6

(* A number of n bits stays as it is, if the mask has as many.             *)
LEMMA MaskedSame ==
  ASSUME NEW n \in 1 .. W * MaxLimbs, n % W < IntBits, NEW v \in 0 .. 2^n - 1
  PROVE  Masked(v, n) = v
<1>1. PICK low \in Nat \ {0}, two \in Nat \ {0}, top \in Nat \ {0} :
        /\ 2^n = low * two /\ top = two
        /\ \A x : Masked(x, n) = (x % low) + ((x \div low) % top) * low
  BY MaskParts
<1> DEFINE q == v \div low  r == v % low
<1>2. v \in Nat /\ v < low * two
  <2>1. low * two \in Nat
    OBVIOUS
  <2> QED
    BY <1>1, <2>1
<1>3. r \in 0 .. low - 1 /\ q \in Nat /\ v = low * q + r
  BY <1>2
<1>4. Masked(v, n) = r + (q % top) * low
  BY <1>1
<1> HIDE DEF q, r
<1>5. q < two
  <2> SUFFICES ASSUME q >= two PROVE FALSE
    BY <1>3
  <2>1. q - two \in Nat /\ low * (q - two) \in Nat /\ low * (q - two) = low * q - low * two
    BY <1>3
  <2>2. low * q \in Nat /\ low * two \in Nat
    BY <1>3
  <2> QED
    BY <1>2, <1>3, <2>1, <2>2
<1>6. q % top = q
  BY <1>1, <1>3, <1>5
<1>7. q * low = low * q
  BY <1>3
<1> QED
  BY <1>3, <1>4, <1>6, <1>7

(* What is drawn is a number.                                              *)
LEMMA DrawnIs ==
  ASSUME NEW x \in Nat, NEW n \in 1 .. W * MaxLimbs, NEW i \in 0 .. SizeOf(n)
  PROVE  Drawn(x, i) \subseteq Nat
<1> DEFINE f == 2^(ByteBits * i)
<1>1. f \in Nat \ {0}
  <2> DEFINE z == SizeOf(n)  m == W * MaxLimbs
  <2>1. z \in Nat /\ ByteBits \in Nat /\ m \in Nat /\ ByteBits * z <= m
    BY LimbCount, SizesAssumption, Sizes DEF Numbers
  <2>2. i \in 0 .. z
    OBVIOUS
  <2> HIDE DEF z, m
  <2>3. z - i \in Nat /\ ByteBits * (z - i) \in Nat /\ ByteBits * (z - i) = ByteBits * z - ByteBits * i
    BY <2>1, <2>2
  <2>4. ByteBits * i \in Nat /\ ByteBits * z \in Nat
    BY <2>1, <2>2
  <2>5. ByteBits * i \in 0 .. m
    BY <2>1, <2>3, <2>4
  <2> QED
    BY <2>5, Powers2 DEF Numbers, m
<1> HIDE DEF f
<1>2. \A v \in 0 .. f - 1 : (x \div f) * f + v \in Nat
  <2>1. x \div f \in Nat
    BY <1>1
  <2>2. (x \div f) * f \in Nat
    BY <1>1, <2>1
  <2> QED
    BY <1>1, <2>2
<1> QED
  BY <1>2 DEF Drawn, f

(* g counts the bits of the numbers up to n.                               *)
Counts(g, n) == \A y \in 0 .. n : g[y] = IF y = 0 THEN 0 ELSE 1 + g[y \div 2]

(* Half of a number is a smaller one.                                      *)
LEMMA Half == \A y \in Nat \ {0} : y \div 2 \in 0 .. y - 1
  OBVIOUS

(* Two functions that count bits agree.                                    *)
LEMMA CountsAgree ==
  ASSUME NEW n \in Nat, NEW g, NEW h, Counts(g, n), Counts(h, n)
  PROVE  \A y \in 0 .. n : g[y] = h[y]
<1> DEFINE D == {y \in 0 .. n : g[y] # h[y]}
<1> SUFFICES ASSUME D # {} PROVE FALSE
  OBVIOUS
<1>1. PICK m \in D : \A k \in D : m <= k
  <2>1. D \subseteq Nat
    OBVIOUS
  <2> HIDE DEF D
  <2> QED
    BY <2>1, Least
<1>2. m \in 0 .. n /\ m # 0
  BY <1>1 DEF Counts
<1>3. m \div 2 \in 0 .. m - 1 /\ m \div 2 \in 0 .. n
  BY <1>2, Half
<1>4. g[m \div 2] = h[m \div 2]
  <2> DEFINE y == m \div 2
  <2>1. y \in 0 .. n /\ y < m
    BY <1>2, <1>3
  <2> HIDE DEF y
  <2>2. y \notin D
    BY <1>1, <1>2, <2>1
  <2> QED
    BY <2>1, <2>2 DEF y
<1>5. g[m] = h[m]
  BY <1>2, <1>4 DEF Counts
<1> QED
  BY <1>1, <1>5

(* There is one for the numbers up to n.                                   *)
LEMMA CountsExists == \A n \in Nat : \E g \in [0 .. n -> Nat] : Counts(g, n)
<1> DEFINE T == {n \in Nat : \E g \in [0 .. n -> Nat] : Counts(g, n)}
<1>1. 0 \in T
  <2>1. [y \in 0 .. 0 |-> 0] \in [0 .. 0 -> Nat] /\ Counts([y \in 0 .. 0 |-> 0], 0)
    BY DEF Counts
  <2> QED
    BY <2>1
<1>2. ASSUME NEW n \in Nat, n \in T PROVE n + 1 \in T
  <2>1. PICK g \in [0 .. n -> Nat] : Counts(g, n)
    BY <1>2
  <2> DEFINE h == [y \in 0 .. n + 1 |-> IF y = n + 1 THEN 1 + g[(n + 1) \div 2] ELSE g[y]]
  <2>2. (n + 1) \div 2 \in 0 .. n
    BY Half
  <2>3. h \in [0 .. n + 1 -> Nat]
    BY <2>2
  <2>4. ASSUME NEW y \in 0 .. n + 1 PROVE h[y] = IF y = 0 THEN 0 ELSE 1 + h[y \div 2]
    <3>1. CASE y = n + 1
      <4>1. h[y] = 1 + g[(n + 1) \div 2] /\ h[(n + 1) \div 2] = g[(n + 1) \div 2]
        BY <2>2, <3>1
      <4> QED
        BY <3>1, <4>1
    <3>2. CASE y = 0
      BY <2>1, <3>2 DEF Counts
    <3>3. CASE y \in 1 .. n
      <4>1. y \div 2 \in 0 .. n /\ h[y] = g[y]
        BY <3>3, Half
      <4>2. h[y \div 2] = g[y \div 2]
        BY <4>1
      <4>3. g[y] = 1 + g[y \div 2]
        BY <2>1, <3>3 DEF Counts
      <4> QED
        BY <3>3, <4>1, <4>2, <4>3
    <3> QED
      BY <3>1, <3>2, <3>3
  <2>5. Counts(h, n + 1)
    <3> HIDE DEF h
    <3> QED
      BY <2>4 DEF Counts
  <2> HIDE DEF h
  <2> QED
    BY <2>3, <2>5
<1>3. Nat \subseteq T
  <2> HIDE DEF T
  <2> QED
    BY <1>1, <1>2, Induction
<1> QED
  BY <1>3

(* The recursive function that BitCount is defined by exists.              *)
LEMMA BitCountFunction ==
  \E c : /\ \A x : BitCount(x) = c[x]
         /\ c[0] = 0 /\ \A y \in Nat \ {0} : c[y] = 1 + c[y \div 2]
<1> DEFINE Body(c) == [y \in Nat |-> IF y = 0 THEN 0 ELSE 1 + c[y \div 2]]
           C == CHOOSE c : c = Body(c)
           G(n) == CHOOSE g : Counts(g, n)
           d == [y \in Nat |-> G(y)[y]]
<1>1. \A x : BitCount(x) = C[x]
  BY DEF BitCount
<1>2. \A n \in Nat : Counts(G(n), n)
  BY CountsExists
<1>3. ASSUME NEW y \in Nat PROVE d[y] = IF y = 0 THEN 0 ELSE 1 + d[y \div 2]
  <2>1. CASE y = 0
    <3>1. 0 \in Nat /\ 0 \in 0 .. 0 /\ Counts(G(0), 0)
      BY <1>2
    <3> QED
      BY <2>1, <3>1 DEF Counts
  <2>2. CASE y # 0
    <3> DEFINE z == y \div 2
    <3>1. z \in Nat /\ z < y
      BY <2>2, Half
    <3>2. d[y] = G(y)[y] /\ d[z] = G(z)[z]
      BY <3>1
    <3>3. Counts(G(y), y) /\ Counts(G(z), z)
      BY <1>2, <3>1
    <3> HIDE DEF G, d
    <3>4. G(y)[y] = 1 + G(y)[z]
      BY <2>2, <3>3 DEF Counts
    <3> HIDE DEF z
    <3>5. Counts(G(y), z)
      BY <3>1, <3>3 DEF Counts
    <3>6. G(y)[z] = G(z)[z]
      BY <3>1, <3>3, <3>5, CountsAgree
    <3> QED
      BY <2>2, <3>2, <3>4, <3>6 DEF z
  <2> QED
    BY <2>1, <2>2
<1>4. d = Body(d)
  <2>1. d = [y \in Nat |-> d[y]]
    OBVIOUS
  <2> HIDE DEF d
  <2> QED
    BY <1>3, <2>1
<1>5. C = Body(C)
  <2> HIDE DEF Body
  <2> QED
    BY <1>4
<1>6. C[0] = 0 /\ \A y \in Nat \ {0} : C[y] = 1 + C[y \div 2]
  <2> HIDE DEF C
  <2> QED
    BY <1>5
<1> HIDE DEF C
<1> QED
  BY <1>1, <1>6

(* A number has no more bits than the power of two above it says.          *)
LEMMA BitCountIs ==
  ASSUME NEW k \in Numbers, NEW x \in 0 .. 2^k - 1
  PROVE  BitCount(x) \in 0 .. k
<1>1. PICK c : /\ \A y : BitCount(y) = c[y]
               /\ c[0] = 0 /\ \A y \in Nat \ {0} : c[y] = 1 + c[y \div 2]
  BY BitCountFunction
<1> DEFINE m == W * MaxLimbs
           T == {i \in 0 .. m : \A y \in 0 .. 2^i - 1 : c[y] \in 0 .. i}
<1>2. m \in Nat /\ Numbers = 0 .. m
  BY Sizes DEF Numbers
<1>3. \A s \in 0 .. m : 2^(s + 1) = 2 * 2^s /\ 2^s \in Nat
  BY PowersAssumption, Powers2 DEF Numbers
<1> HIDE DEF m
<1>4. 0 \in T
  <2>1. 2^0 = 1
    OBVIOUS
  <2>2. \A y \in 0 .. 2^0 - 1 : c[y] \in 0 .. 0
    BY <1>1, <2>1
  <2> QED
    BY <1>2, <2>2
<1>5. ASSUME NEW i \in 0 .. m - 1, i \in T PROVE i + 1 \in T
  <2>1. i \in 0 .. m /\ i + 1 \in 0 .. m
    BY <1>2
  <2>2. ASSUME NEW y \in 0 .. 2^(i + 1) - 1 PROVE c[y] \in 0 .. i + 1
    <3>1. CASE y = 0
      BY <1>1, <1>2, <3>1
    <3>2. CASE y # 0
      <4> DEFINE p == 2^i
      <4>1. p \in Nat /\ 2^(i + 1) = 2 * p
        BY <1>3, <2>1
      <4> DEFINE z == y \div 2
      <4>2. z \in 0 .. p - 1
        <5> HIDE DEF p
        <5> QED
          BY <3>2, <4>1
      <4>3. c[z] \in 0 .. i
        BY <1>5, <4>2
      <4>4. y \in Nat \ {0}
        <5> HIDE DEF p
        <5> QED
          BY <3>2, <4>1
      <4>5. c[y] = 1 + c[z]
        BY <1>1, <4>4
      <4> QED
        BY <1>2, <4>3, <4>5
    <3> QED
      BY <3>1, <3>2
  <2> QED
    BY <2>1, <2>2
<1>6. 0 .. m \subseteq T
  <2> HIDE DEF T
  <2> QED
    BY <1>2, <1>4, <1>5, InductionTo
<1> QED
  BY <1>1, <1>2, <1>6

(* The bits of a bound are no more than those of its limbs.                *)
LEMMA BoundBits ==
  ASSUME NEW r \in Bounds, r[2] # 0
  PROVE  BitCount(r[1] \div B^(r[2] - 1)) + W * (r[2] - 1) \in Numbers
<1> DEFINE v == r[1]  l == r[2]  low == B^(l - 1)  q == v \div low
<1>1. v \in Nat /\ l \in 1 .. MaxLimbs /\ v < B^l /\ MaxLimbs \in Nat
  BY RequestsAssumption, SizesAssumption
<1>2. W \in Nat \ {0} /\ W \in Numbers /\ B \in Nat \ {0}
  BY Sizes, Powers2 DEF Numbers, B
<1> HIDE DEF v, l
<1>3. l - 1 \in 0 .. MaxLimbs /\ l - 1 \in 0 .. MaxLimbs - 1 /\ l \in 0 .. MaxLimbs /\ (l - 1) + 1 = l
  BY <1>1
<1>4. /\ W * (l - 1) \in Numbers /\ W * l \in Numbers
      /\ W * l = W * (l - 1) + W
      /\ low \in Nat \ {0}
  <2>1. W * l = W * (l - 1) + W
    BY <1>1, <1>2
  <2>2. low = 2^(W * (l - 1))
    BY <1>3, PowersB
  <2> QED
    BY <1>3, <2>1, <2>2, PowersB, Powers2
<1>5. B^l = B * low
  <2>1. B^((l - 1) + 1) = B * B^(l - 1)
    BY <1>3, PowersAssumption
  <2> QED
    BY <1>3, <2>1
<1> HIDE DEF low
<1>6. q \in 0 .. B - 1
  <2> DEFINE s == v % low
  <2>1. v = low * q + s /\ q \in Nat /\ s \in 0 .. low - 1
    BY <1>1, <1>4
  <2> HIDE DEF q, s, B
  <2>2. q < B
    <3> SUFFICES ASSUME q >= B PROVE FALSE
      BY <1>2, <2>1
    <3>1. q - B \in Nat /\ low * (q - B) \in Nat /\ low * (q - B) = low * q - B * low
      BY <1>2, <1>4, <2>1
    <3>2. low * q \in Nat /\ B * low \in Nat
      BY <1>2, <1>4, <2>1
    <3> QED
      BY <1>1, <1>4, <1>5, <2>1, <3>1, <3>2
  <2> QED
    BY <1>2, <2>1, <2>2
<1>7. BitCount(q) \in 0 .. W
  <2> HIDE DEF q
  <2> QED
    BY <1>2, <1>6, BitCountIs DEF B
<1>8. BitCount(q) + W * (l - 1) \in Numbers
  <2> DEFINE m == W * MaxLimbs  a == W * (l - 1)  b == BitCount(q)
  <2>1. m \in Nat /\ a \in 0 .. m /\ a + W \in 0 .. m /\ b \in 0 .. W
    BY <1>2, <1>4, <1>7, Sizes DEF Numbers
  <2> HIDE DEF m, a, b
  <2>2. b + a \in 0 .. m
    BY <1>2, <2>1
  <2> QED
    BY <2>2 DEF Numbers, m, a, b
<1> QED
  BY <1>8 DEF q, low, v, l

(* Nothing that n bits can be is missing.                                  *)
LEMMA OutcomesAre ==
  ASSUME NEW n \in 1 .. W * MaxLimbs, n % W < IntBits
  PROVE  Outcomes[n] = 0 .. 2^n - 1
<1>1. Outcomes[n] = {Masked(x, n) : x \in 0 .. B^LimbsOf(n) - 1}
  BY DEF Outcomes
<1>2. 2^n \in Nat /\ B^LimbsOf(n) \in Nat /\ 2^n <= B^LimbsOf(n)
  <2> DEFINE l == LimbsOf(n)
  <2>1. n \in Numbers /\ l \in 0 .. MaxLimbs
    BY LastLimb, Sizes DEF Numbers
  <2> HIDE DEF l
  <2>2. 2^n \in Nat /\ B^l \in Nat
    BY <2>1, Powers2, PowersB
  <2>3. 2^n <= B^LimbsOf(n)
    BY MaskParts
  <2> QED
    BY <2>2, <2>3 DEF l
<1> DEFINE p == 2^n  s == B^LimbsOf(n)
<1>3. \A x \in 0 .. s - 1 : Masked(x, n) \in 0 .. p - 1
  BY MaskedFits
<1>4. \A v \in 0 .. p - 1 : Masked(v, n) = v
  BY MaskedSame
<1>5. \A v \in 0 .. p - 1 : v \in 0 .. s - 1
  <2>1. p \in Nat /\ s \in Nat /\ p <= s
    BY <1>2
  <2> HIDE DEF p, s
  <2> QED
    BY <2>1
<1>6. Outcomes[n] = {Masked(x, n) : x \in 0 .. s - 1}
  BY <1>1
<1> HIDE DEF p, s
<1>7. Outcomes[n] = 0 .. p - 1
  BY <1>3, <1>4, <1>5, <1>6
<1> QED
  BY <1>7 DEF p

------------------------------------------------------------------------------
(* A job that is idle has sizes.                                           *)
LEMMA IdleSized == SizedAt("idle", NoJob)
  BY DEF SizedAt, NoJob, Filling, Opening

(* At the start.                                                           *)
LEMMA InitSized == Init => Sized
  BY IdleSized DEF Init, Sized

(* A thread moves and all others stay where they are.                      *)
LEMMA StepSized ==
  ASSUME IInv, NEW t \in Threads, NEW to, NEW j, Goto(t, to, j), SizedAt(to, j)
  PROVE  Sized'
<1>1. /\ pc'[t] = to /\ job'[t] = j
      /\ \A u \in Threads \ {t} : pc'[u] = pc[u] /\ job'[u] = job[u]
      /\ UNCHANGED source
  BY DEF IInv, DeviceInv, Shape, Goto, client
<1>2. \A a, k : SizedAt(a, k) => SizedAt(a, k)'
  BY <1>1 DEF SizedAt
<1>3. \A u \in Threads : SizedAt(pc'[u], job'[u])
  BY <1>1 DEF IInv, Sized
<1> QED
  BY <1>1, <1>3 DEF Sized, SizedAt

(* A buffer of a limb is asked for.                                        *)
LEMMA CallBufferSized ==
  ASSUME IInv, NEW t \in Threads, CallInit(t) \/ CallBuf(t)
  PROVE  Sized'
<1>1. PICK f : Local(t, "buf", [NoJob EXCEPT !.fn = f, !.nbits = W])
  BY DEF CallInit, CallBuf
<1> DEFINE j == [NoJob EXCEPT !.fn = f, !.nbits = W]
<1>2. /\ j.fn = f /\ j.nbits = W /\ j.bound = 0 /\ j.rd = 0 /\ j.pos = 0
  BY DEF NoJob
<1>3. W \in 1 .. W * MaxLimbs
  BY Sizes
<1>4. SizedAt("buf", j)
  <2> HIDE DEF j
  <2> QED
    BY <1>2, <1>3, LimbCount DEF SizedAt
<1> QED
  BY <1>1, <1>4, StepSized DEF Local

(* A number of n bits is asked for.                                        *)
LEMMA CallBitsSized == ASSUME IInv, NEW t \in Threads, CallBits(t) PROVE Sized'
<1>1. PICK n \in Bits, object \in BOOLEAN :
        LET j == [NoJob EXCEPT !.fn = "bits", !.nbits = n]
        IN  \/ n > W * MaxLimbs /\ object /\ Local(t, "back", [j EXCEPT !.ret = "refused"])
            \/ n = 0 /\ Local(t, "back", [j EXCEPT !.ret = "ok"])
            \/ n \in 1 .. W * MaxLimbs
               /\ Local(t, "buf", [j EXCEPT !.rd = IF object THEN 0 ELSE B^LimbsOf(n) - 1])
  BY DEF CallBits
<1> DEFINE j == [NoJob EXCEPT !.fn = "bits", !.nbits = n]
<1>2. n \in Nat
  BY RequestsAssumption
<1>3. CASE Local(t, "back", [j EXCEPT !.ret = "refused"])
  <2>1. SizedAt("back", [j EXCEPT !.ret = "refused"])
    BY <1>2 DEF SizedAt, NoJob, Filling, Opening
  <2> QED
    BY <1>3, <2>1, StepSized DEF Local
<1>4. CASE n = 0 /\ Local(t, "back", [j EXCEPT !.ret = "ok"])
  <2>1. 2^0 = 1
    OBVIOUS
  <2>2. SizedAt("back", [j EXCEPT !.ret = "ok"])
    BY <1>2, <1>4, <2>1 DEF SizedAt, NoJob, Filling, Opening
  <2> QED
    BY <1>4, <2>2, StepSized DEF Local
<1>5. CASE /\ n \in 1 .. W * MaxLimbs
           /\ Local(t, "buf", [j EXCEPT !.rd = IF object THEN 0 ELSE B^LimbsOf(n) - 1])
  <2> DEFINE x == IF object THEN 0 ELSE B^LimbsOf(n) - 1
             k == [j EXCEPT !.rd = x]
  <2>1. x \in Nat
    <3>1. LimbsOf(n) \in 0 .. MaxLimbs
      BY <1>5, LimbCount
    <3> DEFINE l == LimbsOf(n)
    <3> HIDE DEF j, l
    <3>2. l \in 0 .. MaxLimbs
      BY <3>1 DEF l
    <3>3. B^l \in Nat \ {0}
      BY <3>2, PowersB, Powers2
    <3> QED
      BY <3>3 DEF l
  <2> HIDE DEF x
  <2>2. /\ k.fn = "bits" /\ k.nbits = n /\ k.bound = 0 /\ k.rd = x /\ k.pos = 0
    BY DEF NoJob
  <2>3. SizedAt("buf", k)
    <3> HIDE DEF k
    <3> QED
      BY <1>2, <1>5, <2>1, <2>2, LimbCount DEF SizedAt
  <2>4. Local(t, "buf", k)
    BY <1>5 DEF x
  <2> QED
    BY <2>3, <2>4, StepSized DEF Local
<1> QED
  BY <1>1, <1>3, <1>4, <1>5

(* r[1] is the bound and r[2] its limb count.                              *)
LEMMA CallRangeSized == ASSUME IInv, NEW t \in Threads, CallRange(t) PROVE Sized'
<1>1. PICK r \in Bounds :
        LET n == BitCount(r[1] \div B^(r[2] - 1)) + W * (r[2] - 1)
            j == [NoJob EXCEPT !.fn = "range", !.bound = r[1]]
        IN  IF r[2] = 0 THEN Local(t, "back", [j EXCEPT !.ret = "ok"])
            ELSE Local(t, "try", [j EXCEPT !.nbits = n, !.count = Tries])
  BY DEF CallRange
<1> DEFINE n == BitCount(r[1] \div B^(r[2] - 1)) + W * (r[2] - 1)
           j == [NoJob EXCEPT !.fn = "range", !.bound = r[1]]
<1>2. r[1] \in Nat /\ r[2] \in 0 .. MaxLimbs /\ r[1] < B^r[2]
  BY RequestsAssumption
<1>3. CASE r[2] = 0
  <2>1. r[1] = 0
    BY <1>2, <1>3, PowersAssumption
  <2>2. 2^0 = 1
    OBVIOUS
  <2>3. SizedAt("back", [j EXCEPT !.ret = "ok"])
    BY <2>1, <2>2 DEF SizedAt, NoJob, Filling, Opening
  <2> QED
    BY <1>1, <1>3, <2>3, StepSized DEF Local
<1>4. CASE r[2] # 0
  <2> DEFINE k == [j EXCEPT !.nbits = n, !.count = Tries]
  <2>1. n \in Numbers
    BY <1>4, BoundBits
  <2>2. Local(t, "try", k)
    BY <1>1, <1>4
  <2> HIDE DEF n
  <2>3. k.fn = "range" /\ k.nbits = n /\ k.bound = r[1] /\ k.rd = 0
    BY DEF NoJob
  <2>4. SizedAt("try", k)
    <3> HIDE DEF k
    <3> QED
      BY <1>2, <2>1, <2>3 DEF SizedAt, Numbers, Filling, Opening
  <2> QED
    BY <2>2, <2>4, StepSized DEF Local
<1> QED
  BY <1>3, <1>4

(* An attempt begins, or there is none left.                               *)
LEMMA TrySized == ASSUME IInv, NEW t \in Threads, Try(t) PROVE Sized'
<1> DEFINE j == [job[t] EXCEPT !.count = @ - 1, !.pos = 0]
<1>1. pc[t] = "try" /\ JobOK(job[t]) /\ SizedAt("try", job[t])
  BY DEF Try, IInv, DeviceInv, Shape, Sized
<1>2. JobOK(j) /\ j.nbits = job[t].nbits /\ j.rd = job[t].rd /\ j.bound = job[t].bound /\ j.pos = 0
  BY <1>1 DEF JobOK
<1>3. j.nbits \in Numbers /\ j.nbits \in Nat /\ j.rd \in Nat /\ j.bound \in Nat /\ (j.nbits = 0 => j.rd = 0)
  BY <1>1, <1>2 DEF SizedAt, Numbers
<1>4. 2^j.nbits \in Nat \ {0} /\ 2^0 = 1
  <2> DEFINE n == j.nbits
  <2>1. n \in Numbers
    BY <1>3
  <2> HIDE DEF n
  <2>2. 2^n \in Nat \ {0}
    BY <2>1, Powers2
  <2> QED
    BY <2>2 DEF n
<1>5. \/ Local(t, "back", [j EXCEPT !.rd = 0, !.ret = "none left"])
      \/ j.nbits = 0 /\ Local(t, "compare", [j EXCEPT !.ret = "ok"])
      \/ j.nbits # 0 /\ Local(t, "buf", j)
  BY DEF Try
<1> HIDE DEF j
<1>6. CASE Local(t, "back", [j EXCEPT !.rd = 0, !.ret = "none left"])
  <2> DEFINE k == [j EXCEPT !.rd = 0, !.ret = "none left"]
  <2>1. k.rd = 0 /\ k.ret = "none left" /\ k.nbits = j.nbits /\ k.bound = j.bound
    BY <1>2 DEF JobOK
  <2>2. SizedAt("back", k)
    <3> HIDE DEF k
    <3>1. 2^k.nbits \in Nat \ {0}
      BY <1>4, <2>1
    <3>2. k.nbits \in Nat /\ k.rd \in Nat /\ k.bound \in Nat /\ k.rd < 2^k.nbits
      <4>1. k.nbits \in Nat /\ k.rd = 0 /\ k.bound \in Nat
        BY <1>3, <2>1
      <4> DEFINE p == 2^k.nbits
      <4>2. p \in Nat \ {0}
        BY <3>1
      <4> HIDE DEF p
      <4>3. 0 < p
        BY <4>2
      <4> QED
        BY <4>1, <4>3 DEF p
    <3> QED
      BY <2>1, <3>2 DEF SizedAt, Filling, Opening
  <2> QED
    BY <1>6, <2>2, StepSized DEF Local
<1>7. CASE j.nbits = 0 /\ Local(t, "compare", [j EXCEPT !.ret = "ok"])
  <2> DEFINE k == [j EXCEPT !.ret = "ok"]
  <2>1. k.rd = 0 /\ k.ret = "ok" /\ k.nbits = 0 /\ k.bound = j.bound
    BY <1>2, <1>3, <1>7 DEF JobOK
  <2>2. SizedAt("compare", k)
    <3> HIDE DEF k
    <3>1. 2^k.nbits = 1
      BY <2>1, <1>4
    <3> QED
      BY <1>3, <2>1, <3>1, Sizes DEF SizedAt, Filling, Opening
  <2> QED
    BY <1>7, <2>2, StepSized DEF Local
<1>8. CASE j.nbits # 0 /\ Local(t, "buf", j)
  <2>1. SizedAt("buf", j)
    <3>1. j.nbits \in 1 .. W * MaxLimbs /\ SizeOf(j.nbits) \in Nat
      BY <1>3, <1>8, LimbCount, Sizes DEF Numbers
    <3> QED
      BY <1>2, <1>3, <3>1 DEF SizedAt, Filling, Opening
  <2> QED
    BY <1>8, <2>1, StepSized DEF Local
<1> QED
  BY <1>5, <1>6, <1>7, <1>8

(* ll_rand_buf begins: the buffer stays as it is.                          *)
LEMMA BufSized == ASSUME IInv, NEW t \in Threads, Buf(t) PROVE Sized'
<1>1. pc[t] = "buf" /\ SizedAt("buf", job[t])
  BY DEF Buf, IInv, Sized
<1>2. Local(t, "open", job[t]) \/ Local(t, "fill", job[t])
  BY DEF Buf
<1>3. SizedAt("open", job[t]) /\ SizedAt("fill", job[t])
  BY <1>1 DEF SizedAt, Filling, Opening
<1> QED
  BY <1>2, <1>3, StepSized DEF Local

(* The steps that open the device leave the buffer as it is, too.          *)
LEMMA DeviceSized ==
  ASSUME IInv, NEW t \in Threads, Open(t) \/ OpenDone(t)
  PROVE  Sized'
<1>1. pc[t] \in Opening /\ SizedAt(pc[t], job[t]) /\ JobOK(job[t])
  BY DEF Open, OpenDone, IInv, DeviceInv, Shape, Sized, Opening
<1>2. PICK to \in Opening \cup {"fill"} :
        Goto(t, to, job[t]) \/ Goto(t, to, [job[t] EXCEPT !.new = opened + 1])
  BY DEF Open, OpenDone, StoreDescriptor, StoreFlag, Opening
<1>3. SizedAt(to, job[t])
  BY <1>1, <1>2 DEF SizedAt, Filling, Opening
<1>4. SizedAt(to, [job[t] EXCEPT !.new = opened + 1])
  <2> DEFINE j == [job[t] EXCEPT !.new = opened + 1]
  <2>1. /\ j.nbits = job[t].nbits /\ j.pos = job[t].pos /\ j.rd = job[t].rd /\ j.bound = job[t].bound
        /\ to \notin {"drawn", "try", "compare", "back", "overrun"}
    BY <1>1, <1>2 DEF JobOK, Opening
  <2> HIDE DEF j
  <2> QED
    BY <1>3, <2>1 DEF SizedAt, j
<1> QED
  BY <1>2, <1>3, <1>4, StepSized

(* n bytes have arrived.                                                   *)
LEMMA ReceiveSized ==
  ASSUME IInv, NEW t \in Threads, pc[t] = "fill", NEW n \in Nat, Receive(t, n),
         source = "getrandom" => job[t].pos + n <= SizeOf(job[t].nbits),
         source \in {"getrandom", "urandom"}
  PROVE  Sized'
<1> DEFINE j == [job[t] EXCEPT !.pos = @ + n]
<1>1. SizedAt("fill", job[t]) /\ JobOK(job[t])
  BY DEF IInv, DeviceInv, Shape, Sized
<1>2. /\ j.pos = job[t].pos + n /\ j.nbits = job[t].nbits /\ j.rd = job[t].rd /\ j.bound = job[t].bound
  BY <1>1 DEF JobOK
<1>3. job[t].pos \in Nat /\ SizeOf(j.nbits) \in Nat /\ j.nbits \in 1 .. W * MaxLimbs
  BY <1>1, <1>2, LimbCount DEF SizedAt, Filling
<1>4. Local(t, IF j.pos > SizeOf(j.nbits) THEN "overrun" ELSE "fill", j)
  BY DEF Receive
<1> HIDE DEF j
<1>5. CASE j.pos > SizeOf(j.nbits)
  <2>1. source = "urandom"
    BY <1>2, <1>3, <1>5
  <2>2. SizedAt("overrun", j)
    BY <1>1, <1>2, <2>1 DEF SizedAt, Filling, Opening
  <2> QED
    BY <1>4, <1>5, <2>2, StepSized DEF Local
<1>6. CASE ~(j.pos > SizeOf(j.nbits))
  <2>1. SizedAt("fill", j)
    BY <1>1, <1>2, <1>3, <1>6 DEF SizedAt, Filling, Opening
  <2> QED
    BY <1>4, <1>6, <2>1, StepSized DEF Local
<1> QED
  BY <1>5, <1>6

(* The filling ends.                                                       *)
LEMMA FinishSized ==
  ASSUME IInv, NEW t \in Threads, pc[t] = "fill", NEW r \in {"ok", "end", "failed"},
         Finish(t, r), r = "ok" => job[t].pos = SizeOf(job[t].nbits)
  PROVE  Sized'
<1> DEFINE j == [job[t] EXCEPT !.ret = r]
<1>1. SizedAt("fill", job[t]) /\ JobOK(job[t])
  BY DEF IInv, DeviceInv, Shape, Sized
<1>2. /\ j.ret = r /\ j.pos = job[t].pos /\ j.nbits = job[t].nbits
      /\ j.rd = job[t].rd /\ j.bound = job[t].bound
  BY <1>1 DEF JobOK
<1>3. Local(t, "drawn", j)
  BY DEF Finish
<1> HIDE DEF j
<1>4. SizedAt("drawn", j)
  BY <1>1, <1>2 DEF SizedAt, Filling, Opening
<1> QED
  BY <1>3, <1>4, StepSized DEF Local

(* getrandom answers.                                                      *)
LEMMA GetRandomSized == ASSUME IInv, NEW t \in Threads, GetRandom(t) PROVE Sized'
<1>1. pc[t] = "fill" /\ source = "getrandom" /\ SizedAt("fill", job[t])
  BY DEF GetRandom, IInv, Sized
<1>2. ASSUME NEW n \in 1 .. Asked(t), Receive(t, n) PROVE Sized'
  <2>1. /\ job[t].nbits \in 1 .. W * MaxLimbs
        /\ job[t].pos \in Nat /\ SizeOf(job[t].nbits) \in Nat
    BY <1>1, LimbCount DEF SizedAt, Filling
  <2>2. n \in Nat /\ job[t].pos + n <= SizeOf(job[t].nbits)
    BY <1>2, <2>1 DEF Asked
  <2> QED
    BY <1>1, <1>2, <2>2, ReceiveSized
<1>3. CASE job[t].pos = SizeOf(job[t].nbits) /\ Finish(t, "ok")
  BY <1>1, <1>3, FinishSized
<1>4. CASE Finish(t, "failed")
  BY <1>1, <1>4, FinishSized
<1> QED
  BY <1>2, <1>3, <1>4 DEF GetRandom

(* read answers; a full buffer is the end.                                 *)
LEMMA ReadDeviceSized == ASSUME IInv, NEW t \in Threads, ReadDevice(t) PROVE Sized'
<1>1. pc[t] = "fill" /\ source = "urandom" /\ SizedAt("fill", job[t]) /\ JobOK(job[t])
  BY DEF ReadDevice, IInv, DeviceInv, Shape, Sized
<1>2. job[t].nbits \in 1 .. W * MaxLimbs /\ SizeOf(job[t].nbits) \in Nat
  BY <1>1, LimbCount DEF SizedAt, Filling
<1>3. ASSUME NEW n \in 1 .. SizeOf(job[t].nbits), job[t].pos + n = SizeOf(job[t].nbits),
             Local(t, "drawn", [job[t] EXCEPT !.pos = @ + n, !.ret = "ok"])
      PROVE  Sized'
  <2> DEFINE j == [job[t] EXCEPT !.pos = @ + n, !.ret = "ok"]
  <2>1. /\ j.ret = "ok" /\ j.pos = SizeOf(j.nbits) /\ j.nbits = job[t].nbits
        /\ j.rd = job[t].rd /\ j.bound = job[t].bound
    BY <1>1, <1>3 DEF JobOK
  <2>2. Local(t, "drawn", j)
    BY <1>3
  <2> HIDE DEF j
  <2>3. SizedAt("drawn", j)
    BY <1>1, <1>2, <2>1 DEF SizedAt, Filling, Opening
  <2> QED
    BY <2>2, <2>3, StepSized DEF Local
<1>4. ASSUME NEW n \in 1 .. SizeOf(job[t].nbits), Receive(t, n) PROVE Sized'
  BY <1>1, <1>2, <1>4, ReceiveSized
<1>5. CASE Finish(t, "end") \/ Finish(t, "failed")
  BY <1>1, <1>5, FinishSized
<1> QED
  BY <1>3, <1>4, <1>5 DEF ReadDevice

(* The upper bits are cleared.                                             *)
LEMMA MaskSized == ASSUME IInv, NEW t \in Threads, Mask(t) PROVE Sized'
<1>1. /\ pc[t] = "drawn" /\ job[t].fn \in {"bits", "range"}
      /\ SizedAt("drawn", job[t]) /\ JobOK(job[t])
  BY DEF Mask, Draws, IInv, DeviceInv, Shape, Sized
<1>2. PICK y \in Drawn(job[t].rd, job[t].pos) :
        Local(t, IF job[t].fn = "range" /\ job[t].ret # "failed" THEN "compare" ELSE "back",
              [job[t] EXCEPT !.rd = Masked(y, job[t].nbits)])
  BY DEF Mask
<1> DEFINE n == job[t].nbits
           x == Masked(y, n)
           j == [job[t] EXCEPT !.rd = x]
<1>3. n \in 1 .. W * MaxLimbs /\ job[t].pos \in 0 .. SizeOf(n) /\ job[t].rd \in Nat
  BY <1>1 DEF SizedAt, Filling
<1>4. y \in Nat
  <2> HIDE DEF n
  <2> QED
    BY <1>3, DrawnIs
<1>5. x \in 0 .. 2^n - 1
  <2> HIDE DEF n
  <2> QED
    BY <1>3, <1>4, MaskedFits
<1>6. 2^n \in Nat /\ n \in Nat
  <2> HIDE DEF n
  <2> QED
    BY <1>3, Powers2, Sizes DEF Numbers
<1>7. Local(t, IF job[t].fn = "range" /\ job[t].ret # "failed" THEN "compare" ELSE "back", j)
  BY <1>2
<1> HIDE DEF x
<1>8. /\ j.rd = x /\ j.nbits = n /\ j.ret = job[t].ret /\ j.bound = job[t].bound
      /\ j.fn = job[t].fn
  BY <1>1 DEF JobOK
<1> HIDE DEF j
<1>9. job[t].ret \in {"ok", "end", "failed"} /\ job[t].bound \in Nat
  BY <1>1 DEF SizedAt
<1>10. x \in Nat /\ x < 2^n
  BY <1>5, <1>6
<1> HIDE DEF n
<1>11. x < 2^j.nbits
  BY <1>8, <1>10
<1>12. n \in Numbers /\ n # 0
  BY <1>3 DEF Numbers
<1>13. CASE job[t].fn = "range" /\ job[t].ret # "failed"
  <2>1. SizedAt("compare", j)
    BY <1>6, <1>8, <1>9, <1>10, <1>11, <1>12, <1>13 DEF SizedAt, Filling, Opening, Numbers
  <2> QED
    BY <1>7, <1>13, <2>1, StepSized DEF Local
<1>14. CASE ~(job[t].fn = "range" /\ job[t].ret # "failed")
  <2>1. SizedAt("back", j)
    BY <1>6, <1>8, <1>9, <1>10, <1>11, <1>12, <1>14 DEF SizedAt, Filling, Opening, Numbers
  <2> QED
    BY <1>7, <1>14, <2>1, StepSized DEF Local
<1> QED
  BY <1>13, <1>14

(* The number is compared with the bound.                                  *)
LEMMA CompareSized == ASSUME IInv, NEW t \in Threads, Compare(t) PROVE Sized'
<1>1. pc[t] = "compare" /\ SizedAt("compare", job[t])
  BY DEF Compare, IInv, Sized
<1>2. CASE job[t].rd < job[t].bound
  <2>1. SizedAt("back", job[t])
    BY <1>1, <1>2 DEF SizedAt, Filling, Opening
  <2> QED
    BY <1>2, <2>1, StepSized DEF Compare, Local
<1>3. CASE ~(job[t].rd < job[t].bound)
  <2>1. SizedAt("try", job[t])
    BY <1>1 DEF SizedAt, Filling, Opening
  <2> QED
    BY <1>3, <2>1, StepSized DEF Compare, Local
<1> QED
  BY <1>2, <1>3

(* The thread is idle again.                                               *)
LEMMA IdleAgainSized ==
  ASSUME IInv, NEW t \in Threads, Goto(t, "idle", NoJob)
  PROVE  Sized'
  BY IdleSized, StepSized

(* Nothing that a call has changes.                                        *)
LEMMA StaysSized == ASSUME IInv, UNCHANGED <<source, pc, job>> PROVE Sized'
<1>1. \A a, k : SizedAt(a, k) => SizedAt(a, k)'
  BY DEF SizedAt
<1> QED
  BY <1>1 DEF IInv, Sized

(* Buffers have room and numbers have the bits they should, always.        *)
THEOREM InductiveInvariant == Spec => []IInv
<1>1. ASSUME IInv, [Next]_vars PROVE Sized'
  <2>1. CASE UNCHANGED vars
    BY <1>1, <2>1, StaysSized DEF vars, client
  <2>2. ASSUME NEW t \in Threads,
               \/ CallInit(t) \/ CallBuf(t) \/ CallBits(t) \/ CallRange(t)
               \/ Advance(t) \/ OpenFails(t)
        PROVE  Sized'
    <3>1. CASE CallInit(t) \/ CallBuf(t) \/ CallBits(t) \/ CallRange(t)
      BY <1>1, <3>1, CallBufferSized, CallBitsSized, CallRangeSized
    <3>2. CASE Try(t) \/ Mask(t) \/ Compare(t)
      BY <1>1, <3>2, TrySized, MaskSized, CompareSized
    <3>3. CASE Buf(t) \/ Open(t) \/ OpenDone(t) \/ GetRandom(t) \/ ReadDevice(t)
      BY <1>1, <3>3, BufSized, DeviceSized, GetRandomSized, ReadDeviceSized
    <3>4. CASE InitDone(t)
      BY <1>1, <3>4, IdleAgainSized, StaysSized DEF InitDone, client
    <3>5. CASE Return(t)
      BY <1>1, <3>5, IdleAgainSized DEF Return, Local
    <3>6. CASE OpenFails(t)
      BY <1>1, <3>6, StaysSized DEF OpenFails, client
    <3> QED
      BY <2>2, <3>1, <3>2, <3>3, <3>4, <3>5, <3>6 DEF Advance
  <2> QED
    BY <1>1, <2>1, <2>2 DEF Next
<1> QED
  BY <1>1, InitSized, DeviceInvariant, PTL DEF Spec, IInv

(* Every byte of a buffer that ll_rand_buf calls filled came from the      *)
(* system, and getrandom writes none behind it.                            *)
THEOREM BuffersAreFilled == Spec => []BufferFilled
<1>1. IInv => BufferFilled
  BY DEF IInv, Sized, SizedAt, BufferFilled
<1> QED
  BY <1>1, InductiveInvariant, PTL

(* Numbers have the bits that were asked for and are below their bound.    *)
THEOREM NumbersFit == Spec => []NumbersInRange
<1>1. IInv => NumbersInRange
  BY DEF IInv, Sized, SizedAt, NumbersInRange
<1> QED
  BY <1>1, InductiveInvariant, PTL

(* All numbers of n bits can come out of a full buffer, for every n whose  *)
(* top limb has fewer bits than an int, or all of them.                    *)
THEOREM NoneMissing == Spec => []NothingMissing
<1>1. IInv => NothingMissing
  <2> SUFFICES ASSUME IInv, NEW t \in Threads, Draws(t), job[t].nbits % W < IntBits
               PROVE  Outcomes[job[t].nbits] = 0 .. 2^job[t].nbits - 1
    BY DEF NothingMissing
  <2>1. job[t].nbits \in 1 .. W * MaxLimbs
    BY DEF IInv, Sized, SizedAt, Draws, Filling
  <2> QED
    BY <2>1, OutcomesAre
<1> QED
  BY <1>1, InductiveInvariant, PTL
==============================================================================
