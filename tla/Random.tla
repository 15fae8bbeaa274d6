------------------------------- MODULE Random -------------------------------
(***************************************************************************)
(* src/src/ll/ll_sys_rand.c, ll_rand.c and fp256_rand.c: bytes from the    *)
(* system, with getrandom or through a descriptor of /dev/urandom that the *)
(* first caller opens; numbers of so many bits; numbers below a bound by   *)
(* rejection.  The kernel answers as it likes: with fewer bytes than asked *)
(* for, with an interruption, with an error, with the end of the file.     *)
(*                                                                         *)
(* A number that is filled in is the bytes it had, with the bytes received *)
(* in the lower places replaced; they are drawn when the filling ends.     *)
(***************************************************************************)
EXTENDS Integers

CONSTANTS
  Threads,     \* the threads that call ll_rand_buf and fp256_init
  Drawers,     \* those of them that ask for numbers
  Sources,     \* the builds: "getrandom", "urandom"
  Policies,    \* "ready": a client that calls fp256_init first; "any"
  ByteBits,    \* bits of a byte
  LimbBytes,   \* bytes of a limb; an int has half as many
  MaxLimbs,    \* limbs of an object, 4 in the code
  Tries,       \* the attempts of ll_rand_range, counted from 50 in the code
  Bits,        \* the numbers of bits that are asked for
  Bounds       \* the bounds that are asked for, with their limb counts

W == ByteBits * LimbBytes
IntBits == W \div 2
B == 2^W

ASSUME SizesAssumption ==
  /\ ByteBits \in Nat \ {0} /\ LimbBytes \in Nat \ {0} /\ LimbBytes % 2 = 0
  /\ MaxLimbs \in Nat \ {0} /\ Tries \in Nat \ {0}
ASSUME RequestsAssumption ==
  /\ Sources \subseteq {"getrandom", "urandom"} /\ Policies \subseteq {"ready", "any"}
  /\ Drawers \subseteq Threads /\ Bits \subseteq Nat /\ Bounds \subseteq Nat \X (0 .. MaxLimbs)
  /\ \A r \in Bounds : r[1] < B^r[2]

(* The powers that are needed, for the proofs: tlapm does not know how a    *)
(* power follows from the one before.                                       *)
ASSUME PowersAssumption ==
  /\ \A s \in 0 .. W * MaxLimbs : 2^(s + 1) = 2 * 2^s
  /\ B^0 = 1 /\ \A k \in 0 .. MaxLimbs - 1 : B^(k + 1) = B * B^k

VARIABLES
  source, policy,   \* the build and the client; they never change
  fd,               \* static int fd; 0, standard input, before it is stored
  initialized,      \* static int initialized
  opened,           \* descriptors opened so far
  up,               \* an fp256_init has returned
  dead,             \* abort() was called
  pc,               \* pc[t]: the next step of t
  job               \* job[t]: the call of t and its local variables

vars == <<source, policy, fd, initialized, opened, up, dead, pc, job>>
client == <<source, policy>>
device == <<fd, initialized, opened>>

LimbsOf(nbits) == ((nbits - 1) \div W) + 1
SizeOf(nbits) == LimbBytes * LimbsOf(nbits)

(* ll_num_bits *)
BitCount(x) == LET c[y \in Nat] == IF y = 0 THEN 0 ELSE 1 + c[y \div 2] IN c[x]

NoJob == [fn |-> "none", nbits |-> 0, bound |-> 0, rd |-> 0, count |-> 0,
          pos |-> 0, new |-> 0, ret |-> "none"]

Init ==
  /\ source \in Sources /\ policy \in Policies
  /\ fd = 0 /\ initialized = 0 /\ opened = 0
  /\ up = FALSE /\ dead = FALSE
  /\ pc = [t \in Threads |-> "idle"]
  /\ job = [t \in Threads |-> NoJob]

(* t goes on at "to" with the job j. *)
Goto(t, to, j) ==
  /\ ~dead
  /\ pc' = [pc EXCEPT ![t] = to]
  /\ job' = [job EXCEPT ![t] = j]
  /\ UNCHANGED client

(* t goes on, and touches none of what the threads share.                  *)
Local(t, to, j) == Goto(t, to, j) /\ UNCHANGED <<device, up, dead>>

(* The values that x may have after its first i bytes were drawn.          *)
Drawn(x, i) == LET f == 2^(ByteBits * i) IN {(x \div f) * f + v : v \in 0 .. f - 1}

------------------------------------------------------------------------------
MayCall(t) == pc[t] = "idle" /\ (policy = "ready" => up)

(* fp256_init fills one buffer with the section held; ll_rand_buf may be   *)
(* called by itself.                                                       *)
CallInit(t) ==
  /\ pc[t] = "idle"
  /\ \A u \in Threads : job[u].fn # "init"
  /\ Local(t, "buf", [NoJob EXCEPT !.fn = "init", !.nbits = W])

CallBuf(t) == MayCall(t) /\ Local(t, "buf", [NoJob EXCEPT !.fn = "buf", !.nbits = W])

(* Numbers are asked for after fp256_init, as a bound of the model: a race *)
(* for the device is one of buffers.                                       *)
(* An object is cleared first, an array keeps what it had.  Too many bits  *)
(* for an object are refused, no bits are no work.                         *)
CallBits(t) ==
  /\ t \in Drawers /\ pc[t] = "idle" /\ up
  /\ \E n \in Bits, object \in BOOLEAN :
       LET j == [NoJob EXCEPT !.fn = "bits", !.nbits = n]
       IN  \/ n > W * MaxLimbs /\ object /\ Local(t, "back", [j EXCEPT !.ret = "refused"])
           \/ n = 0 /\ Local(t, "back", [j EXCEPT !.ret = "ok"])
           \/ n \in 1 .. W * MaxLimbs
              /\ Local(t, "buf", [j EXCEPT !.rd = IF object THEN 0 ELSE B^LimbsOf(n) - 1])

(* ll_rand_range for an object: the bits of the bound are those of its top *)
(* limb and of the limbs below, by the limb count of the object.           *)
CallRange(t) ==
  /\ t \in Drawers /\ pc[t] = "idle" /\ up
  /\ \E r \in Bounds :
       LET n == BitCount(r[1] \div B^(r[2] - 1)) + W * (r[2] - 1)
           j == [NoJob EXCEPT !.fn = "range", !.bound = r[1]]
       IN  IF r[2] = 0 THEN Local(t, "back", [j EXCEPT !.ret = "ok"])
           ELSE Local(t, "try", [j EXCEPT !.nbits = n, !.count = Tries])

(* Mutant of Try: the attempts are not counted.                           *)
TryAgain(t) ==
  /\ pc[t] = "try"
  /\ IF job[t].nbits = 0 THEN Local(t, "compare", [job[t] EXCEPT !.ret = "ok"])
     ELSE Local(t, "buf", [job[t] EXCEPT !.pos = 0])

(* One attempt; the last of the count is not made.  A bound that is zero   *)
(* in spite of its limb count asks for no bits.                            *)
Try(t) ==
  /\ pc[t] = "try"
  /\ LET j == [job[t] EXCEPT !.count = @ - 1, !.pos = 0]
     IN  IF j.count = 0 THEN Local(t, "back", [j EXCEPT !.rd = 0, !.ret = "none left"])
         ELSE IF j.nbits = 0 THEN Local(t, "compare", [j EXCEPT !.ret = "ok"])
         ELSE Local(t, "buf", j)

------------------------------------------------------------------------------
(* ll_rand_buf: whether the device is open is an unguarded static.         *)
Buf(t) ==
  /\ pc[t] = "buf"
  /\ Local(t, IF source = "urandom" /\ initialized = 0 THEN "open" ELSE "fill", job[t])

Open(t) ==
  /\ pc[t] = "open"
  /\ Goto(t, "opened", [job[t] EXCEPT !.new = opened + 1])
  /\ opened' = opened + 1
  /\ UNCHANGED <<fd, initialized, up, dead>>

OpenFails(t) ==
  /\ pc[t] = "open" /\ ~dead
  /\ dead' = TRUE
  /\ UNCHANGED <<client, device, up, pc, job>>

StoreDescriptor(t, to) ==
  fd' = job[t].new /\ UNCHANGED initialized /\ Goto(t, to, job[t])

StoreFlag(t, to) ==
  initialized' = 1 /\ UNCHANGED fd /\ Goto(t, to, job[t])

(* Mutant of OpenDone: nobody sets the flag.                               *)
OpenDoneUnmarked(t) ==
  /\ pc[t] = "opened" /\ StoreDescriptor(t, "fill")
  /\ UNCHANGED <<opened, up, dead>>

(* fd and initialized are two plain stores, in the order the compiler      *)
(* likes: another thread may see either of them alone.                     *)
OpenDone(t) ==
  /\ \/ pc[t] = "opened" /\ (StoreDescriptor(t, "flag") \/ StoreFlag(t, "descriptor"))
     \/ pc[t] = "flag" /\ StoreFlag(t, "fill")
     \/ pc[t] = "descriptor" /\ StoreDescriptor(t, "fill")
  /\ UNCHANGED <<opened, up, dead>>

(* n bytes have arrived, at the end of those received before.              *)
Receive(t, n) ==
  LET j == [job[t] EXCEPT !.pos = @ + n]
  IN  Local(t, IF j.pos > SizeOf(j.nbits) THEN "overrun" ELSE "fill", j)

Finish(t, r) == Local(t, "drawn", [job[t] EXCEPT !.ret = r])

(* How many bytes getrandom is asked for.                                  *)
AskedAll(t) == SizeOf(job[t].nbits)     \* a mutant: always for all
Asked(t) == SizeOf(job[t].nbits) - job[t].pos

(* buflen is reduced when the next answer is asked for, so a full buffer   *)
(* is followed by one more call, for no bytes, whose failure fails the     *)
(* whole.  EINTR and EAGAIN change nothing.                                *)
GetRandom(t) ==
  /\ pc[t] = "fill" /\ source = "getrandom"
  /\ \/ \E n \in 1 .. Asked(t) : Receive(t, n)
     \/ job[t].pos = SizeOf(job[t].nbits) /\ Finish(t, "ok")
     \/ Finish(t, "failed")

(* read is asked for the whole buffer however much of it is missing; the   *)
(* end of the file is no error.                                            *)
ReadDevice(t) ==
  /\ pc[t] = "fill" /\ source = "urandom"
  /\ \/ \E n \in 1 .. SizeOf(job[t].nbits) :
          IF job[t].pos + n = SizeOf(job[t].nbits)
          THEN Local(t, "drawn", [job[t] EXCEPT !.pos = @ + n, !.ret = "ok"])
          ELSE Receive(t, n)
     \/ Finish(t, "end") \/ Finish(t, "failed")

------------------------------------------------------------------------------
(* Mutant of Masked: one bit less than asked for.                          *)
MaskedShort(x, nbits) ==
  LET low == B^(LimbsOf(nbits) - 1)  b == nbits % W
  IN  (x % low) + ((x \div low) % (IF b = 0 THEN B ELSE 2^(b - 1))) * low

(* The upper bits of the top limb are cleared.  (1 << b) - 1 is an int:    *)
(* processors shift it by b modulo the bits of an int.                     *)
Masked(x, nbits) ==
  LET low == B^(LimbsOf(nbits) - 1)  b == nbits % W
  IN  (x % low) + ((x \div low) % (IF b = 0 THEN B ELSE 2^(b % IntBits))) * low

(* What can become of n bits, if all the bytes are random.                 *)
Outcomes == [n \in 1 .. W * MaxLimbs |->
               {Masked(x, n) : x \in 0 .. B^LimbsOf(n) - 1}]

Draws(t) == pc[t] = "drawn" /\ job[t].fn \in {"bits", "range"}

(* Mutant of Mask: after an error the number is left as it is.             *)
MaskOnSuccess(t) ==
  LET j == job[t]
  IN  /\ Draws(t)
      /\ \E y \in Drawn(j.rd, j.pos) :
           Local(t, IF j.fn = "range" /\ j.ret # "failed" THEN "compare" ELSE "back",
                 [j EXCEPT !.rd = IF j.ret = "failed" THEN y ELSE Masked(y, j.nbits)])

(* ll_rand_bits masks what it has got, whether there was an error or not.  *)
Mask(t) ==
  LET j == job[t]
  IN  /\ Draws(t)
      /\ \E x \in {Masked(y, j.nbits) : y \in Drawn(j.rd, j.pos)} :
           Local(t, IF j.fn = "range" /\ j.ret # "failed" THEN "compare" ELSE "back",
                 [j EXCEPT !.rd = x])

Compare(t) ==
  /\ pc[t] = "compare"
  /\ Local(t, IF job[t].rd < job[t].bound THEN "back" ELSE "try", job[t])

(* fp256_init: no random numbers, no library.                              *)
InitDone(t) ==
  /\ pc[t] = "drawn" /\ job[t].fn = "init" /\ ~dead
  /\ IF job[t].ret = "failed" THEN dead' = TRUE /\ UNCHANGED <<client, up, pc, job>>
     ELSE up' = TRUE /\ Goto(t, "idle", NoJob) /\ UNCHANGED dead
  /\ UNCHANGED device

Return(t) ==
  /\ pc[t] = "back" \/ (pc[t] = "drawn" /\ job[t].fn = "buf")
  /\ Local(t, "idle", NoJob)

(* The steps of a call; the kernel does not answer for ever with EINTR.    *)
Advance(t) ==
  \/ Try(t) \/ Buf(t) \/ Open(t) \/ OpenDone(t)
  \/ GetRandom(t) \/ ReadDevice(t)
  \/ Mask(t) \/ Compare(t) \/ InitDone(t) \/ Return(t)

Next ==
  \E t \in Threads :
    \/ CallInit(t) \/ CallBuf(t) \/ CallBits(t) \/ CallRange(t)
    \/ Advance(t) \/ OpenFails(t)

Spec == Init /\ [][Next]_vars /\ \A t \in Threads : WF_vars(Advance(t))

------------------------------------------------------------------------------
(* FP256_OK of ll_rand_buf means that every byte of the buffer came from   *)
(* the system, whatever the short answers, and getrandom never writes      *)
(* behind the buffer, whatever it answers.  The device is read past the    *)
(* end after a short answer, and its end of file is taken for success      *)
(* (ll_sys_rand.c:146).                                                    *)
BufferFilled ==
  \A t \in Threads :
    /\ pc[t] = "drawn" /\ job[t].ret = "ok" => job[t].pos = SizeOf(job[t].nbits)
    /\ source = "getrandom" => pc[t] # "overrun"

(* A number of n bits has no more than n, also when the system failed half *)
(* way through it and the caller gets FP256_ERR, or when the array was     *)
(* full of ones before.  The result of ll_rand_range is below the bound,   *)
(* or zero with FP256_ERR when no attempt was; a bound without limbs gets  *)
(* zero and FP256_OK.  Only a failure of the system leaves a number that   *)
(* may not be below the bound.                                             *)
NumbersInRange ==
  \A t \in Threads :
    /\ pc[t] \in {"compare", "back"} /\ job[t].ret # "refused" =>
         job[t].rd < 2^job[t].nbits
    /\ pc[t] = "back" /\ job[t].fn = "range" =>
         CASE job[t].ret = "failed" -> TRUE
           [] job[t].ret = "none left" -> job[t].rd = 0
           [] OTHER -> job[t].rd < job[t].bound \/ (job[t].bound = 0 /\ job[t].count = 0)

(* Every number of n bits can come out of a full buffer, as long as the    *)
(* top limb has fewer bits than an int, or all of them.                    *)
NothingMissing ==
  \A t \in Threads :
    Draws(t) /\ job[t].ret = "ok" /\ job[t].nbits % W < IntBits =>
      Outcomes[job[t].nbits] = 0 .. 2^job[t].nbits - 1

(* A client that calls fp256_init first has one descriptor, and all of its *)
(* threads read from that one, although nothing guards it.                 *)
OneDescriptor ==
  policy = "ready" =>
    /\ opened <= 1
    /\ \A t \in Threads : pc[t] = "fill" /\ source = "urandom" => fd = 1

(* Every call returns, unless the program stops or has written behind its  *)
(* buffer, if the kernel does not interrupt it for ever.                   *)
CallsReturn ==
  \A t \in Threads :
    pc[t] # "idle" ~> (pc[t] = "idle" \/ dead \/ pc[t] = "overrun")

------------------------------------------------------------------------------
(***************************************************************************)
(* Why one descriptor serves all: an invariant that OneDescriptor follows  *)
(* from.                                                                   *)
(***************************************************************************)
Steps == {"idle", "try", "buf", "open", "opened", "flag", "descriptor", "fill",
          "drawn", "compare", "back", "overrun"}

Opening == {"open", "opened", "flag", "descriptor"}

JobOK(j) ==
  DOMAIN j = {"fn", "nbits", "bound", "rd", "count", "pos", "new", "ret"}

Shape ==
  /\ pc \in [Threads -> Steps]
  /\ DOMAIN job = Threads
  /\ \A t \in Threads : JobOK(job[t])

(* Which function a thread is in, by where it is: nobody but fp256_init    *)
(* runs before the library is up, and in one thread only.                  *)
InitComesFirst ==
  /\ \A t \in Threads : pc[t] = "idle" <=> job[t].fn = "none"
  /\ \A t \in Threads : job[t].fn = "init" => pc[t] \in Opening \cup {"buf", "fill", "drawn", "overrun"}
  /\ \A t, u \in Threads : job[t].fn = "init" /\ job[u].fn = "init" => t = u
  /\ policy = "ready" /\ ~up => \A t \in Threads : job[t].fn \in {"none", "init"}

Untouched == opened = 0 /\ initialized = 0

Ready == opened = 1 /\ initialized = 1 /\ fd = 1

(* How far the device has got, by where fp256_init is.                     *)
DeviceFollows ==
  policy = "ready" =>
    /\ up /\ source = "urandom" => Ready
    /\ source # "urandom" => Untouched
    /\ ~up /\ (\A t \in Threads : pc[t] = "idle") => Untouched
    /\ \A t \in Threads :
         /\ pc[t] \in Opening => ~up /\ source = "urandom"
         /\ ~up /\ pc[t] = "buf" => Untouched
         /\ pc[t] = "open" => Untouched
         /\ pc[t] = "opened" => opened = 1 /\ initialized = 0 /\ job[t].new = 1
         /\ pc[t] = "flag" => opened = 1 /\ fd = 1
         /\ pc[t] = "descriptor" => opened = 1 /\ initialized = 1 /\ job[t].new = 1
         /\ pc[t] \in {"fill", "drawn", "overrun"} /\ source = "urandom" => Ready

DeviceInv == Shape /\ InitComesFirst /\ DeviceFollows

(***************************************************************************)
(* Why buffers are full and numbers in range: the sizes that belong to the *)
(* places in a call.                                                       *)
(***************************************************************************)
(* Where a buffer is being filled. *)
Filling == Opening \cup {"buf", "fill", "drawn"}

SizedAt(at, j) ==
  /\ j.nbits \in Nat /\ j.rd \in Nat /\ j.bound \in Nat
  /\ at \in Filling => j.nbits \in 1 .. W * MaxLimbs /\ j.pos \in 0 .. SizeOf(j.nbits)
  /\ at = "drawn" => j.ret \in {"ok", "end", "failed"}
  /\ at = "drawn" /\ j.ret = "ok" => j.pos = SizeOf(j.nbits)
  /\ at \in {"try", "compare"} =>
       j.nbits \in 0 .. W * MaxLimbs /\ (j.nbits = 0 => j.rd = 0)
  /\ at = "compare" => j.ret \in {"ok", "end"}
  /\ at \in {"compare", "back"} /\ j.ret # "refused" => j.rd < 2^j.nbits
  /\ at = "back" /\ j.fn = "range" =>
       CASE j.ret = "failed" -> TRUE
         [] j.ret = "none left" -> j.rd = 0
         [] OTHER -> j.rd < j.bound \/ (j.bound = 0 /\ j.count = 0)
  /\ at = "overrun" => source = "urandom"

Sized == \A t \in Threads : SizedAt(pc[t], job[t])

IInv == DeviceInv /\ Sized
==============================================================================
