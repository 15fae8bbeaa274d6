# A TLA+ model of fp256

fp256 is a C library for integers of up to 256 bits: arithmetic, modular
arithmetic, Montgomery multiplication, random numbers.  This directory holds
TLA+ modules translated from its source, TLC configurations that check them on
small instances, and TLAPS proofs of what matters most.

Paths below are relative to the repository (`src/src/...` is the library,
`src/include/...` its headers, `src/test/...` its tests).

## The system

| component | state | operations | modules |
|---|---|---|---|
| life cycle (`fp256_init.c`) | mutex or critical section, flags `locked` and `initialized`, on Windows `_lock_initialized` | `fp256_init`, `fp256_deinit`, `fp256_crit_enter`, `fp256_crit_leave` | `Lifecycle`, `LibInit`, `LibInitProofs` |
| limb arrays (`ll_add.c`, `ll_mul.c`, `ll_shift.c`, parts of `ll_utils.c`, `ll_local.h`) | arrays of 64-bit limbs | `ll_add*`, `ll_sub*`, `ll_mul*`, `ll_muladd_limb`, `ll_mulsub_limb`, `ll_lshift`, `ll_rshift`, `ll_cmp_limbs`, `ll_invert_limb`, `ll_num_bits` | `Limbs`, `LimbsProofs`, `LimbOps`, `LimbOpsProofs` |
| four limbs (`ll_u256_add.c`, `ll_u256_mul.c`, `ll_u256_shift.c`) | four limbs, unrolled | `ll_u256_*` | `U256`, `LimbsProofs`, `LimbOps`, `LimbOpsProofs` |
| conversions (`ll_convert.c`, parts of `ll_utils.c`) | bytes, text, limbs | `ll_from_hex`, `ll_to_hex`, `ll_from_bytes`, `ll_to_bytes` and the words under them | `Convert`, `LimbOps`, `LimbOpsProofs` |
| Montgomery (`ll_u256_mont.c`, `ll_mont.c`) | accumulator registers or scratch array | `ll_u256_mont_mul/sqr/reduce`, `ll_mont_mul/reduce` and their callers | `MontMul`, `NumbersProofs`, `MontCode`, `MontCodeProofs` |
| exponentiation (`ll_u256_mont_exp`) | table of powers, scratch slot, bit position | fixed windows | `MontExp`, `NumbersProofs` |
| division (`ll_div.c`) | remainder and quotient arrays | normalise, estimate digit, subtract, add back | `Division`, `DivisionProofs` |
| gcd (`ll_lehmer.c`) | remainders, cofactors, collected matrix, scratch arrays | `ll_lehmer_exgcd` | `Euclid`, `Lehmer`, `NumbersProofs` |
| random numbers (`ll_sys_rand.c`, `ll_rand.c`, `fp256_rand.c`) | file descriptor, its flag, a buffer being filled | `ll_rand_buf`, `ll_rand_bits`, `ll_rand_range` and their callers | `Random`, `RandomProofs` |
| objects (`fp256_*.c`) | `struct fp256`: four limbs and the counter `nlimbs` | set, convert, add, multiply, shift, divide, `fp256_mod_*`, `fp256_gcd`, `fp256_is_coprime` | `Fp256Values`, `Fp256`, `Fp256Proofs` |
| Montgomery contexts (`fp256_mont.c`) | `mont_ctx` | `fp256_mont_ctx_init`, `fp256_to_mont`, ... | `Fp256Values`, `MontField`, `Fp256Proofs` |

The layers call downwards only.  A program calls `fp256_*` functions on
objects it owns; these call `ll_*` functions on the limbs inside.  The only
state shared between threads is that of `fp256_init.c` (and, on systems without
`getrandom`, a file descriptor in `ll_sys_rand.c`).  There are no callbacks and
nothing is persistent.

What is hard here:

- **the critical section**: two flags guarded by a mutex, one of them read
  without it; `fp256_deinit` of a library that is down returns inside the
  section; on Windows the section itself is created by whoever comes first;
- **carries**: every routine is unrolled and hands one limb or one bit from
  block to block; a lost carry shows for operands near the limits only, and
  random tests of 256-bit operands practically never meet those;
- **estimates**: division and gcd guess from the leading limbs and correct, or
  must stop guessing, in cases that are rare among random operands;
- **aliasing**: every function may be called with one object in several roles,
  and some read an operand after writing the result;
- **cached counts**: `nlimbs` must agree with the limbs, and most functions
  look at one of the two only;
- **constants that must fit each other**: `k0`, `RR`, `w` and the number of
  limbs the multiplication works on;
- **answers of the kernel**: short, interrupted, failed, at the end of the file,
  in the middle of a number.

What makes each component correct: exclusion, a guarded flag, atomic effects
and progress for the life cycle; agreement with integer arithmetic for the
limb routines; the number a text stands for, and the text back, for the
conversions; congruence and reduction for Montgomery multiplication and the
refinement of that algorithm by both implementations; the exact power for
exponentiation; only steps that Euclid's algorithm allows, within the scratch
arrays, for the gcd; full buffers, numbers in range and an end for random
numbers; normal form and right residues for the objects; no lost factor R for
the Montgomery contexts.

## The modules

**`Lifecycle`** is what `fp256_init.c` promises: the library is up or down, a
call takes effect at one instant, nobody's effect happens while a client is
inside the section.  **`LibInit`** is the code, with POSIX threads and on Windows
(`system`), one step per access to a shared variable or call into the system;
`pc[t]` names the next step, `call[t]` the function.  `AssertUnlocked` is the
`assert(locked == 0)` of `fp256_crit_enter`; the branch that sets `EPERM` is
`LeaveRefused`.  On Windows every enter starts with `_crit_init`: `TestOnce` is
the interlocked exchange, with its spinning as waiting; the thread that finds 0
creates the section (`Create`, which makes it free whoever had it) and says so
(`Publish`).  The owner of a Windows section may enter it again.  Only one that
`fp256_deinit` has left inside does; then the assertion fails and stops the
process (`LockAgain`, for builds with assertions).
The clients (`policy`) are: `any`, who calls everything at any time, unpaired
`fp256_deinit` and `fp256_crit_leave` without an enter included; `paired`, where
each thread shuts down what it initialised; `quiescent`, who shuts the library
down for everybody when nobody is in `fp256_init` or `fp256_deinit`.  A stray
leave happens only while no other thread is in a call and nobody else is inside
the section: any other stray leave opens somebody else's section by design.
`ImplementsLifecycle` is the refinement, for all clients and both systems.

**`Limbs`** and **`U256`** are the arithmetic with limbs of `W` bits instead of
64.  An array is a function on `0 .. n-1`; a routine is an operator that returns
the array it leaves and the limb it returns; a loop, or a run of unrolled
blocks, is a recursive function of the iterations done, whose value is what one
block hands to the next.  Sums wrap (`Wrap`), comparisons of wrapped limbs are
those of the code.  `RShift` and `LShift` work within one array, as `ll_div`
uses them.  **`LimbOps`** is a caller that picks routine and operands, and its
invariants compare what is left in memory with integer arithmetic.

**`Convert`** is `ll_convert.c` and the loops of `ll_utils.c` over it, for a
machine of either byte order: a word in memory is `Load`, what the code does
to it `Swap`.  A digit has `DigitBits` bits instead of four and a byte two
digits; a character is the digit it stands for, or `Bad`.  `LimbOps` calls it
as well, in the run with limbs of eight binary digits.

**`MontMul`** is Montgomery multiplication, squaring and reduction on numbers:
one action per iteration.  **`MontCode`** has both implementations on limbs,
again one action per iteration: the register file of `ll_u256_mont.c`, whose
macros are passed registers in rotating order (`Rotate`), and the scratch array
of `ll_mont.c`.  `ImplementsMontMul` is the refinement: the accumulator is the
number in the registers or in the upper part of the scratch array.

**`MontExp`** is `ll_u256_mont_exp` with residues represented by the exponent
of the base they stand for; the arithmetic is `MontMul`'s, what is modelled is
the cutting of windows out of bytes, the table, and the slot after it.

**`Fp256Values`** says what an object is (`d`, the number in the four limbs,
and `n`, `nlimbs`) and what the functions that look at it see.  **`Fp256`** is a
client that calls the functions of `fp256_utils.c`, `fp256_add.c`,
`fp256_mul.c`, `fp256_shift.c`, `fp256_div.c`, `fp256_mod.c` and `fp256_gcd.c` in
any order, with any object in any role.  Division (`Rem`, `Quo`), products and
Montgomery arithmetic are used by their results, which the other modules check.
So is the extended gcd, with what can go wrong in it: for operands in
`Borrowing` it may return any divisor and any cofactor (`FoundDivisors`,
`FoundCofactors`), for operands in `Losing` any cofactor, and for all others the
greatest common divisor and any cofactor that belongs to it, as the theorems
about `Lehmer` promise.  `fp256_set_limbs` refuses a result of more than four
limbs, and nobody notices (`SetLimbs`).  A zero is refused by `fp256_mod_inv`
and has the divisor zero in `fp256_gcd`.  **`MontField`** is the same for
`fp256_mont.c`: the history variable `num` holds the number that each object is
meant to stand for, while the context is one for R = 2^256 (`Matched`).

**`Division`** is `ll_div`: one action for the normalisation, one for the
topmost digit, one per further digit (`Digit1`, `Digit2`, `DigitLargest`,
`DigitN` for one, two and more limbs of divisor), one for shifting back.
`ll_reciprocal1` is a table look-up and three Newton steps that only make sense
for 64 bits, so the model uses the value they compute; `Reciprocal2`, `Div2by1`
and `Div3by2` follow the code, wrap-around included.  `EstimateOneTooLarge` is
what the code means by `assert(borrow == 1)`; the assertion itself cannot fail,
because the borrow that leaves two limbs without a product is a single bit.

**`Euclid`** is Euclid's algorithm as `ll_lehmer_exgcd` performs it, for numbers
of any size: remainders, the cofactors of the smaller operand with one common
sign, and a matrix of collected quotients.  `Collect` may put any unimodular
matrix there, `Apply` applies it if it leaves no remainder negative, `Divide` is
one division; `Lose` is the end of all promises.  **`Lehmer`** is the code:
`StartSimulation` takes the leading limbs, `Phase1*` and `Phase2*` are one
iteration of the two loops of `ll_lehmer_simulate`, `Update` applies the matrix,
`EuclidStep` is `ll_euclid_update`, `StartWord`, `WordDivide` and `WordDone` are
`ll_lehmer_exgcd11` on the last limbs and `Last` the end with signs and the other cofactor.  An array is the
number in it together with the limb count the code keeps (`tal`, `tbl`, `vl`),
because the counts, not the limbs, decide what is read later; stale limbs above
a count are not modelled, and `ScratchSuffices` says that no number outgrows
its count.  A write beyond the `l + 2` limbs of a scratch array ends the
behaviour (`Overrun`).  The history variable `borrowed` says that phase two has
subtracted a larger number from a smaller one, `lost` that a cofactor had more
limbs than `vl` counts (both below).  Operands are not zero,
and results of `calloc` are taken for memory, as in the code.

**`Random`** is `ll_rand_buf` for the two builds with a loop, `getrandom` and
`/dev/urandom`, and `ll_rand_bits`, `ll_rand_range` and their callers on top of
it.  The kernel answers a call with any number of bytes, an error or the end
of the file; an interruption changes nothing.  Two threads race for the
descriptor; its two static variables are written in either order.  What is
written in a number is drawn when the filling ends, because nothing looks at
it before.

The modules `MC...` give TLC values for the constants and nothing else.

## The runs

| run | module, configuration | bounds | question |
|---|---|---|---|
| `lib` | `LibInit`, `LibInit.cfg` | 3 threads, POSIX and Windows, clients `any` and `quiescent` | exclusion, assertion, guarded flag, one section created, refinement of `Lifecycle`; for `quiescent`: FP256_OK means up, the section is always left |
| `lib_paired` | `LibInit`, `LibInitPaired.cfg` | 2 threads, POSIX | expected violation, see below |
| `limb_ops` | `LimbOps` | `W` = 2, arrays of 0 to 3 limbs, four limbs; words of 8 bits; texts of up to 18 binary digits, both byte orders | do the routines agree with integer arithmetic; are texts and bytes converted exactly there and back |
| `mont_mul` | `MCMontMul` | `W` = 2, `L` = 2, every odd modulus | the invariant of the proofs, congruence, reduction |
| `mont_code` | `MCMontCode`, `MontCode.cfg` | `W` = 2, 4 limbs, 8 moduli, operands with limbs 0, 1 and the largest | do both implementations refine `MontMul`; are carries kept |
| `mont_exp` | `MCMontExp` | bytes of 4 bits, up to 3 bytes, every exponent, windows 1, 3, 4 | is the power exact, is the table left alone |
| `division` | `MCDivision` | `W` = 5, numerators of 4 limbs, divisors of 1 to 3 | is every digit right or one too large, quotient and remainder exact |
| `lehmer` | `MCLehmer`, `Lehmer.cfg` | `W` = 4, nearly 5000 pairs of operands of 1 to 4 limbs, three callers | does every step refine `Euclid`, stay in the scratch arrays, end, and give divisor and cofactors |
| `lehmer_exgcd` | `MCLehmer`, `LehmerExgcd.cfg` | the pairs that meet one of two defects | expected violation |
| `random` | `MCRandom`, `Random.cfg` | 2 threads, limbs of 2 bytes of 2 bits, 3 attempts | are buffers full, numbers in range and none missing, one descriptor, every call returned |
| `fp256` | `MCFp256`, `Fp256.cfg` | `W` = 1, 3 objects, 4 pairs in `Borrowing`, 2 in `Losing` | normal form, residues but for the exceptions by name, paired results |
| `mont_field` | `MCMontField`, `MontField.cfg` | `W` = 1, `w` from 0 to 5 (0 and 5 are refused), 3 objects, 7 moduli (even ones are refused) | no factor R is lost with `w` = 4; everything is reduced with 1 to 3 |

Why small limbs are enough: no routine looks at the width of a limb except
through wrap-around, halves of products and shifts below the width, and with
two bits a limb is already zero, one, the largest, or neither, so that a carry
can be produced, absorbed, passed on or combined with another in every
position.  Words of eight bits are used where the number of steps depends on
the width (`ll_invert_limb`).  `Division` needs limbs of five bits: with fewer,
some of the corrections in the estimates never happen, and with five each of them
does (both after the first guess of `ll_div2by1_pi1` and `ll_div3by2_pi1`, and up
to two in either half of `ll_reciprocal2`).  Its operands are chosen to take them.  `Lehmer` needs
limbs of four bits for the simulation to take steps in both phases, operands
of three limbs for it to be started again and of four for a cofactor to lose one; its pairs are all small ones and
those whose quotients are all one (the longest simulations), large, or small
and then large.  Texts are uniform except in two places, since a digit only has
to get to its place and no other; 18 digits are two limbs and an odd rest.  In
`random` a buffer of four bytes can be filled in every number of answers, and
only one of the two threads asks for numbers, after an initialisation; the race
of the threads is one for the descriptor.  Objects have limbs of one bit: what `Fp256` and
`MontField` distinguish is the number, the limb count and the modulus, and four
limbs of one bit give every relation between them.  Three objects let result,
operands and modulus be the same or different in every way that a call with one
result can tell apart.  Operands that meet a defect of `ll_lehmer_exgcd` have more
bits than these objects: six pairs stand for them (`MCBorrowing`, `MCLosing`),
coprime ones and others, in both orders.  The theorems are about any pairs.

Symmetry is used for objects only, in runs without liveness.
`CHECK_DEADLOCK FALSE` is set for the two runs of `LibInit`, since with a leaked
section all threads may wait for ever, and for `random`, since the process may
have been stopped by `abort`.

**Fairness.**  `LibInit` assumes weak fairness of the steps of each thread, the
client's leave of its own section included: the operating system runs every
thread that can run, and a client does not stay inside for ever.  Calls need no
fairness, nobody has to call anything.  Nothing is assumed of the order in which
waiting threads get the mutex, POSIX promises none; so no thread is promised to
get the section, only that the section is given back.  Likewise `Random`
assumes that each thread runs, so that the kernel does not answer for ever with
an interruption; how the kernel answers otherwise is free.  `Lehmer` is
sequential: its next step is eventually taken.  The other modules have no
liveness properties: their loops are bounded by construction.

## What the expected violations show

- `lib_paired`: `fp256_deinit` returns without `fp256_crit_leave` when the
  library is not initialised (`fp256_init.c:165`).  Two users who each pair
  their own `fp256_init` with their own `fp256_deinit` end with a mutex that
  nobody unlocks.
- `lehmer_exgcd` shows two defects.  Phase two of `ll_lehmer_simulate` forms
  `a0 - b0` without a test that `a0` is not smaller (`ll_lehmer.c:210`), which the
  last subtraction of phase one can leave when the upper limbs are equal.  The
  wrapped difference can pass for a remainder; then the collected matrix makes a
  true remainder negative, the numbers grow and the scratch arrays are overrun.
  And the limb count `vl` of the cofactors may be too small: `ll_lehmer_update_v`
  counts one more limb at most of the two that it writes (`ll_lehmer.c:56`; the
  second count is commented out), and `ll_euclid_update` counts the new cofactor
  only (`ll_lehmer.c:76`), which is the shorter one after a quotient of zero.  The
  next update reads the counted limbs, and the inverse is wrong; the divisor is
  not affected.  Operands of four limbs are needed, and few have it: with 64-bit
  limbs 0xfad42c3c9cf9a6b6f405c28f5a00428c1999996f2a003807 modulo
  0xc8a9bcfd4998a86f768ab6d86a869d96a9e3d6b30c1f066a80ab32f129003420 are such
  operands.  The `lehmer` run and the proofs show that nothing else goes wrong:
  their properties are about calls where neither has happened.

Other places where code and documentation differ are part of the models, and
the properties that pass leave them out by name:

- the C version of `ll_mont_cond_sub_limbs` uses the value of a comparison as a
  mask (`ll_add.c:158`) and so takes only the lowest bit of the difference; the
  assembly versions are right.  `mont_code` takes those; with `Build = "c"` its
  `ImplementsMontMul` fails;
- `fp256_from_hex` ignores the result of `ll_from_hex` (`fp256_utils.c:173`); the
  run of `Fp256` has `Garbage = {}`, with any other value `NormalForm` fails;
- `fp256_mont_ctx_init` takes `w` from 1 to 4 ("R = 2^(64w), 0 < w < 5",
  `fp256.h:95`) and computes R^2 for it, the multiplication always uses 2^256
  (`fp256_mont.c:37`): with `w` from 1 to 3 conversions and products do not give
  the numbers they should, and `Represents` says no more than that they are
  reduced;
- a byte string shorter than a word, read in little endian order, comes out as
  if it had zero bytes in front, that is, shifted up (`u8_to_u32`, `u8_to_u64`,
  `ll_convert.c:119`; `Load` in `Convert`);
- the mask of `ll_rand_bits` is a shifted `int` (`ll_rand.c:34`): a number whose
  top limb has 32 bits or more of its own, but not 64, lacks some of them, and
  `fp256_rand_bits` of 32 bits is always zero (`Masked`; `NothingMissing` is
  about fewer bits);
- `read` of `/dev/urandom` asks for the whole buffer again after a short answer
  and may write behind it, and the end of the file counts as success
  (`ll_sys_rand.c:137`; `ReadDevice`, left out of `BufferFilled` by name);
  a full buffer is followed by one more `getrandom`, for no bytes, whose failure
  would fail the call (`GetRandom`);
- `ll_rand_range` gives zero and FP256_OK for a bound without limbs, and after a
  failure of the system a number that may not be below the bound, with FP256_ERR
  (`NumbersInRange`);
- a client that asks for random numbers from several threads before any
  `fp256_init` may open several descriptors or read from descriptor 0
  (`ll_sys_rand.c:121`; `OneDescriptor` is about clients that initialise first);
- `fp256_mod_inv` returns FP256_OK for a number without inverse, and zero when
  the result is the modulus object (`ModInv`, `Careful`); `fp256_gcd` of zero and
  anything is zero (`CommonDivisors`);
- `fp256_mod_inv` hands on what `ll_lehmer_exgcd` returns, with FP256_OK, although
  for the operands of its two defects (above) that need not be an inverse:
  `test/modinv_test.c` demands that the product is the divisor.  `Fp256` has
  these results (`FoundCofactors`); `Careful` leaves them out of
  `ModularResults`, which fails otherwise;
- with both cofactors asked for and the first operand the smaller one,
  `ll_lehmer_exgcd` divides by the wrong operand (`ll_lehmer.c:399`; no caller
  does; `IdentityUnlessSwapped`);
- a zero of one limb passes the test for zero of `fp256_gcd` and is divided by
  (`fp256_gcd.c:62`; `CallGcd` does not pass one);
- on Windows, after the `return` of `fp256_init.c:165` the same thread enters
  again and meets the assertion, the other threads block (`LockAgain`);
- `fp256_set_limb(r, 0)` makes a zero with `nlimbs` 1, which `fp256_is_zero`
  denies (`LimbZero` in `Fp256`; `NormalForm` allows this one value, and
  `ModularResults` shows that it does no harm to the modular functions);
- `fp256_mod_neg` returns the modulus for a multiple of it, not the -a % m of
  `fp256.h:528` (`Bounded` says exactly when);
- `fp256_mod_neg` and `fp256_mod_sub` read the modulus after writing the
  result, and `fp256_mod_exp` does nothing for an even modulus and returns
  FP256_OK (`Careful`);
- `ll_mont_reduce` adds the old contents of its result array (`ll_mont.c:61`;
  `OldResults` in `MontCode` is zero in the run that passes);
- an exponent of zero limbs stops a build with assertions
  (`ll_u256_mont.c:221`; `Call` in `MontExp`);
- `ll_div` clears as many limbs of the quotient as the numerator has when that is
  the smaller operand (`ll_div.c:314`), more than the `nl - dl + 1` that its header
  asks the caller to provide; the callers in the library provide enough
  (`Smaller` in `Division`);
- `ll_invert_limb` returns the negative of the inverse its header promises,
  which is what `k0` has to be (`ExactWords`).

## What is proved

`LibInitProofs`, for every set of threads and every client:

- `InductiveInvariant`: `Spec => []IInv`.  The invariant is needed because
  neither exclusion nor the assertion is inductive: exclusion needs that a
  thread between lock and unlock owns the mutex (`OwnerHolds`), and the
  assertion that `locked` is set exactly while the mutex is owned by a thread
  past `Mark` and not yet past `LeaveClear` (`FlagTracksOwner`), a leaking owner
  included.  One step per action, one per conjunct.
  For Windows it also says that only one thread creates the section and that
  nobody locks one that is not there (`CreatedOnce`); `Create`, which frees the
  section, would break `OwnerHolds` otherwise.
- `TypeCorrect`, `MutualExclusion`, `EnterAssertion` and `GuardedFlag` follow.
- `OkMeansUp`: for a client that keeps the others out of `fp256_init` and
  `fp256_deinit` while it shuts down.  Inductive with `UpWhileUsed`: during a
  shutdown nobody uses the library or initialises it, and a thread on its way
  out of `fp256_init` has seen the flag set.

On top of that invariant, `AtomicLifecycle`: the first state
of `LibInit` is one of `Lifecycle` and every step is one of its steps or leaves
its variables alone.  `Mark` of a client is the effect of its enter,
`InitTest` or `InitSet` that of an initialisation, `DeinitClear` that of a
shutdown, `DeinitReturn` the return inside, `Unlock` and `LeaveRefused` the
return; all other steps are invisible.

`NumbersProofs` holds the proofs about `MontExp`, `Lehmer`, `Euclid` (its instance
`Abstract`) and `MontMul` (its instance `Mont`), the modules about numbers; that
`Lehmer` implements `Euclid` is all they have in common.  Of `Euclid`, for operands of any size: `RemaindersBelong`, as long as every
matrix is unimodular and leaves no remainder negative, the remainders have the
common divisors of the operands (`SameDivisors`), each is a multiple of the
smaller operand by its cofactor up to multiples of the larger one
(`CofactorsMatch`), and cofactors times opposite remainders add up to the larger
operand (`CofactorsFit`), which bounds the cofactors.  A unimodular matrix is
invertible over the integers, so both directions of `SameDivisors` are
combinations.  `GcdIsFound` follows for a second remainder of zero.

Of `Lehmer`, for limbs of every even width from four bits on, operands of every
length and all their values, from `WidthAssumption`, `OperandsAssumption` and
`PowersAssumption`: everything the `lehmer` run checks but `Answers`.

- `LehmerTypes` and `LehmerScratch`: counts, matrix entries and cofactors fit, no
  access leaves a scratch array of `l` + 2 limbs.
- `LehmerDivisor`, `LehmerInverse`, `LehmerIdentity`: the divisor, the inverse of
  `fp256_mod_inv` and the identity of both cofactors are right at the end.
- `LehmerRefines`: every step is one of `Euclid` or invisible there.  `Update` and
  `Last` are `Apply`, `EuclidStep` is `Divide`, the steps of the simulation are
  `Collect`, a step that meets a defect is `Lose`.

They speak of calls that have met neither defect of `ll_lehmer_exgcd` (see
`lehmer_exgcd` above); the divisor depends on the first one only.  The inductive
invariant `LehmerIInv` has three layers.  `Shape` holds of every state, with defects
or without: ranges and that each count is the count of its number.  `Inner` holds
unless phase two has borrowed.  Its part `Linked` says that some matrix leads from
the operands to the remainders and that the cofactors are its entries; `Sizes` that
the remainders are in order but for a factor of eight, that the counted limbs of the
cofactors reach both of them, and that one of the cofactors needs as many; `Stages`
what each stage of a call knows; `Units` follows an operand of one, whose cofactor has
the right sign only because the divisions are counted.  The factor of eight is not
a convenience: a simulation that stops early leaves remainders in the wrong order,
and the next quotient may be zero.  `Answered` keeps the results.

The heart is why two leading limbs suffice.  `FirstPhase` says that the two limbs in
hand are what the collected matrix makes of the leading limbs, and that the rows of
the matrix are small compared with them (`Rows`); the bound of half a limb on the
first row (`FirstRow`) follows from the size of the larger number, so no entry of
the matrix overflows.  `SecondPhase` has one limb less to go on.  `Errors` keeps an
account, for both rows, of how far the limbs in hand can be from the numbers they
stand for, and `ErrorsStep` shows that a step whose remainder stays above twice the
bound keeps it (`RunIsSafe`).  `RowApplied` carries such a row from the leading limbs
to the whole operands: what the limbs below contribute is less than one unit of the
leading ones.  So no remainder is negative (`UpdateRemainders`), and unimodularity does the
rest.  `NoOverrun`, `CofactorsAgainstBig` and `CountsLeaveRoom` then bound remainders and
cofactors by the scratch arrays, and `AnswerFacts` reads the results off `Linked`.

Of `MontMul`, for every base of a limb, number of limbs, modulus with its `k0`,
and all operands; the hypotheses `BaseIs`, `PowIs` and `ContextsAre` are the three
assumptions of `MontMul`, said of the constants of the instance:

- `MontInductiveInvariant`: after `i` iterations the accumulator times `B^i` is the
  product of the limbs read so far plus the history multiple `m` of the modulus
  (`Balanced`), `m` is below `B^i` (`MultipleFits`), and the accumulator is small
  enough for one carry (`NoCarryLost`).  Congruence alone is not inductive
  without `m`, and the single conditional subtraction needs the bound.
- `MontgomeryCongruence`: R times the result is congruent to the product, for
  operands that were never reduced as well.
- `ResultReduced`: the result is below the modulus if one operand is.

`MontCodeProofs`, for limbs of every width, any number of limbs (four, for the
register code), every odd modulus with its `k0` and all operands, carries these
results to the code:

- `MontCodeInvariant`: besides types, `ProductFits`, that registers or scratch array
  stay below the sum of the operand and the modulus.  `CarryKept` is not
  inductive without it: whether the sixth register is zero again after a row
  depends on the size of all six as one number.  `UnusedIsZero` says what the
  refinement reads of variables that the routine at hand does not use.
- `CarriesKept`: `[]CarryKept`, for the C and the assembly version of the
  conditional subtraction.
- `CodeImplementsMontMul`: `Spec => ImplementsMontMul` where `Build = "asm"` and
  `OldResults` has no number but zero.  Both hypotheses are needed, see the list
  above: the C version of `ll_mont_cond_sub_limbs` and old contents of the result
  array of `ll_mont_reduce` give other numbers.  With `MontgomeryCongruence` and
  `ResultReduced` the results of `ll_u256_mont_mul`, `ll_mont_mul` and the others are
  congruent and reduced for 64-bit limbs as for any other.

There is one lemma per routine, on arrays, in `LimbsProofs` (`MontRowIs`, `Redc2Is`,
`ArrayRowIs`, `FirstRowIs`, `ClearAtIs`, `SubtractsLimbs`, `CondSubU256Is`, ...), and per
action one lemma that says what it does to the numbers (`IterateMulStep`,
`NextRowStep`, `FinishReduceIs`, ...).  `IterateFacts` and `FinishFacts` then say the same of
all five iterations and all five ends, which are `Iterate` and `Finish` of `MontMul`.

Of `MontExp`, for every byte size, exponent length, window and exponent, from
`SizesAssumption` and `Pow2Assumption` of `MontExp` (a table of the powers of two
that a recursive function would otherwise define): `InductiveInvariant`, the
accumulator is the base to the bits read so far (`PrefixPower`), the table holds
the powers that were written (`TableHolds`), and the position and the size of the
windows fit what is left (`WindowsFit`), without which the last window would not
end with the exponent.  The heart is `IndexIsExact`: the index that the code
cuts out of two adjacent bytes is the next window of the exponent, also when it
begins in the byte before the first one; it rests on lemmas about quotients of
quotients (`DivDiv`) and of numbers with further digits (`CutAbove`).
`ExactPower`: the result is the base to the exponent.

`DivisionProofs`, for limbs of every width, operands of every length and all their
values: the inductive invariant `DivisionInv` has one part per stage of `ll_div`.
`Called`: only a started division has operands, and no divisor is zero.
`Normalised`: divisor and numerator are shifted by the same distance, the top bit
of the divisor is set, the limb of the numerator that the shift may have filled
is within the array, and `v` is the reciprocal of the top limbs.  `Untouched`:
before the first digit the array still holds the whole numerator.  `Partial`:
digits so far times the divisor plus what is left is the numerator, what is left
is below the divisor at its present position, every digit is a limb, and
everything above the window is zero.  Exactness of the end is not inductive
without `Partial`, and `Partial` needs the value of `v`, since a digit is never
corrected by more than one.  One lemma per action (`Digit1Keeps` to
`DigitNKeeps`, `NormaliseKeeps`, `FinishKeeps`, ...).

- `DivisionAlwaysExact`, `AlwaysPartialDivision`: quotient, remainder and their
  lengths at the end, and the equation on the way.
- `AlwaysOneTooLarge`: the digit that `ll_div_n_limbs_pi1` estimates is right or one
  too large; the add-back happens once at most.
- `AlwaysReciprocal`: `ll_reciprocal2` gives the reciprocal of two limbs rounded
  down.  Lemmas show the estimates themselves: `Div2by1` and `Div3by2` are exact
  although all their sums wrap, because the wrapped remainder of a guess that is
  one too large is above the low half of the product, and that of any other is
  not.

They rest on `LimbsProofs`, the limb routines for every width and length:
`AddLimbsIs`, `SubLimbsIs`, `MulSubLimbIs` (the array and the limb returned, taken
together, are the sum, the difference, the difference from a product),
`NumLimbsIs`, `CmpLimbsIs`, `LShiftIs`, `RShiftIs` (shifts below the width),
`LShiftFar`, `RShiftFar` (by any distance), `ValSplit` and `ValRange` about the
number in an array; and the routines of `U256`, whose two carries of a limb are
combined by "or" because they are never both set, up to `SqrU256Is`: the carry out
of the last pair, which the code drops, is zero because the square fits eight
limbs.  The technique
is worth a word, since no induction theorem with an operator for a parameter can
be used: `Least` is the least element of a set of naturals, from which `Induction`
over such a *set* and `Recursion` follow; the latter says that a function defined
step by step exists and follows its steps, so that the `CHOOSE` behind a
recursive function has a witness.  Each loop then has a step operator, a lemma
on one step (`CarryOutIs`, `BorrowOutIs`, `MulSubOutIs`, ...), one that the loop takes
these steps, and one by `Induction` on the number they stand for.

`LimbOpsProofs`, for limbs of any width and arrays of any length: `ArraysExact`,
`ShiftsExact` and `U256Exact`, whichever routine the caller picks and whatever
its operands, what is left in memory agrees with integer arithmetic.  There is one
lemma per routine (`AddCall`, `MulCall`, `SqrCall`, ...); the inductive
invariant only says that nothing is left over while the caller chooses and that the
operands are what the routine asks for (`Operands`), a carry bit or a distance
within the array among them.

`WordsExact` is about single limbs of 8, 16, 32 or 64 bits (`UsualWidth`): the
product of two limbs from those of their halves (`MulWordsIs`, where one sum may
wrap and its carry is found by a comparison), the negated inverse, of which each
Newton step doubles the bits that are right, from four to no more than 64
(`NewtonIs`, `NewtonDoubles`; more steps or a wider limb are not promised
anything), and the bit count, which halves the width until it is one
(`CountsTwice`; its recursion on half the argument needs a `HalvingRecursion` of
its own).

`TextsExact` is about the conversions, for digits and limbs of any width (the
code's four bits and 64 are an instance) and text of any length.  `Number` reads characters from the
highest on; that it may be read in pieces (`NumberSplit`), from groups of
characters (`NumberGroups`: bytes from digits, limbs from either) and with zeros in
front (`NumberPad`) is all that the routines rely on.  So `LoadIs` and `SwapIs`
say what either machine makes of bytes in either order, `U8ToWordIs`, `WordToU8Is`,
`HexToWordIs`, `U64ToHexIs` and `U32ToHexIs` follow for single words, `GroupIs` cuts
a text into limbs from its end, and `SlicesIs` puts the limbs together.  The loop
of `ll_from_hex`, which stops at a word that is no number, is followed step by
step (`HexLoopIs`, `HexWordIs`): `FromHexIs` is its result and `FromHexFails` what is
left when it fails.  `TopIs` is the limb count; `ToHexIs` and `ToBytesIs` are the
way back.

`RandomProofs`, for any number of threads, every number of bits and every bound:
`InductiveInvariant` is about `DeviceInv` and `Sized`.  `DeviceInv` (`DeviceInvariant`)
says where the descriptor and its flag are by where `fp256_init` is
(`DeviceFollows`), with the order a client keeps that calls `fp256_init` first
(`InitComesFirst`).  `Sized` says for each thread what belongs to its place in a
call (`SizedAt`): the position is within the buffer while it is filled and at its
end afterwards, a number that passed the mask is below 2 to the bits asked for,
and one that is returned is below the bound.

- `OneDescriptorKept`: such a client opens the device once and all its reads see
  that descriptor, although the two static variables are stored in either order
  and nothing guards them.
- `BuffersAreFilled`: whatever the kernel answers, a call that succeeds filled
  its buffer (the end of the file of `/dev/urandom` excepted by name).
- `NumbersFit`: what `ll_rand_bits` and `ll_rand_range` return is in range.  The mask
  clears exactly the bits above the number, which takes the count of the bits of
  the bound (`BitCount`, by approximations of its recursive function on finite
  sets) and the arithmetic of the signed mask.
- `NoneMissing`: and every such number can be returned.

`Fp256Proofs`, for limbs of any width, any set of objects and every sequence of
calls with every way to share objects between arguments.  Of `Fp256`, where the
client converts only text that is a number (`Garbage = {}`; otherwise `nlimbs` may
be anything, see above):

- `InductiveInvariant`: `TypeOK`, `NormalForm` and `CallFits`, that the arguments
  of the call under way are those the function was called with: a modulus that
  is not zero, operands of `fp256_mod_inv` and of the gcd whose zeros are
  recognised, because a zero of one limb would be divided by.  One lemma per group of functions
  (`SettersKeep`, `RingKeeps`, `ReductionsAreRight`, `GcdKeeps`, ...).
- `NormalForms`: every object has the limb count of its number or is the zero of
  one limb, the one that `fp256_set_limb` makes.
- `ModularResultsHold`: what `fp256_mod.c` returns is below the modulus and
  congruent, with the exceptions that `ModularResults` names: the modulus from
  `fp256_mod_neg` for its multiples, results that replace a modulus still to be
  read, even moduli of `fp256_mod_exp`, refused inverses, and inverses of
  operands in `Borrowing` or `Losing`, which may be any sets of pairs.  For those
  operands `ModInvIsRight` still proves normal form, whatever is found.
  `fp256_mod_mul` and
  the rest reduce what four limbs or eight hold, so this is about remainders of
  sums that wrapped (`ModSubIsRight`, `ModNegIsRight`), and for `fp256_mod_exp`
  about Montgomery form: `Redc` is unique because 2^256 is invertible modulo an
  odd number (`Invertible`, `Cancelled`, `RedcUnique`), a product of forms is the
  form of the product (`ProductInForm`), so by `Induction` the power is the form
  of the power (`MontPowerIs`), and one more reduction brings it back (`FromForm`).
- `PairedResultsHold`: the two halves of a product, quotient and remainder.

Of `MontField`, `NoFactorLost`: `[]Represents`, from its own inductive invariant.
Beside the property it says that a number whose object is in Montgomery form is
below the modulus, without which it could not be brought back, and that `RR`
belongs to the modulus (`ContextFits`).  It is for every `w` and every modulus of
256 bits, the ones that `fp256_mont_ctx_init` refuses included.  For `w` = 4 the
numbers are followed exactly; for 1 to 3, where `RR` is not the constant that the
multiplication needs, what is proved is that every result is below the modulus
(`MontPowerBelow` for the powers).

These proofs are about the results the routines below promise, `Redc`, `Rem`,
`FoundCofactors` and the others; that the routines keep the promise is what
`DivisionProofs`, `LimbOpsProofs`, `MontCodeProofs` and the theorems about `Lehmer` prove.

The assumptions about powers (`PowersOfTwo` in `Limbs`, `BasePowers` in `Division`,
`PowersAssumption` and `TextPowersAssumption` in `LimbOps`, `PowersAssumption` in
`MontCode`, `Lehmer`, `Random` and `Fp256Values`) say how one power follows from the one before,
for the exponents in use: tlapm evaluates constant powers only.  TLC evaluates
these assumptions on every run.  `RequestsAssumption` asks that a bound fits the limbs
it claims to have, which is what an `fp256` object is, and `WordBitsAssumption` that
a limb is a whole number of bytes.

Only model-checked: liveness (fairness is out of the prover's reach), which is
`Answers` of `Lehmer` and what the life cycle and the random numbers promise to
come to an end.

## What is not modelled

- The schoolbook division (`ll_naive_div.c`), kept for comparison and called by
  its own test only.
- The empty stubs of builds without threads, and Windows builds without
  assertions, where a re-entered section goes on.
- The single calls of `RtlGenRandom`, `arc4random_buf` and `getentropy`, which
  have no loop and no state.
- Failure of `malloc` and `calloc`: `ll_div.c:324` and `ll_lehmer.c:266` do not
  look at the result, so there is no error path to follow.
- `ll_reciprocal1`, by its value only (see `Division`), and the
  code inside `#if 0` (`fp256_mont.c:42`).
- Processor detection, printing, benchmarks and tests; the assembly files,
  except that `MontCode` takes the conditional subtraction from them.

## Plan

1. `LibInit`, `MontMul`, `MontCode`, `MontExp`, `Fp256`, `MontField` with their
   runs, and the first two proof modules: done.
2. `Division`: the quotient digit estimate with add-back: done.
3. `Euclid` and `Lehmer`, `fp256_mod_inv`, `fp256_gcd` and `fp256_is_coprime` in
   `Fp256`, the proofs about `Euclid`: done.
4. `Random`: retries, short reads, rejection sampling, the unguarded descriptor:
   done.
5. `Convert`, the Windows lock, `OkMeansUp` and `AtomicLifecycle`: done.
6. `ExactPower` of `MontExp`, `OneDescriptorKept` of `Random`: done.
7. The limb arrays under `ll_div` in `LimbsProofs`, all invariants of `Division` and of
   `Random`: done.
8. All limb routines and those of four limbs: done.
9. `CarryKept` and the refinement of `MontMul` by the code: done.
10. All properties of `Fp256` and `MontField`: done.
11. All invariants of `Lehmer` and its refinement of `Euclid`: done.
12. `ConversionsAreExact` of `LimbOps`, for digits of any width: done.
