------------------------- MODULE MachineStep_proofs -------------------------
(***************************************************************************)
(* What the memory does with words, that an instruction turns a state of   *)
(* the machine into one, and that all but jumps and calls do the same      *)
(* wherever they stand, for every word width, cell width and memory size.  *)
(***************************************************************************)
EXTENDS Instructions, Induction

LEMMA SizesArePositive ==
  /\ WordBits \in Nat \ {0} /\ WordSize \in Nat \ {0} /\ CellSize \in Nat \ {0}
  /\ WordCells \in Nat \ {0} /\ IndexSize \in Nat \ {0} /\ MemoryCells \in Nat \ {0} /\ Registers \in Nat \ {0}
  /\ WordCells <= MemoryCells /\ MemoryCells < IndexSize /\ IndexSize <= WordSize
BY WidthsAssumption

LEMMA CellPowers ==
  /\ CellSize ^ 0 = 1 /\ CellSize ^ WordCells = WordSize
  /\ \A k \in 0 .. WordCells : CellSize ^ k \in Nat \ {0}
  /\ \A k \in 0 .. WordCells - 1 : CellSize ^ (k + 1) = CellSize ^ k * CellSize
<1> DEFINE S == {k \in Nat : k <= WordCells => CellSize ^ k \in Nat \ {0}}
<1>1. 0 \in S
  BY PowersAssumption
<1>2. ASSUME NEW k \in Nat, k \in S PROVE k + 1 \in S
  <2>1. SUFFICES ASSUME k + 1 <= WordCells PROVE CellSize ^ (k + 1) \in Nat \ {0}
    OBVIOUS
  <2>2. k \in 0 .. WordCells - 1 /\ CellSize ^ k \in Nat \ {0}
    BY <1>2, <2>1, SizesArePositive
  <2>3. CellSize ^ (k + 1) = CellSize ^ k * CellSize
    BY <2>2, PowersAssumption
  <2> QED
    BY <2>2, <2>3, SizesArePositive
<1>3. Nat \subseteq S
  <2> HIDE DEF S
  <2> QED
    BY <1>1, <1>2, NumberInduction
<1> QED
  BY <1>3, SizesArePositive, PowersAssumption, WidthsAssumption

LEMMA BitPowers ==
  /\ \A k \in 0 .. WordBits : 2 ^ k \in Nat \ {0}
  /\ \E half \in Nat \ {0} : WordSize = 2 * half
<1> DEFINE S == {k \in Nat : k <= WordBits => 2 ^ k \in Nat \ {0}}
<1>1. 0 \in S
  BY PowersAssumption
<1>2. ASSUME NEW k \in Nat, k \in S PROVE k + 1 \in S
  <2>1. SUFFICES ASSUME k + 1 <= WordBits PROVE 2 ^ (k + 1) \in Nat \ {0}
    OBVIOUS
  <2>2. k \in 0 .. WordBits - 1 /\ 2 ^ k \in Nat \ {0}
    BY <1>2, <2>1, SizesArePositive
  <2>3. 2 ^ (k + 1) = 2 ^ k * 2
    BY <2>2, PowersAssumption
  <2> QED
    BY <2>2, <2>3
<1>3. Nat \subseteq S
  <2> HIDE DEF S
  <2> QED
    BY <1>1, <1>2, NumberInduction
<1>4. WordBits - 1 \in Nat /\ WordBits - 1 \in 0 .. WordBits - 1
  BY SizesArePositive
<1>5. 2 ^ (WordBits - 1) \in Nat \ {0}
  BY <1>3, <1>4, SizesArePositive
<1>6. 2 ^ ((WordBits - 1) + 1) = 2 ^ (WordBits - 1) * 2
  BY <1>4, PowersAssumption
<1>7. WordSize = 2 * 2 ^ (WordBits - 1)
  BY <1>6, SizesArePositive, WidthsAssumption, <1>5
<1> QED
  BY <1>3, <1>5, <1>7, SizesArePositive
-----------------------------------------------------------------------------
(* Division.                                                               *)

LEMMA QuotientIs ==
  ASSUME NEW x \in Int, NEW d \in Nat \ {0}, NEW q \in Int, NEW r \in 0 .. d - 1, x = d * q + r
  PROVE  x \div d = q /\ x % d = r
<1>1. x \div d \in Int /\ x % d \in 0 .. d - 1 /\ x = d * (x \div d) + (x % d)
  OBVIOUS
<1> DEFINE p == x \div d
           e == x % d
<1> HIDE DEF p, e
<1>2. p \in Int /\ e \in 0 .. d - 1 /\ d * q + r = d * p + e
  BY <1>1 DEF p, e
<1>3. d * (q - p) = d * q - d * p /\ d * (p - q) = d * p - d * q /\ d * q \in Int /\ d * p \in Int
  BY <1>2
<1>4. ~(q - p >= 1)
  <2>1. SUFFICES ASSUME q - p >= 1 PROVE FALSE
    OBVIOUS
  <2>2. d * (q - p) >= d
    BY <2>1, <1>2
  <2> QED
    BY <1>2, <1>3, <2>2
<1>5. ~(p - q >= 1)
  <2>1. SUFFICES ASSUME p - q >= 1 PROVE FALSE
    OBVIOUS
  <2>2. d * (p - q) >= d
    BY <2>1, <1>2
  <2> QED
    BY <1>2, <1>3, <2>2
<1>6. p = q
  BY <1>2, <1>4, <1>5
<1>7. e = r
  BY <1>2, <1>3, <1>6
<1> QED
  BY <1>6, <1>7 DEF p, e

\* Two divisions are one by the product.
LEMMA DivideTwice ==
  ASSUME NEW x \in Nat, NEW a \in Nat \ {0}, NEW b \in Nat \ {0}
  PROVE  /\ (x \div a) \div b = x \div (a * b)
         /\ x \div a = (x \div (a * b)) * b + ((x \div a) % b)
         /\ x \div a \in Nat
<1> DEFINE q == x \div a
           r == x % a
           p == q \div b
           e == q % b
<1>1. q \in Int /\ r \in 0 .. a - 1 /\ x = a * q + r
  OBVIOUS
<1> HIDE DEF q, r
<1>2. q \in Nat
  <2>1. SUFFICES ASSUME q <= -1 PROVE FALSE
    BY <1>1
  <2>2. a * q <= -a
    BY <2>1, <1>1
  <2>3. a * q \in Int
    BY <1>1
  <2> QED
    BY <2>2, <2>3, <1>1
<1>3. p \in Int /\ e \in 0 .. b - 1 /\ q = b * p + e
  BY <1>2
<1> HIDE DEF p, e
<1>4. x = (a * b) * p + (a * e + r)
  <2>1. a * q = a * (b * p) + a * e
    BY <1>3
  <2>2. a * (b * p) = (a * b) * p
    BY <1>3
  <2> QED
    BY <1>1, <1>3, <2>1, <2>2
<1>5. a * e + r \in 0 .. a * b - 1
  <2>1. a * e \in Nat /\ a * b \in Nat
    BY <1>3
  <2>2. a * e <= a * (b - 1)
    BY <1>3
  <2>3. a * (b - 1) = a * b - a
    OBVIOUS
  <2> QED
    BY <1>1, <2>1, <2>2, <2>3
<1>6. x \div (a * b) = p
  <2>1. PICK d : d = a * b
    OBVIOUS
  <2>2. PICK z : z = a * e + r
    OBVIOUS
  <2>3. d \in Nat \ {0}
    BY <2>1
  <2>4. x \div d = p
    BY <1>3, <1>4, <1>5, <2>1, <2>2, <2>3, QuotientIs
  <2> QED
    BY <2>1, <2>4
<1>7. b * p = p * b
  BY <1>3
<1> QED
  BY <1>2, <1>3, <1>6, <1>7 DEF q, p, e
-----------------------------------------------------------------------------
(* Words in memory.                                                        *)

Memory == [Address -> Cell]

\* The addresses of the words that lie in memory.
WordAddress == {addr \in Nat : addr + WordCells <= MemoryCells}

\* v is what loading a word has read after each cell, the most significant first.
Read(v, mem, addr) ==
  v = [k \in 0 .. WordCells |-> IF k = 0 THEN 0 ELSE v[k - 1] * CellSize + mem[addr + WordCells - k]]

LEMMA CellsOfWord ==
  ASSUME NEW addr \in WordAddress, NEW k \in 1 .. WordCells
  PROVE  addr + WordCells - k \in Address /\ (addr + WordCells - k) - addr = WordCells - k
BY SizesArePositive DEF WordAddress, Address

LEMMA ReadExists ==
  ASSUME NEW mem \in Memory, NEW addr \in WordAddress
  PROVE  \E v : Read(v, mem, addr)
<1> DEFINE step == [k \in 1 .. WordCells |-> [u \in Int |-> u * CellSize + mem[addr + WordCells - k]]]
<1>1. \A k \in 1 .. WordCells : mem[addr + WordCells - k] \in Int
  BY CellsOfWord, SizesArePositive DEF Memory, Cell
<1>2. step \in [1 .. WordCells -> [Int -> Int]]
  BY <1>1, SizesArePositive
<1> DEFINE P(f) == f[0] = 0 /\ \A k \in 1 .. WordCells : f[k] = step[k][f[k - 1]]
<1>3. \E f \in [0 .. WordCells -> Int] : P(f)
  <2> HIDE DEF step
  <2>1. PICK X : X = Int
    OBVIOUS
  <2>2. step \in Steps(WordCells, X) /\ 0 \in X
    BY <1>2, <2>1 DEF Steps
  <2>3. WordCells \in Nat
    BY SizesArePositive
  <2>4. \E f \in [0 .. WordCells -> X] : P(f)
    BY <2>2, <2>3, Recursion
  <2> QED
    BY <2>1, <2>4
<1>4. PICK f \in [0 .. WordCells -> Int] : P(f)
  BY <1>3
<1>5. ASSUME NEW k \in 0 .. WordCells
      PROVE  f[k] = IF k = 0 THEN 0 ELSE f[k - 1] * CellSize + mem[addr + WordCells - k]
  <2>1. CASE k = 0
    BY <2>1, <1>4
  <2>2. CASE k # 0
    <3>1. k \in 1 .. WordCells /\ k - 1 \in 0 .. WordCells
      BY <2>2, SizesArePositive
    <3>2. f[k - 1] \in Int
      BY <1>4, <3>1
    <3> QED
      BY <1>4, <2>2, <3>1, <3>2
  <2> QED
    BY <2>1, <2>2
<1>6. Read(f, mem, addr)
  BY <1>4, <1>5 DEF Read
<1> QED
  BY <1>6

LEMMA LoadReads ==
  ASSUME NEW mem \in Memory, NEW addr \in WordAddress
  PROVE  \E v : Read(v, mem, addr) /\ LoadWord(mem, addr) = v[WordCells]
<1> DEFINE v == CHOOSE v : Read(v, mem, addr)
<1>1. Read(v, mem, addr)
  BY ReadExists
<1>2. LoadWord(mem, addr) = v[WordCells]
  BY DEF LoadWord, Read
<1> QED
  BY <1>1, <1>2

\* What is known of a number before a cell is read, and after it.
LEMMA AppendCell ==
  ASSUME NEW u \in Nat, NEW p \in Nat \ {0}, u <= p - 1, NEW c \in Cell
  PROVE  u * CellSize + c \in 0 .. p * CellSize - 1
<1>1. CellSize \in Nat \ {0} /\ c \in 0 .. CellSize - 1
  BY SizesArePositive DEF Cell
<1>2. u * CellSize \in Nat /\ (p - 1) * CellSize = p * CellSize - CellSize /\ p * CellSize \in Nat
  BY <1>1
<1>3. u * CellSize <= (p - 1) * CellSize
  BY <1>1
<1> QED
  BY <1>1, <1>2, <1>3

LEMMA LoadIsWord ==
  ASSUME NEW mem \in Memory, NEW addr \in WordAddress
  PROVE  LoadWord(mem, addr) \in Word
<1>1. PICK v : Read(v, mem, addr) /\ LoadWord(mem, addr) = v[WordCells]
  BY LoadReads
<1> DEFINE S == {k \in Nat : k <= WordCells => v[k] \in 0 .. CellSize ^ k - 1}
<1>2. 0 \in S
  BY <1>1, CellPowers, SizesArePositive DEF Read
<1>3. ASSUME NEW k \in Nat, k \in S PROVE k + 1 \in S
  <2>1. SUFFICES ASSUME k + 1 <= WordCells PROVE v[k + 1] \in 0 .. CellSize ^ (k + 1) - 1
    OBVIOUS
  <2>2. v[k] \in 0 .. CellSize ^ k - 1 /\ CellSize ^ k \in Nat \ {0} /\ CellSize ^ (k + 1) = CellSize ^ k * CellSize
    BY <1>3, <2>1, CellPowers, SizesArePositive
  <2>3. v[k + 1] = v[k] * CellSize + mem[addr + WordCells - (k + 1)]
    BY <1>1, <2>1, SizesArePositive DEF Read
  <2>4. mem[addr + WordCells - (k + 1)] \in Cell
    <3>1. k + 1 \in 1 .. WordCells
      BY <2>1, SizesArePositive
    <3> QED
      BY <3>1, CellsOfWord DEF Memory
  <2>5. PICK p, u : p = CellSize ^ k /\ u = v[k]
    OBVIOUS
  <2>6. u \in Nat /\ p \in Nat \ {0} /\ u <= p - 1
    BY <2>2, <2>5
  <2> QED
    BY <2>2, <2>3, <2>4, <2>5, <2>6, AppendCell
<1>4. WordCells \in S
  <2> HIDE DEF S
  <2> QED
    BY <1>2, <1>3, NumberInduction, SizesArePositive
<1> QED
  BY <1>1, <1>4, CellPowers, SizesArePositive DEF Word

LEMMA StoreIsMemory ==
  ASSUME NEW mem \in Memory, NEW addr \in Int, NEW w \in Int
  PROVE  StoreWord(mem, addr, w) \in Memory
<1>1. ASSUME NEW i \in Address, i - addr \in 0 .. WordCells - 1
      PROVE  (w \div CellSize ^ (i - addr)) % CellSize \in Cell
  <2>1. PICK p : p = CellSize ^ (i - addr)
    OBVIOUS
  <2>2. p \in Nat \ {0}
    BY <1>1, <2>1, CellPowers, SizesArePositive DEF Address
  <2>3. w \div p \in Int
    BY <2>2
  <2> QED
    BY <2>1, <2>3, SizesArePositive DEF Cell
<1> QED
  BY <1>1 DEF StoreWord, Memory

\* A word depends on its own cells only.
LEMMA SameCellsSameWord ==
  ASSUME NEW mem \in Memory, NEW other \in Memory, NEW addr \in WordAddress,
         \A i \in Address : i - addr \in 0 .. WordCells - 1 => mem[i] = other[i]
  PROVE  LoadWord(mem, addr) = LoadWord(other, addr)
<1>1. PICK v : Read(v, mem, addr) /\ LoadWord(mem, addr) = v[WordCells]
  BY LoadReads
<1>2. PICK u : Read(u, other, addr) /\ LoadWord(other, addr) = u[WordCells]
  BY LoadReads
<1> DEFINE S == {k \in Nat : k <= WordCells => v[k] = u[k]}
<1>3. 0 \in S
  BY <1>1, <1>2, SizesArePositive DEF Read
<1>4. ASSUME NEW k \in Nat, k \in S PROVE k + 1 \in S
  <2>1. SUFFICES ASSUME k + 1 <= WordCells PROVE v[k + 1] = u[k + 1]
    OBVIOUS
  <2>2. /\ v[k + 1] = v[k] * CellSize + mem[addr + WordCells - (k + 1)]
        /\ u[k + 1] = u[k] * CellSize + other[addr + WordCells - (k + 1)]
    BY <1>1, <1>2, <2>1, SizesArePositive DEF Read
  <2>3. mem[addr + WordCells - (k + 1)] = other[addr + WordCells - (k + 1)]
    <3>1. k + 1 \in 1 .. WordCells
      BY <2>1, SizesArePositive
    <3>2. /\ addr + WordCells - (k + 1) \in Address
          /\ (addr + WordCells - (k + 1)) - addr = WordCells - (k + 1)
      BY <3>1, CellsOfWord
    <3>3. WordCells - (k + 1) \in 0 .. WordCells - 1
      BY <3>1, SizesArePositive
    <3> QED
      BY <3>2, <3>3
  <2>4. v[k] = u[k]
    BY <1>4, <2>1, SizesArePositive
  <2> QED
    BY <2>2, <2>3, <2>4
<1>5. WordCells \in S
  <2> HIDE DEF S
  <2> QED
    BY <1>3, <1>4, NumberInduction, SizesArePositive
<1> QED
  BY <1>1, <1>2, <1>5

\* A word that is stored is the word that is loaded.
LEMMA LoadOfStored ==
  ASSUME NEW mem \in Memory, NEW addr \in WordAddress, NEW w \in Word
  PROVE  LoadWord(StoreWord(mem, addr, w), addr) = w
<1> DEFINE stored == StoreWord(mem, addr, w)
<1>w. w \in Nat /\ w < WordSize /\ addr \in Nat
  BY SizesArePositive DEF Word, WordAddress
<1>1. stored \in Memory
  BY <1>w, StoreIsMemory
<1>2. ASSUME NEW k \in 1 .. WordCells
      PROVE  stored[addr + WordCells - k] = (w \div CellSize ^ (WordCells - k)) % CellSize
  <2>1. addr + WordCells - k \in Address /\ (addr + WordCells - k) - addr = WordCells - k
    BY CellsOfWord
  <2>2. WordCells - k \in 0 .. WordCells - 1
    BY SizesArePositive
  <2> QED
    BY <2>1, <2>2 DEF StoreWord
<1> HIDE DEF stored
<1>3. PICK v : Read(v, stored, addr) /\ LoadWord(stored, addr) = v[WordCells]
  BY <1>1, LoadReads
<1> DEFINE S == {k \in Nat : k <= WordCells => v[k] = w \div CellSize ^ (WordCells - k)}
<1>4. 0 \in S
  <2>1. v[0] = 0
    BY <1>3, SizesArePositive DEF Read
  <2>2. w \div WordSize = 0
    <3>1. w \in 0 .. WordSize - 1 /\ WordSize * 0 = 0
      BY <1>w, SizesArePositive
    <3>2. w = WordSize * 0 + w
      BY <3>1, <1>w
    <3> QED
      BY <3>1, <3>2, <1>w, SizesArePositive, QuotientIs
  <2>3. WordCells - 0 = WordCells
    BY SizesArePositive
  <2> QED
    BY <2>1, <2>2, <2>3, CellPowers
<1>5. ASSUME NEW k \in Nat, k \in S PROVE k + 1 \in S
  <2>1. SUFFICES ASSUME k + 1 <= WordCells PROVE v[k + 1] = w \div CellSize ^ (WordCells - (k + 1))
    OBVIOUS
  <2>2. PICK m : m = WordCells - (k + 1)
    OBVIOUS
  <2>3. m \in 0 .. WordCells - 1 /\ WordCells - k = m + 1 /\ k + 1 \in 1 .. WordCells
    BY <2>1, <2>2, SizesArePositive
  <2>4. PICK p : p = CellSize ^ m
    OBVIOUS
  <2>5. p \in Nat \ {0} /\ CellSize ^ (m + 1) = p * CellSize
    BY <2>3, <2>4, CellPowers, SizesArePositive
  <2>6. v[k] = w \div (p * CellSize)
    <3>1. v[k] = w \div CellSize ^ (WordCells - k)
      BY <1>5, <2>1, SizesArePositive
    <3> QED
      BY <2>3, <2>5, <3>1
  <2>7. v[k + 1] = v[k] * CellSize + stored[addr + WordCells - (k + 1)]
    BY <1>3, <2>1, SizesArePositive DEF Read
  <2>8. stored[addr + WordCells - (k + 1)] = (w \div p) % CellSize
    BY <1>2, <2>2, <2>3, <2>4
  <2>9. w \div p = (w \div (p * CellSize)) * CellSize + ((w \div p) % CellSize)
    <3>1. PICK b : b = CellSize
      OBVIOUS
    <3>2. b \in Nat \ {0}
      BY <3>1, SizesArePositive
    <3>3. w \div p = (w \div (p * b)) * b + ((w \div p) % b)
      BY <1>w, <2>5, <3>2, DivideTwice
    <3> QED
      BY <3>1, <3>3
  <2> QED
    BY <2>2, <2>4, <2>6, <2>7, <2>8, <2>9
<1>6. WordCells \in S
  <2> HIDE DEF S
  <2> QED
    BY <1>4, <1>5, NumberInduction, SizesArePositive
<1>7. v[WordCells] = w
  <2>1. WordCells - WordCells = 0
    BY SizesArePositive
  <2>2. v[WordCells] = w \div 1
    BY <1>6, <2>1, CellPowers, SizesArePositive
  <2> QED
    BY <2>2, <1>w
<1> QED
  BY <1>3, <1>7 DEF stored

\* The other words are not disturbed.
LEMMA LoadElsewhere ==
  ASSUME NEW mem \in Memory, NEW addr \in WordAddress, NEW w \in Word,
         NEW place \in WordAddress, place >= addr + WordCells
  PROVE  LoadWord(StoreWord(mem, addr, w), place) = LoadWord(mem, place)
<1> DEFINE stored == StoreWord(mem, addr, w)
<1>w. w \in Int /\ addr \in Nat /\ place \in Nat
  BY SizesArePositive DEF Word, WordAddress
<1>1. stored \in Memory
  BY <1>w, StoreIsMemory
<1>2. ASSUME NEW i \in Address, i - place \in 0 .. WordCells - 1
      PROVE  stored[i] = mem[i]
  <2>1. ~(i - addr \in 0 .. WordCells - 1)
    BY <1>2, <1>w, SizesArePositive DEF Address
  <2> QED
    BY <2>1 DEF StoreWord
<1> HIDE DEF stored
<1>3. LoadWord(stored, place) = LoadWord(mem, place)
  BY <1>1, <1>2, SameCellsSameWord
<1> QED
  BY <1>3 DEF stored
-----------------------------------------------------------------------------
(* Arithmetic.                                                             *)

LEMMA WrapIsWord == ASSUME NEW x \in Int PROVE Wrap(x) \in Word
BY SizesArePositive DEF Wrap, Word

LEMMA SignedFacts ==
  ASSUME NEW x \in Word
  PROVE  /\ Signed(x) \in Int /\ x \in Int
         /\ Signed(x) = 0 <=> x = 0
BY SizesArePositive DEF Word, Signed

LEMMA QuotientIsInt ==
  ASSUME NEW x \in Int, NEW y \in Int, y # 0
  PROVE  Quotient(x, y) \in Int /\ Remainder(x, y) \in Int
<1>1. Abs(x) \in Nat /\ Abs(y) \in Nat \ {0}
  BY DEF Abs
<1>2. PICK a, b : a = Abs(x) /\ b = Abs(y)
  OBVIOUS
<1>3. a \div b \in Int
  BY <1>1, <1>2
<1>4. Quotient(x, y) \in Int
  <2>1. (-1) * (a \div b) \in Int /\ 1 * (a \div b) \in Int
    BY <1>3
  <2> QED
    BY <1>2, <2>1 DEF Quotient
<1>5. y * Quotient(x, y) \in Int
  BY <1>4
<1> QED
  BY <1>4, <1>5 DEF Remainder

LEMMA ResultIsWord ==
  ASSUME NEW x \in Word, NEW y \in Word,
         NEW op \in {"add", "sub", "cmp", "mul", "div", "mod", "and", "or", "xor", "shl", "shr"},
         op \in {"div", "mod"} => y # 0
  PROVE  Result(op, x, y) \in Word
<1>0. x \in Nat /\ y \in Nat /\ x < WordSize
  BY SizesArePositive DEF Word
<1>1. CASE op \in {"add", "sub", "cmp", "mul"}
  <2>1. x + y \in Int /\ x - y \in Int /\ x * y \in Int
    BY <1>0
  <2>2. Result(op, x, y) \in {Wrap(x + y), Wrap(x - y), Wrap(x * y)}
    BY <1>1 DEF Result
  <2> QED
    BY <2>1, <2>2, WrapIsWord
<1>2. CASE op \in {"div", "mod"}
  <2>1. Signed(x) \in Int /\ Signed(y) \in Int /\ Signed(y) # 0
    BY <1>2, SignedFacts
  <2>2. Quotient(Signed(x), Signed(y)) \in Int /\ Remainder(Signed(x), Signed(y)) \in Int
    BY <2>1, QuotientIsInt
  <2>3. Result(op, x, y) \in {Wrap(Quotient(Signed(x), Signed(y))), Wrap(Remainder(Signed(x), Signed(y)))}
    BY <1>2 DEF Result
  <2> QED
    BY <2>2, <2>3, WrapIsWord
<1>3. CASE op \in {"and", "or", "xor"}
  <2>1. Result(op, x, y) \in {BitAnd(x, y), BitOr(x, y), BitXor(x, y)}
    BY <1>3 DEF Result
  <2> QED
    BY <2>1, BitwiseAssumption
<1>4. CASE op \in {"shl", "shr"}
  <2>1. PICK k : k = y % WordBits
    OBVIOUS
  <2>2. k \in 0 .. WordBits
    BY <1>0, <2>1, SizesArePositive
  <2>3. PICK p : p = 2 ^ k
    OBVIOUS
  <2>4. p \in Nat \ {0}
    BY <2>2, <2>3, BitPowers
  <2>5. CASE op = "shl"
    <3>1. x * p \in Int
      BY <1>0, <2>4
    <3>2. Result(op, x, y) = Wrap(x * p)
      BY <2>1, <2>3, <2>5 DEF Result
    <3> QED
      BY <3>1, <3>2, WrapIsWord
  <2>6. CASE op = "shr"
    <3>1. Result(op, x, y) = x \div p
      BY <2>1, <2>3, <2>6 DEF Result
    <3>2. x \div p \in Nat
      BY <1>0, <2>4, DivideTwice
    <3>3. x = p * (x \div p) + (x % p) /\ x % p \in Nat
      BY <1>0, <2>4
    <3>4. PICK q : q = x \div p
      OBVIOUS
    <3>5. q <= p * q
      BY <2>4, <3>2, <3>4
    <3>6. p * q \in Int
      BY <2>4, <3>2, <3>4
    <3>7. q <= x
      BY <1>0, <3>2, <3>3, <3>4, <3>5, <3>6
    <3> QED
      BY <1>0, <3>1, <3>2, <3>4, <3>7, SizesArePositive DEF Word
  <2> QED
    BY <1>4, <2>5, <2>6
<1> QED
  BY <1>1, <1>2, <1>3, <1>4
-----------------------------------------------------------------------------
(* States.                                                                 *)

LEMMA InitialIsState == InitialState \in State
<1>1. 0 \in Index /\ MemoryCells \in Index /\ 0 \in Word /\ 0 \in Cell
  BY SizesArePositive DEF Index, Word, Cell
<1> QED
  BY <1>1 DEF InitialState, State, Reason

LEMMA Changed ==
  ASSUME NEW s \in State
  PROVE  /\ \A n \in Int : [s EXCEPT !.pc = n % IndexSize] \in State
         /\ \A n \in Index : [s EXCEPT !.pc = n] \in State /\ [s EXCEPT !.sp = n] \in State
         /\ \A flags \in SUBSET Flag : [s EXCEPT !.flags = flags] \in State
         /\ \A why \in Reason : [s EXCEPT !.halted = why] \in State
         /\ \A r \in 0 .. Registers - 1, w \in Word : [s EXCEPT !.regs[r] = w] \in State
         /\ \A mem \in Memory : [s EXCEPT !.mem = mem] \in State
<1>1. \A n \in Int : n % IndexSize \in Index
  BY SizesArePositive DEF Index
<1>2. \A n \in Index : [s EXCEPT !.pc = n] \in State /\ [s EXCEPT !.sp = n] \in State
  BY DEF State
<1>3. \A flags \in SUBSET Flag : [s EXCEPT !.flags = flags] \in State
  BY DEF State
<1>4. \A why \in Reason : [s EXCEPT !.halted = why] \in State
  BY DEF State
<1>5. \A r \in 0 .. Registers - 1, w \in Word : [s EXCEPT !.regs[r] = w] \in State
  BY DEF State
<1>6. \A mem \in Memory : [s EXCEPT !.mem = mem] \in State
  BY DEF State, Memory
<1> QED
  BY <1>1, <1>2, <1>3, <1>4, <1>5, <1>6

LEMMA Moved ==
  ASSUME NEW s \in State
  PROVE  /\ Advance(s) \in State /\ Fault(s) \in State
         /\ \A target \in Int : Jump(s, target) \in State
         /\ \A r \in 0 .. Registers - 1, w \in Word : Write(s, r, w) \in State
<1>0. s.pc \in Int /\ s.flags \in SUBSET Flag
  BY SizesArePositive DEF State, Index
<1>1. Advance(s) \in State
  <2>1. s.pc + 1 \in Int
    BY <1>0
  <2>2. Advance(s) = [s EXCEPT !.pc = (s.pc + 1) % IndexSize]
    BY DEF Advance
  <2> QED
    BY <2>1, <2>2, Changed
<1>2. Fault(s) \in State
  <2>1. s.flags \cup {"F"} \in SUBSET Flag
    BY <1>0 DEF Flag
  <2> DEFINE t == [s EXCEPT !.flags = s.flags \cup {"F"}]
  <2>2. t \in State
    BY <2>1, Changed
  <2>3. Fault(s) = [t EXCEPT !.halted = "Fault"]
    BY DEF Fault
  <2> HIDE DEF t
  <2> QED
    BY <2>2, <2>3, Changed DEF Reason
<1> QED
  BY <1>1, <1>2, Changed DEF Jump, Write
-----------------------------------------------------------------------------
(* Instructions, which keep to states.                                     *)

\* The operands a well-formed instruction uses are registers.
LEMMA OperandsAreRegisters ==
  ASSUME NEW ins \in Instruction, WellFormed(ins)
  PROVE  /\ ins.op \in OneReg \cup TwoRegs \cup ThreeRegs => ins.a \in 0 .. Registers - 1
         /\ ins.op \in TwoRegs \cup ThreeRegs => ins.b \in 0 .. Registers - 1
         /\ ins.op \in ThreeRegs => ins.c \in 0 .. Registers - 1
<1>1. ins.a \in Nat /\ ins.b \in Nat /\ ins.c \in Nat
  BY DEF Instruction
<1>2. ins["a"] = ins.a /\ ins["b"] = ins.b /\ ins["c"] = ins.c
  OBVIOUS
<1>3. ins.op \in ThreeRegs => Operands(ins.op) = {"a", "b", "c"}
  BY DEF Operands, OneReg, TwoRegs, ThreeRegs
<1>4. ins.op \in TwoRegs => Operands(ins.op) = {"a", "b"}
  BY DEF Operands, OneReg, TwoRegs, ThreeRegs
<1>5. ins.op \in OneReg => Operands(ins.op) = {"a"}
  BY DEF Operands, OneReg, TwoRegs, ThreeRegs
<1> QED
  BY <1>1, <1>2, <1>3, <1>4, <1>5, SizesArePositive DEF WellFormed

LEMMA Contents ==
  ASSUME NEW s \in State
  PROVE  /\ \A r \in 0 .. Registers - 1 : s.regs[r] \in Word
         /\ s.mem \in Memory /\ s.pc \in Index /\ s.sp \in Index /\ s.flags \in SUBSET Flag
BY DEF State, Memory

LEMMA SetZNIsFlags == ASSUME NEW flags \in SUBSET Flag, NEW r PROVE SetZN(flags, r) \in SUBSET Flag
BY DEF SetZN, If, Flag

LEMMA MoveIsState ==
  ASSUME NEW s \in State, NEW ins \in Instruction, WellFormed(ins), ins.op \in {"movi", "mov"}
  PROVE  Move(s, ins) \in State
<1>1. ins.a \in 0 .. Registers - 1 /\ (ins.op = "mov" => ins.b \in 0 .. Registers - 1) /\ ins.imm \in Int
  BY OperandsAreRegisters DEF OneReg, TwoRegs, Instruction
<1> DEFINE w == IF ins.op = "movi" THEN Wrap(ins.imm) ELSE s.regs[ins.b]
<1>2. w \in Word
  BY <1>1, WrapIsWord, Contents
<1>3. Move(s, ins) = Advance(Write(s, ins.a, w))
  BY DEF Move
<1> HIDE DEF w
<1>4. Write(s, ins.a, w) \in State
  BY <1>1, <1>2, Moved
<1> QED
  BY <1>3, <1>4, Moved

LEMMA AddSubIsState ==
  ASSUME NEW s \in State, NEW ins \in Instruction, WellFormed(ins), ins.op \in {"add", "sub", "cmp"}
  PROVE  AddSub(s, ins) \in State
<1> DEFINE x == s.regs[IF ins.op = "cmp" THEN ins.a ELSE ins.b]
           y == s.regs[IF ins.op = "cmp" THEN ins.b ELSE ins.c]
           r == Result(ins.op, x, y)
           flags == SetZN(s.flags, r) \cup If("C", Carry(ins.op, x, y, r)) \cup If("V", Overflow(ins.op, x, y, r))
           flagged == [s EXCEPT !.flags = flags]
           t == IF ins.op = "cmp" THEN flagged ELSE Write(flagged, ins.a, r)
<1>1. /\ ins.a \in 0 .. Registers - 1 /\ ins.b \in 0 .. Registers - 1
      /\ ins.op # "cmp" => ins.c \in 0 .. Registers - 1
  BY OperandsAreRegisters DEF TwoRegs, ThreeRegs
<1>2. x \in Word /\ y \in Word
  BY <1>1, Contents
<1>3. AddSub(s, ins) = Advance(t)
  BY DEF AddSub
<1> HIDE DEF x, y
<1>4. r \in Word
  BY <1>2, ResultIsWord
<1> HIDE DEF r
<1>5. flags \in SUBSET Flag
  BY Contents, SetZNIsFlags DEF If, Flag
<1> HIDE DEF flags
<1>6. flagged \in State
  BY <1>5, Changed
<1> HIDE DEF flagged
<1>7. t \in State
  BY <1>1, <1>4, <1>6, Moved
<1> HIDE DEF t
<1> QED
  BY <1>3, <1>7, Moved

LEMMA ComputeIsState ==
  ASSUME NEW s \in State, NEW ins \in Instruction, WellFormed(ins),
         ins.op \in {"mul", "div", "mod", "and", "or", "xor", "shl", "shr", "addi", "neg", "not"}
  PROVE  Compute(s, ins) \in State
<1> DEFINE x == s.regs[ins.b]
           y == s.regs[ins.c]
           r == CASE ins.op = "addi" -> Wrap(x + ins.imm)
                  [] ins.op = "neg"  -> Wrap(-x)
                  [] ins.op = "not"  -> WordSize - 1 - x
                  [] OTHER           -> Result(ins.op, x, y)
           flags == SetZN(s.flags, r)
           flagged == [s EXCEPT !.flags = flags]
           t == Write(flagged, ins.a, r)
<1>1. /\ ins.a \in 0 .. Registers - 1 /\ ins.b \in 0 .. Registers - 1 /\ ins.imm \in Int
      /\ ins.op \notin {"addi", "neg", "not"} => ins.c \in 0 .. Registers - 1
  BY OperandsAreRegisters DEF TwoRegs, ThreeRegs, Instruction
<1>2. x \in Word /\ (ins.op \notin {"addi", "neg", "not"} => y \in Word)
  BY <1>1, Contents
<1>3. Compute(s, ins) = IF ins.op \in {"div", "mod"} /\ y = 0 THEN Fault(s) ELSE Advance(t)
  BY DEF Compute
<1> HIDE DEF x, y
<1>4. CASE ins.op \in {"div", "mod"} /\ y = 0
  BY <1>3, <1>4, Moved
<1>5. CASE ~(ins.op \in {"div", "mod"} /\ y = 0)
  <2>1. r \in Word
    <3>0. x \in Nat /\ x < WordSize
      BY <1>2, SizesArePositive DEF Word
    <3>1. x + ins.imm \in Int /\ -x \in Int /\ WordSize - 1 - x \in Word
      BY <1>1, <3>0, SizesArePositive DEF Word
    <3>2. CASE ins.op \in {"addi", "neg", "not"}
      BY <3>1, <3>2, WrapIsWord
    <3>3. CASE ins.op \notin {"addi", "neg", "not"}
      <4>1. y \in Word /\ (ins.op \in {"div", "mod"} => y # 0)
        BY <1>2, <1>5, <3>3
      <4>2. Result(ins.op, x, y) \in Word
        BY <1>2, <3>3, <4>1, ResultIsWord
      <4> QED
        BY <3>3, <4>2
    <3> QED
      BY <3>2, <3>3
  <2> HIDE DEF r
  <2>2. flags \in SUBSET Flag
    BY Contents, SetZNIsFlags
  <2> HIDE DEF flags
  <2>3. flagged \in State
    BY <2>2, Changed
  <2> HIDE DEF flagged
  <2>4. t \in State
    BY <1>1, <2>1, <2>3, Moved
  <2> HIDE DEF t
  <2> QED
    BY <1>3, <1>5, <2>4, Moved
<1> QED
  BY <1>4, <1>5

LEMMA BranchIsState ==
  ASSUME NEW s \in State, NEW ins \in Instruction
  PROVE  Branch(s, ins) \in State
<1>1. Branch(s, ins) = Jump(s, ins.imm) \/ Branch(s, ins) = Advance(s)
  BY DEF Branch
<1>2. ins.imm \in Int
  BY DEF Instruction
<1> QED
  BY <1>1, <1>2, Moved

LEMMA CellsAreWords == Cell \subseteq Word /\ Index \subseteq Word
<1>1. WordCells - 1 \in 0 .. WordCells - 1 /\ (WordCells - 1) + 1 = WordCells
  BY SizesArePositive
<1>2. PICK p : p = CellSize ^ (WordCells - 1)
  OBVIOUS
<1>3. p \in Nat \ {0} /\ WordSize = p * CellSize
  BY <1>1, <1>2, CellPowers, SizesArePositive
<1>4. CellSize <= WordSize
  BY <1>3, SizesArePositive
<1> QED
  BY <1>4, SizesArePositive DEF Cell, Word, Index

LEMMA TransferIsState ==
  ASSUME NEW s \in State, NEW ins \in Instruction, WellFormed(ins), ins.op \in {"ld", "st", "ldb", "stb"}
  PROVE  Transfer(s, ins) \in State
<1> DEFINE addr  == Wrap(s.regs[ins.b] + ins.imm)
           width == IF ins.op \in {"ld", "st"} THEN WordCells ELSE 1
           w     == s.regs[ins.a]
<1>1. ins.a \in 0 .. Registers - 1 /\ ins.b \in 0 .. Registers - 1 /\ ins.imm \in Int
  BY OperandsAreRegisters DEF TwoRegs, Instruction
<1>2. addr \in Word /\ w \in Word
  <2>1. s.regs[ins.b] \in Word /\ s.regs[ins.a] \in Word
    BY <1>1, Contents
  <2>2. s.regs[ins.b] + ins.imm \in Int
    BY <1>1, <2>1, SignedFacts
  <2> QED
    BY <2>1, <2>2, WrapIsWord
<1>3. addr \in Nat /\ w \in Int
  BY <1>2, SizesArePositive DEF Word
<1>4. s.mem \in Memory
  BY Contents
<1>5. /\ ~InMemory(addr, width) => Transfer(s, ins) = Fault(s)
      /\ InMemory(addr, width) => Transfer(s, ins) =
           Advance(CASE ins.op = "ld"  -> Write(s, ins.a, LoadWord(s.mem, addr))
                     [] ins.op = "ldb" -> Write(s, ins.a, s.mem[addr])
                     [] ins.op = "st"  -> [s EXCEPT !.mem = StoreWord(s.mem, addr, w)]
                     [] ins.op = "stb" -> [s EXCEPT !.mem = [s.mem EXCEPT ![addr] = w % CellSize]])
  BY DEF Transfer
<1> HIDE DEF addr, w
<1>6. CASE ~InMemory(addr, width)
  BY <1>5, <1>6, Moved
<1>7. CASE InMemory(addr, width) /\ ins.op = "ld"
  <2>1. addr \in WordAddress
    BY <1>3, <1>7, SizesArePositive DEF InMemory, WordAddress
  <2>2. LoadWord(s.mem, addr) \in Word
    BY <1>4, <2>1, LoadIsWord
  <2>3. Write(s, ins.a, LoadWord(s.mem, addr)) \in State
    BY <1>1, <2>2, Moved
  <2> QED
    BY <1>5, <1>7, <2>3, Moved
<1>8. CASE InMemory(addr, width) /\ ins.op = "ldb"
  <2>1. addr \in Address
    BY <1>3, <1>8, SizesArePositive DEF InMemory, Address
  <2>2. s.mem[addr] \in Word
    BY <1>4, <2>1, CellsAreWords DEF Memory
  <2>3. Write(s, ins.a, s.mem[addr]) \in State
    BY <1>1, <2>2, Moved
  <2> QED
    BY <1>5, <1>8, <2>3, Moved
<1>9. CASE InMemory(addr, width) /\ ins.op = "st"
  <2>1. StoreWord(s.mem, addr, w) \in Memory
    BY <1>3, <1>4, StoreIsMemory
  <2>2. [s EXCEPT !.mem = StoreWord(s.mem, addr, w)] \in State
    BY <2>1, Changed
  <2> QED
    BY <1>5, <1>9, <2>2, Moved
<1>10. CASE InMemory(addr, width) /\ ins.op = "stb"
  <2>1. w % CellSize \in Cell
    BY <1>3, SizesArePositive DEF Cell
  <2>2. [s.mem EXCEPT ![addr] = w % CellSize] \in Memory
    BY <1>4, <2>1 DEF Memory
  <2>3. [s EXCEPT !.mem = [s.mem EXCEPT ![addr] = w % CellSize]] \in State
    BY <2>2, Changed
  <2> QED
    BY <1>5, <1>10, <2>3, Moved
<1> QED
  BY <1>6, <1>7, <1>8, <1>9, <1>10

\* What push and call do to a state that has room for a word.
LEMMA PushDoes ==
  ASSUME NEW s \in State, NEW ins \in Instruction, WellFormed(ins), ins.op \in {"push", "call"}
  PROVE  \/ Push(s, ins) = Fault(s)
         \/ \E w \in Word, t \in State :
              /\ s.sp - WordCells \in WordAddress
              /\ t = [s EXCEPT !.mem = StoreWord(s.mem, s.sp - WordCells, w), !.sp = s.sp - WordCells]
              /\ IF ins.op = "push" THEN w = s.regs[ins.a] /\ Push(s, ins) = Advance(t)
                 ELSE w = (s.pc + 1) % IndexSize /\ Push(s, ins) = Jump(t, ins.imm)
<1> DEFINE w == IF ins.op = "push" THEN s.regs[ins.a] ELSE (s.pc + 1) % IndexSize
           mem == StoreWord(s.mem, s.sp - WordCells, w)
           stored == [s EXCEPT !.mem = mem]
           t == [stored EXCEPT !.sp = s.sp - WordCells]
<1>0. s.sp \in Nat /\ s.pc \in Nat /\ s.mem \in Memory
  BY Contents, SizesArePositive DEF Index
<1>1. SUFFICES ASSUME Push(s, ins) # Fault(s)
               PROVE  \E u \in Word, v \in State :
                        /\ s.sp - WordCells \in WordAddress
                        /\ v = [s EXCEPT !.mem = StoreWord(s.mem, s.sp - WordCells, u), !.sp = s.sp - WordCells]
                        /\ IF ins.op = "push" THEN u = s.regs[ins.a] /\ Push(s, ins) = Advance(v)
                           ELSE u = (s.pc + 1) % IndexSize /\ Push(s, ins) = Jump(v, ins.imm)
  OBVIOUS
<1>a. s.sp >= WordCells /\ s.sp <= MemoryCells
  <2>1. ~(s.sp < WordCells \/ s.sp > MemoryCells)
    BY <1>1 DEF Push
  <2> QED
    BY <1>0, <2>1, SizesArePositive
<1>2. s.sp - WordCells \in WordAddress /\ s.sp - WordCells \in Index /\ s.sp - WordCells \in Int
  BY <1>0, <1>a, SizesArePositive DEF WordAddress, Index
<1>3. w \in Word
  <2>1. CASE ins.op = "push"
    <3>1. ins.a \in 0 .. Registers - 1
      BY <2>1, OperandsAreRegisters DEF OneReg
    <3> QED
      BY <2>1, <3>1, Contents
  <2>2. CASE ins.op # "push"
    <3>1. (s.pc + 1) % IndexSize \in Index
      BY <1>0, SizesArePositive DEF Index
    <3> QED
      BY <2>2, <3>1, CellsAreWords
  <2> QED
    BY <2>1, <2>2
<1>4. Push(s, ins) = IF ins.op = "call" THEN Jump(t, ins.imm) ELSE Advance(t)
  BY <1>0, <1>a, SizesArePositive DEF Push
<1>5. ins.op = "push" => w = s.regs[ins.a]
  OBVIOUS
<1>6. ins.op # "push" => w = (s.pc + 1) % IndexSize
  OBVIOUS
<1>7. t = [s EXCEPT !.mem = StoreWord(s.mem, s.sp - WordCells, w), !.sp = s.sp - WordCells]
  OBVIOUS
<1> HIDE DEF w
<1>8. mem \in Memory
  <2>1. w \in Int
    BY <1>3, SignedFacts
  <2> QED
    BY <1>0, <1>2, <2>1, StoreIsMemory
<1> HIDE DEF mem
<1>9. stored \in State
  BY <1>8, Changed
<1> HIDE DEF stored
<1>10. t \in State
  BY <1>2, <1>9, Changed
<1> HIDE DEF t
<1> QED
  BY <1>2, <1>3, <1>4, <1>5, <1>6, <1>7, <1>10

\* What pop and ret do to a state that has a word on its stack.
LEMMA PopDoes ==
  ASSUME NEW s \in State, NEW ins \in Instruction, WellFormed(ins), ins.op \in {"pop", "ret"}
  PROVE  \/ Pop(s, ins) = Fault(s)
         \/ \E w \in Word, t \in State :
              /\ s.sp \in WordAddress /\ w = LoadWord(s.mem, s.sp)
              /\ t = [s EXCEPT !.sp = s.sp + WordCells]
              /\ IF ins.op = "pop" THEN Pop(s, ins) = Advance(Write(t, ins.a, w))
                 ELSE Pop(s, ins) = Jump(t, w)
<1> DEFINE w == LoadWord(s.mem, s.sp)
           t == [s EXCEPT !.sp = s.sp + WordCells]
<1>0. s.sp \in Nat /\ s.mem \in Memory
  BY Contents, SizesArePositive DEF Index
<1>1. CASE s.sp > MemoryCells - WordCells
  BY <1>1 DEF Pop
<1>2. CASE ~(s.sp > MemoryCells - WordCells)
  <2>1. s.sp \in WordAddress /\ s.sp + WordCells \in Index
    BY <1>0, <1>2, SizesArePositive DEF WordAddress, Index
  <2>2. w \in Word
    BY <1>0, <2>1, LoadIsWord
  <2>3. t \in State
    BY <2>1, Changed
  <2>4. Pop(s, ins) = IF ins.op = "ret" THEN Jump(t, w) ELSE Advance(Write(t, ins.a, w))
    BY <1>2 DEF Pop
  <2>5. ins.op = "pop" \/ ins.op = "ret"
    OBVIOUS
  <2> QED
    BY <2>1, <2>2, <2>3, <2>4, <2>5
<1> QED
  BY <1>1, <1>2

LEMMA PushIsState ==
  ASSUME NEW s \in State, NEW ins \in Instruction, WellFormed(ins), ins.op \in {"push", "call"}
  PROVE  Push(s, ins) \in State
<1>1. CASE Push(s, ins) = Fault(s)
  BY <1>1, Moved
<1>2. CASE Push(s, ins) # Fault(s)
  <2>1. PICK t \in State : Push(s, ins) = Advance(t) \/ Push(s, ins) = Jump(t, ins.imm)
    BY <1>2, PushDoes
  <2>2. ins.imm \in Int
    BY DEF Instruction
  <2> QED
    BY <2>1, <2>2, Moved
<1> QED
  BY <1>1, <1>2

LEMMA PopIsState ==
  ASSUME NEW s \in State, NEW ins \in Instruction, WellFormed(ins), ins.op \in {"pop", "ret"}
  PROVE  Pop(s, ins) \in State
<1>1. CASE Pop(s, ins) = Fault(s)
  BY <1>1, Moved
<1>2. CASE Pop(s, ins) # Fault(s)
  <2>1. PICK w \in Word, t \in State :
          IF ins.op = "pop" THEN Pop(s, ins) = Advance(Write(t, ins.a, w)) ELSE Pop(s, ins) = Jump(t, w)
    BY <1>2, PopDoes
  <2>2. w \in Int
    BY SignedFacts
  <2>3. CASE ins.op = "pop"
    <3>1. ins.a \in 0 .. Registers - 1
      BY <2>3, OperandsAreRegisters DEF OneReg
    <3>2. Write(t, ins.a, w) \in State
      BY <3>1, Moved
    <3> QED
      BY <2>1, <2>3, <3>2, Moved
  <2>4. CASE ins.op = "ret"
    BY <2>1, <2>2, <2>4, Moved
  <2> QED
    BY <2>3, <2>4
<1> QED
  BY <1>1, <1>2

\* Which part of the machine an instruction is for.
LEMMA ExecuteIs ==
  ASSUME NEW s, s.halted = "Running", NEW ins, WellFormed(ins)
  PROVE  /\ ins.op = "nop" => Execute(s, ins) = Advance(s)
         /\ ins.op = "halt" => Execute(s, ins) = [s EXCEPT !.halted = "Halt"]
         /\ ins.op \in {"movi", "mov"} => Execute(s, ins) = Move(s, ins)
         /\ ins.op \in {"add", "sub", "cmp"} => Execute(s, ins) = AddSub(s, ins)
         /\ ins.op \in {"mul", "div", "mod", "and", "or", "xor", "shl", "shr", "addi", "neg", "not"} =>
              Execute(s, ins) = Compute(s, ins)
         /\ ins.op \in {"jmp", "jz", "jnz", "jn"} => Execute(s, ins) = Branch(s, ins)
         /\ ins.op \in {"ld", "st", "ldb", "stb"} => Execute(s, ins) = Transfer(s, ins)
         /\ ins.op \in {"push", "call"} => Execute(s, ins) = Push(s, ins)
         /\ ins.op \in {"pop", "ret"} => Execute(s, ins) = Pop(s, ins)
BY DEF Execute

(* An instruction, well encoded or not, takes every state of the machine   *)
(* to a state: registers hold words, memory cells, pc and sp stay within   *)
(* their 32 bits, whatever overflows, wraps or faults.                     *)
THEOREM InstructionsKeepStates ==
  ASSUME NEW s \in State, NEW ins \in Instruction
  PROVE  Execute(s, ins) \in State
<1>1. CASE s.halted # "Running"
  BY <1>1 DEF Execute
<1>2. CASE s.halted = "Running" /\ ~WellFormed(ins)
  <2>1. Execute(s, ins) = Fault(s)
    BY <1>2 DEF Execute
  <2> QED
    BY <2>1, Moved
<1>3. CASE s.halted = "Running" /\ WellFormed(ins)
  <2>1. ins.op \in Opcode
    BY <1>3 DEF WellFormed
  <2>2. [s EXCEPT !.halted = "Halt"] \in State
    BY Changed DEF Reason
  <2>3. CASE ins.op \in {"nop", "halt"}
    BY <1>3, <2>2, <2>3, ExecuteIs, Moved
  <2>4. CASE ins.op \in {"movi", "mov"}
    BY <1>3, <2>4, ExecuteIs, MoveIsState
  <2>5. CASE ins.op \in {"add", "sub", "cmp"}
    BY <1>3, <2>5, ExecuteIs, AddSubIsState
  <2>6. CASE ins.op \in {"mul", "div", "mod", "and", "or", "xor", "shl", "shr", "addi", "neg", "not"}
    BY <1>3, <2>6, ExecuteIs, ComputeIsState
  <2>7. CASE ins.op \in {"jmp", "jz", "jnz", "jn"}
    BY <1>3, <2>7, ExecuteIs, BranchIsState
  <2>8. CASE ins.op \in {"ld", "st", "ldb", "stb"}
    BY <1>3, <2>8, ExecuteIs, TransferIsState
  <2>9. CASE ins.op \in {"push", "call"}
    BY <1>3, <2>9, ExecuteIs, PushIsState
  <2>10. CASE ins.op \in {"pop", "ret"}
    BY <1>3, <2>10, ExecuteIs, PopIsState
  <2> QED
    BY <2>1, <2>3, <2>4, <2>5, <2>6, <2>7, <2>8, <2>9, <2>10
       DEF Opcode, Plain, Jumps, OneReg, TwoRegs, ThreeRegs
<1> QED
  BY <1>1, <1>2, <1>3

\* So does a step of a program.
LEMMA StepIsState ==
  ASSUME NEW s \in State, NEW p \in Seq(Instruction)
  PROVE  StepOf(s, p) \in State
<1>1. CASE s.halted # "Running"
  BY <1>1 DEF StepOf
<1>2. CASE s.halted = "Running" /\ Ended(s, p)
  BY <1>2, Changed DEF StepOf, Reason
<1>3. CASE s.halted = "Running" /\ ~Ended(s, p)
  <2>1. s.pc \in Nat
    BY Contents, SizesArePositive DEF Index
  <2>2. s.pc + 1 \in 1 .. Len(p)
    BY <1>3, <2>1 DEF Ended
  <2>3. p[s.pc + 1] \in Instruction
    BY <2>2
  <2> QED
    BY <1>3, <2>3, InstructionsKeepStates DEF StepOf
<1> QED
  BY <1>1, <1>2, <1>3
-----------------------------------------------------------------------------
(* Runs.                                                                   *)

\* One turn of the loop of Machine::run.
OneTurn(t, program) == IF t.halted # "Running" THEN t ELSE StepOf(t, program)

\* The recursion of Turns has a solution, so Turns is it.
LEMMA TurnsFacts ==
  ASSUME NEW s, NEW program, NEW n \in Nat
  PROVE  /\ Turns(s, program, n)[0] = {s}
         /\ \A k \in 1 .. n : Turns(s, program, n)[k] = {OneTurn(t, program) : t \in Turns(s, program, n)[k - 1]}
<1> DEFINE Rec(h, m) ==
             h = [k \in 0 .. m |-> IF k = 0 THEN {s} ELSE {OneTurn(t, program) : t \in h[k - 1]}]
           S == {m \in Nat : \E h : Rec(h, m)}
<1>1. 0 \in S
  <2>1. Rec([k \in 0 .. 0 |-> {s}], 0)
    OBVIOUS
  <2> QED
    BY <2>1
<1>2. ASSUME NEW m \in Nat, m \in S PROVE m + 1 \in S
  <2>1. PICK h : Rec(h, m)
    BY <1>2
  <2> DEFINE g == [k \in 0 .. m + 1 |-> IF k <= m THEN h[k] ELSE {OneTurn(t, program) : t \in h[m]}]
  <2>2. ASSUME NEW k \in 0 .. m + 1 PROVE g[k] = IF k = 0 THEN {s} ELSE {OneTurn(t, program) : t \in g[k - 1]}
    <3>1. CASE k <= m
      <4>1. k \in 0 .. m /\ g[k] = h[k] /\ (k # 0 => g[k - 1] = h[k - 1])
        BY <3>1
      <4>2. h[k] = IF k = 0 THEN {s} ELSE {OneTurn(t, program) : t \in h[k - 1]}
        BY <2>1, <4>1
      <4> QED
        BY <4>1, <4>2
    <3>2. CASE k = m + 1
      <4>1. g[k] = {OneTurn(t, program) : t \in h[m]} /\ g[k - 1] = h[m] /\ k # 0
        BY <3>2
      <4> QED
        BY <4>1
    <3> QED
      BY <3>1, <3>2
  <2>3. g = [k \in 0 .. m + 1 |-> g[k]]
    OBVIOUS
  <2> HIDE DEF g
  <2>4. Rec(g, m + 1)
    BY <2>2, <2>3
  <2> QED
    BY <2>4
<1>3. n \in S
  <2> HIDE DEF S
  <2> QED
    BY <1>1, <1>2, NumberInduction
<1> DEFINE T == Turns(s, program, n)
<1>4. T = CHOOSE h : Rec(h, n)
  BY DEF Turns, OneTurn
<1> HIDE DEF T
<1>5. Rec(T, n)
  BY <1>3, <1>4
<1>6. T[0] = {s} /\ \A k \in 1 .. n : T[k] = {OneTurn(t, program) : t \in T[k - 1]}
  BY <1>5
<1> QED
  BY <1>6 DEF T
-----------------------------------------------------------------------------
(* Instructions do not look at pc.                                         *)

At(s, n) == [s EXCEPT !.pc = n]

\* Do two states differ in pc at most?
Alike(s, t) == s = At(t, s.pc)

LEMMA AtFacts ==
  ASSUME NEW s \in State, NEW n \in Index
  PROVE  /\ At(s, n) \in State /\ At(s, n).pc = n /\ At(s, s.pc) = s
         /\ At(s, n).sp = s.sp /\ At(s, n).flags = s.flags /\ At(s, n).halted = s.halted
         /\ At(s, n).regs = s.regs /\ At(s, n).mem = s.mem
BY Changed DEF At, State

\* States are alike if their other fields are the same.
LEMMA AlikeIs ==
  ASSUME NEW s \in State, NEW t \in State
  PROVE  Alike(s, t) <=> /\ s.sp = t.sp /\ s.flags = t.flags /\ s.halted = t.halted
                         /\ s.regs = t.regs /\ s.mem = t.mem
BY DEF Alike, At, State

FlagsOnly(s, f) == [s EXCEPT !.flags = f]

\* New flags, perhaps a result in a register, and the next index: what an instruction that
\* computes something leaves of a state.
LEMMA ResultAt ==
  ASSUME NEW s \in State, NEW n \in Index, NEW f, NEW a, NEW w
  PROVE  /\ Advance(FlagsOnly(At(s, n), f)) = At(Advance(FlagsOnly(s, f)), (n + 1) % IndexSize)
         /\ Advance(Write(FlagsOnly(At(s, n), f), a, w)) = At(Advance(Write(FlagsOnly(s, f), a, w)), (n + 1) % IndexSize)
BY DEF Advance, Write, FlagsOnly, At, State

\* What of a state an instruction leaves alone, but for its register.
Stays(t, s, a) ==
  /\ t.pc = (s.pc + 1) % IndexSize /\ t.halted = s.halted /\ t.sp = s.sp /\ t.mem = s.mem
  /\ \A r \in 0 .. Registers - 1 : r # a => t.regs[r] = s.regs[r]

LEMMA ResultFacts ==
  ASSUME NEW s \in State, NEW f, NEW a, NEW w
  PROVE  /\ Stays(Advance(FlagsOnly(s, f)), s, a)
         /\ Stays(Advance(Write(FlagsOnly(s, f), a, w)), s, a)
BY DEF Advance, Write, FlagsOnly, State, Stays

LEMMA MoveAt ==
  ASSUME NEW s \in State, NEW n \in Index, NEW ins \in Instruction, WellFormed(ins), ins.op \in {"movi", "mov"}
  PROVE  Move(At(s, n), ins) = At(Move(s, ins), (n + 1) % IndexSize) /\ Stays(Move(s, ins), s, ins.a)
BY DEF Move, Advance, Write, At, State, Stays

LEMMA AddSubAt ==
  ASSUME NEW s \in State, NEW n \in Index, NEW ins \in Instruction, WellFormed(ins), ins.op \in {"add", "sub", "cmp"}
  PROVE  AddSub(At(s, n), ins) = At(AddSub(s, ins), (n + 1) % IndexSize) /\ Stays(AddSub(s, ins), s, ins.a)
<1> DEFINE x == s.regs[IF ins.op = "cmp" THEN ins.a ELSE ins.b]
           y == s.regs[IF ins.op = "cmp" THEN ins.b ELSE ins.c]
           r == Result(ins.op, x, y)
           f == SetZN(s.flags, r) \cup If("C", Carry(ins.op, x, y, r)) \cup If("V", Overflow(ins.op, x, y, r))
<1>1. /\ AddSub(s, ins) = IF ins.op = "cmp" THEN Advance(FlagsOnly(s, f))
                          ELSE Advance(Write(FlagsOnly(s, f), ins.a, r))
      /\ AddSub(At(s, n), ins) = IF ins.op = "cmp" THEN Advance(FlagsOnly(At(s, n), f))
                                 ELSE Advance(Write(FlagsOnly(At(s, n), f), ins.a, r))
  BY AtFacts DEF AddSub, FlagsOnly
<1> HIDE DEF f, r
<1>2. /\ Advance(FlagsOnly(At(s, n), f)) = At(Advance(FlagsOnly(s, f)), (n + 1) % IndexSize)
      /\ Stays(Advance(FlagsOnly(s, f)), s, ins.a)
  BY ResultAt, ResultFacts
<1>3. /\ Advance(Write(FlagsOnly(At(s, n), f), ins.a, r)) = At(Advance(Write(FlagsOnly(s, f), ins.a, r)), (n + 1) % IndexSize)
      /\ Stays(Advance(Write(FlagsOnly(s, f), ins.a, r)), s, ins.a)
  BY ResultAt, ResultFacts
<1> QED
  BY <1>1, <1>2, <1>3

LEMMA ComputeAt ==
  ASSUME NEW s \in State, NEW n \in Index, NEW ins \in Instruction, WellFormed(ins)
  PROVE  \/ Compute(s, ins) = Fault(s) /\ Compute(At(s, n), ins) = Fault(At(s, n))
         \/ Compute(At(s, n), ins) = At(Compute(s, ins), (n + 1) % IndexSize) /\ Stays(Compute(s, ins), s, ins.a)
<1> DEFINE x == s.regs[ins.b]
           r == CASE ins.op = "addi" -> Wrap(x + ins.imm)
                  [] ins.op = "neg"  -> Wrap(-x)
                  [] ins.op = "not"  -> WordSize - 1 - x
                  [] OTHER           -> Result(ins.op, x, s.regs[ins.c])
           f == SetZN(s.flags, r)
           zero == ins.op \in {"div", "mod"} /\ s.regs[ins.c] = 0
<1>1. /\ Compute(s, ins) = IF zero THEN Fault(s) ELSE Advance(Write(FlagsOnly(s, f), ins.a, r))
      /\ Compute(At(s, n), ins) = IF zero THEN Fault(At(s, n)) ELSE Advance(Write(FlagsOnly(At(s, n), f), ins.a, r))
  BY AtFacts DEF Compute, FlagsOnly
<1> HIDE DEF f, r, zero
<1>2. /\ Advance(Write(FlagsOnly(At(s, n), f), ins.a, r)) = At(Advance(Write(FlagsOnly(s, f), ins.a, r)), (n + 1) % IndexSize)
      /\ Stays(Advance(Write(FlagsOnly(s, f), ins.a, r)), s, ins.a)
  BY ResultAt, ResultFacts
<1> QED
  BY <1>1, <1>2

LEMMA TransferAt ==
  ASSUME NEW s \in State, NEW n \in Index, NEW ins \in Instruction, WellFormed(ins), ins.op \in {"ld", "st", "ldb", "stb"}
  PROVE  \/ Transfer(s, ins) = Fault(s) /\ Transfer(At(s, n), ins) = Fault(At(s, n))
         \/ /\ Transfer(At(s, n), ins) = At(Transfer(s, ins), (n + 1) % IndexSize)
            /\ Transfer(s, ins).pc = (s.pc + 1) % IndexSize /\ Transfer(s, ins).halted = s.halted
<1> DEFINE addr == Wrap(s.regs[ins.b] + ins.imm)
           width == IF ins.op \in {"ld", "st"} THEN WordCells ELSE 1
<1>1. CASE ~InMemory(addr, width)
  BY <1>1, AtFacts DEF Transfer
<1>2. CASE InMemory(addr, width)
  <2> DEFINE done(t) == CASE ins.op = "ld"  -> Write(t, ins.a, LoadWord(s.mem, addr))
                          [] ins.op = "ldb" -> Write(t, ins.a, s.mem[addr])
                          [] ins.op = "st"  -> [t EXCEPT !.mem = StoreWord(s.mem, addr, s.regs[ins.a])]
                          [] ins.op = "stb" -> [t EXCEPT !.mem[addr] = s.regs[ins.a] % CellSize]
  <2>1. Transfer(s, ins) = Advance(done(s)) /\ Transfer(At(s, n), ins) = Advance(done(At(s, n)))
    BY <1>2, AtFacts DEF Transfer
  <2>2. \A mem : Advance([At(s, n) EXCEPT !.mem = mem]) = At(Advance([s EXCEPT !.mem = mem]), (n + 1) % IndexSize)
    BY DEF Advance, At, State
  <2>3. \A a, w : Advance(Write(At(s, n), a, w)) = At(Advance(Write(s, a, w)), (n + 1) % IndexSize)
    BY DEF Advance, Write, At, State
  <2>4. \A a, w : Advance([At(s, n) EXCEPT !.mem[a] = w]) = At(Advance([s EXCEPT !.mem[a] = w]), (n + 1) % IndexSize)
    BY DEF Advance, At, State
  <2>5. Advance(done(At(s, n))) = At(Advance(done(s)), (n + 1) % IndexSize)
    BY <2>2, <2>3, <2>4
  <2>6. Advance(done(s)).pc = (s.pc + 1) % IndexSize /\ Advance(done(s)).halted = s.halted
    BY DEF Advance, Write, State
  <2> QED
    BY <2>1, <2>5, <2>6
<1> QED
  BY <1>1, <1>2

LEMMA PushAt ==
  ASSUME NEW s \in State, NEW n \in Index, NEW ins \in Instruction, WellFormed(ins), ins.op = "push"
  PROVE  \/ Push(s, ins) = Fault(s) /\ Push(At(s, n), ins) = Fault(At(s, n))
         \/ /\ Push(At(s, n), ins) = At(Push(s, ins), (n + 1) % IndexSize)
            /\ Push(s, ins).pc = (s.pc + 1) % IndexSize /\ Push(s, ins).halted = s.halted
<1>1. CASE s.sp < WordCells \/ s.sp > MemoryCells
  BY <1>1, AtFacts DEF Push
<1>2. CASE ~(s.sp < WordCells \/ s.sp > MemoryCells)
  <2> DEFINE mem == StoreWord(s.mem, s.sp - WordCells, s.regs[ins.a])
             done(t) == [t EXCEPT !.mem = mem, !.sp = s.sp - WordCells]
  <2>1. Push(s, ins) = Advance(done(s)) /\ Push(At(s, n), ins) = Advance(done(At(s, n)))
    BY <1>2, AtFacts DEF Push
  <2> HIDE DEF mem
  <2>2. Advance(done(At(s, n))) = At(Advance(done(s)), (n + 1) % IndexSize)
    BY DEF Advance, At, State
  <2>3. Advance(done(s)).pc = (s.pc + 1) % IndexSize /\ Advance(done(s)).halted = s.halted
    BY DEF Advance, State
  <2> QED
    BY <2>1, <2>2, <2>3
<1> QED
  BY <1>1, <1>2

LEMMA PopAt ==
  ASSUME NEW s \in State, NEW n \in Index, NEW ins \in Instruction, WellFormed(ins), ins.op = "pop"
  PROVE  \/ Pop(s, ins) = Fault(s) /\ Pop(At(s, n), ins) = Fault(At(s, n))
         \/ /\ Pop(At(s, n), ins) = At(Pop(s, ins), (n + 1) % IndexSize)
            /\ Pop(s, ins).pc = (s.pc + 1) % IndexSize /\ Pop(s, ins).halted = s.halted
<1>1. CASE s.sp > MemoryCells - WordCells
  BY <1>1, AtFacts DEF Pop
<1>2. CASE ~(s.sp > MemoryCells - WordCells)
  <2> DEFINE w == LoadWord(s.mem, s.sp)
             done(t) == Write([t EXCEPT !.sp = s.sp + WordCells], ins.a, w)
  <2>1. Pop(s, ins) = Advance(done(s)) /\ Pop(At(s, n), ins) = Advance(done(At(s, n)))
    BY <1>2, AtFacts DEF Pop
  <2> HIDE DEF w
  <2>2. Advance(done(At(s, n))) = At(Advance(done(s)), (n + 1) % IndexSize)
    BY DEF Advance, Write, At, State
  <2>3. Advance(done(s)).pc = (s.pc + 1) % IndexSize /\ Advance(done(s)).halted = s.halted
    BY DEF Advance, Write, State
  <2> QED
    BY <2>1, <2>2, <2>3
<1> QED
  BY <1>1, <1>2

\* What an instruction of a straight-line program does at another index is the same there;
\* it goes on to the next index, or faults.
LEMMA ExecuteAt ==
  ASSUME NEW s \in State, s.halted = "Running", NEW n \in Index, NEW ins \in Instruction, ins.op \notin IsControl
  PROVE  /\ \E m \in Index : Execute(At(s, n), ins) = At(Execute(s, ins), m)
         /\ Execute(s, ins).halted \in {"Running", "Fault"}
         /\ Execute(s, ins).halted = "Running" => Execute(s, ins).pc = (s.pc + 1) % IndexSize
<1> DEFINE u == Execute(s, ins)
           v == Execute(At(s, n), ins)
           next_ == (n + 1) % IndexSize
           Faults_ == u = Fault(s) /\ v = Fault(At(s, n))
           Goes == v = At(u, next_) /\ u.pc = (s.pc + 1) % IndexSize /\ u.halted = s.halted
<1>1. At(s, n) \in State /\ At(s, n).halted = "Running" /\ next_ \in Index /\ n \in Index
  <2>1. At(s, n) \in State /\ At(s, n).halted = "Running"
    BY AtFacts
  <2>2. IndexSize \in Nat \ {0} /\ n \in 0 .. IndexSize - 1
    BY SizesArePositive DEF Index
  <2>3. (n + 1) % IndexSize \in 0 .. IndexSize - 1
    BY <2>2
  <2> QED
    BY <2>1, <2>3 DEF Index
<1>2. Faults_ \/ Goes
  <2>1. CASE ~WellFormed(ins)
    BY <1>1, <2>1 DEF Execute
  <2>2. CASE WellFormed(ins)
    <3>1. ins.op \in Opcode
      BY <2>2 DEF WellFormed
    <3>2. CASE ins.op = "nop"
      <4>1. u = Advance(s) /\ v = Advance(At(s, n))
        BY <1>1, <2>2, <3>2, ExecuteIs
      <4> QED
        BY <4>1 DEF Advance, At, State
    <3>3. CASE ins.op \in {"movi", "mov"}
      <4>1. u = Move(s, ins) /\ v = Move(At(s, n), ins)
        BY <1>1, <2>2, <3>3, ExecuteIs
      <4> QED
        BY <2>2, <3>3, <4>1, MoveAt DEF Stays
    <3>4. CASE ins.op \in {"add", "sub", "cmp"}
      <4>1. u = AddSub(s, ins) /\ v = AddSub(At(s, n), ins)
        BY <1>1, <2>2, <3>4, ExecuteIs
      <4> QED
        BY <2>2, <3>4, <4>1, AddSubAt DEF Stays
    <3>5. CASE ins.op \in {"mul", "div", "mod", "and", "or", "xor", "shl", "shr", "addi", "neg", "not"}
      <4>1. u = Compute(s, ins) /\ v = Compute(At(s, n), ins)
        BY <1>1, <2>2, <3>5, ExecuteIs
      <4> QED
        BY <2>2, <4>1, ComputeAt DEF Stays
    <3>6. CASE ins.op \in {"ld", "st", "ldb", "stb"}
      <4>1. u = Transfer(s, ins) /\ v = Transfer(At(s, n), ins)
        BY <1>1, <2>2, <3>6, ExecuteIs
      <4> QED
        BY <2>2, <3>6, <4>1, TransferAt
    <3>7. CASE ins.op = "push"
      <4>1. u = Push(s, ins) /\ v = Push(At(s, n), ins)
        BY <1>1, <2>2, <3>7, ExecuteIs
      <4> QED
        BY <2>2, <3>7, <4>1, PushAt
    <3>8. CASE ins.op = "pop"
      <4>1. u = Pop(s, ins) /\ v = Pop(At(s, n), ins)
        BY <1>1, <2>2, <3>8, ExecuteIs
      <4> QED
        BY <2>2, <3>8, <4>1, PopAt
    <3> QED
      BY <3>1, <3>2, <3>3, <3>4, <3>5, <3>6, <3>7, <3>8
         DEF Opcode, Plain, Jumps, OneReg, TwoRegs, ThreeRegs, IsControl
  <2> QED
    BY <2>1, <2>2
<1>3. Faults_ => v = At(u, n) /\ u.halted = "Fault"
  <2>1. Fault(At(s, n)) = At(Fault(s), n)
    BY DEF Fault, At, State
  <2>2. Fault(s).halted = "Fault"
    BY DEF Fault, State
  <2> QED
    BY <2>1, <2>2
<1> HIDE DEF u, v, next_
<1>4. (\E m \in Index : v = At(u, m)) /\ u.halted \in {"Running", "Fault"} /\ (u.halted = "Running" => u.pc = (s.pc + 1) % IndexSize)
  <2>1. CASE Faults_
    BY <1>1, <1>3, <2>1
  <2>2. CASE Goes
    BY <1>1, <2>2
  <2> QED
    BY <1>2, <2>1, <2>2
<1> QED
  BY <1>4 DEF u, v

\* An instruction that does not use the memory changes its first register at most.
LEMMA ExecuteStaysLocal ==
  ASSUME NEW s \in State, NEW ins \in Instruction, ins.op \notin IsControl \cup UsesMemory
  PROVE  /\ Execute(s, ins).sp = s.sp /\ Execute(s, ins).mem = s.mem
         /\ \A r \in 0 .. Registers - 1 : r # ins.a => Execute(s, ins).regs[r] = s.regs[r]
<1> DEFINE u == Execute(s, ins)
           Local == u.sp = s.sp /\ u.mem = s.mem /\ \A r \in 0 .. Registers - 1 : r # ins.a => u.regs[r] = s.regs[r]
<1>1. CASE s.halted # "Running"
  BY <1>1 DEF Execute
<1>2. Fault(s).sp = s.sp /\ Fault(s).mem = s.mem /\ Fault(s).regs = s.regs
  BY DEF Fault, State
<1>3. CASE s.halted = "Running" /\ ~WellFormed(ins)
  BY <1>2, <1>3 DEF Execute
<1>4. CASE s.halted = "Running" /\ WellFormed(ins)
  <2>1. ins.op \in Opcode /\ s.pc \in Index
    BY <1>4, Contents DEF WellFormed
  <2>2. CASE ins.op = "nop"
    <3>1. u = Advance(s)
      BY <1>4, <2>2, ExecuteIs
    <3> QED
      BY <3>1 DEF Advance, State
  <2>3. CASE ins.op \in {"movi", "mov"}
    <3>1. u = Move(s, ins)
      BY <1>4, <2>3, ExecuteIs
    <3> QED
      BY <1>4, <2>1, <2>3, <3>1, MoveAt DEF Stays
  <2>4. CASE ins.op \in {"add", "sub", "cmp"}
    <3>1. u = AddSub(s, ins)
      BY <1>4, <2>4, ExecuteIs
    <3> QED
      BY <1>4, <2>1, <2>4, <3>1, AddSubAt DEF Stays
  <2>5. CASE ins.op \in {"mul", "div", "mod", "and", "or", "xor", "shl", "shr", "addi", "neg", "not"}
    <3>1. u = Compute(s, ins)
      BY <1>4, <2>5, ExecuteIs
    <3> QED
      BY <1>2, <1>4, <2>1, <3>1, ComputeAt DEF Stays
  <2> QED
    BY <2>1, <2>2, <2>3, <2>4, <2>5
       DEF Opcode, Plain, Jumps, OneReg, TwoRegs, ThreeRegs, IsControl, UsesMemory
<1> QED
  BY <1>1, <1>3, <1>4
=============================================================================
