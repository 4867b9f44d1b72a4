----------------------- MODULE ReliableChannelProofs -----------------------
(***************************************************************************)
(* Proofs about ReliableChannel: types, AckedIsHeld, WindowsExact, and     *)
(* that it implements the queue of FifoChannel, for every number and size  *)
(* of windows, every length of packets, every age of a copy that the       *)
(* assumption allows, and any number of commands.                          *)
(*                                                                         *)
(* The code sees numbers of 16 bits and the properties are about unbounded *)
(* ones, so the proofs show that no test of the code ever confuses two     *)
(* numbers.  With h the highest number that has been sent once:            *)
(*   - the sender's numbers up to h that may be sent again lie in the last *)
(*     FreeWindows - 1 windows before h's (Flow), because the counters of  *)
(*     the windows are exact (Counters) and windowWrap reads them;         *)
(*   - the receiver, whose in is not above h, has at least every number    *)
(*     that is no longer held (AckedIsHeld), so in is in one of these      *)
(*     windows as well, and what is in flight is not older than MaxAge     *)
(*     (Reach): all numbers that meet in a test are less than a round      *)
(*     apart, and SeqNo tells them apart (NearSame).                       *)
(* Each part needs the others, and IInv is all of them together.           *)
(*                                                                         *)
(* The queue follows: Undelivered is what has been dispatched and then the *)
(* pending packets in their order, of which there is one list (ListOfIs).  *)
(* Only enet_peer_send and enet_peer_receive change it: an acknowledgement *)
(* releases a command of a packet the receiver has (AckQueues), and a      *)
(* command that comes in first belongs to a packet still held (StillHeld), *)
(* and dispatching takes the pending packets from the front, without a gap *)
(* (Chained, Passed).                                                      *)
(***************************************************************************)
EXTENDS ReliableChannel, FiniteSetTheorems, SequenceTheorems, WellFoundedInduction, TLAPS

W(n) == n \div WindowSize

\* The constants, one by one.
LEMMA Bounds ==
    /\ Windows \in Nat /\ WindowSize \in Nat /\ FreeWindows \in Nat /\ DataWindow \in Nat
    /\ MaxFragments \in Nat /\ MaxCommands \in Nat /\ QueueCap \in Nat /\ MaxAge \in Nat
    /\ FreeWindows > 2 /\ Windows = 2 * FreeWindows /\ WindowSize > 1 /\ DataWindow > 0
    /\ MaxFragments > 0 /\ MaxAge > 0 /\ MaxFragments <= WindowSize
    /\ MaxAge <= FreeWindows * WindowSize /\ Start \in 0 .. MaxCommands
    /\ Modulus \in Nat /\ Modulus > 0
  <1>1. /\ Windows \in Nat /\ WindowSize \in Nat /\ Windows > 0 /\ WindowSize > 0
    BY ChannelAssumption
  <1>2. Modulus \in Nat /\ Modulus > 0
    BY <1>1 DEF Modulus
  <1> QED
    BY <1>2, ChannelAssumption

\* Division with remainder, and that it is unique.
LEMMA Divide ==
    ASSUME NEW n \in Nat, NEW b \in Nat, b > 0
    PROVE  n = b * (n \div b) + (n % b) /\ n \div b \in Nat /\ n % b \in 0 .. b - 1
  OBVIOUS

\* A multiple of a number is not less than it.
LEMMA Times ==
    ASSUME NEW b \in Nat, NEW k \in Int, k > 0
    PROVE  b * k >= b /\ b * k \in Int
  OBVIOUS

\* A quotient and a remainder are the only ones.
LEMMA DivideUnique ==
    ASSUME NEW b \in Nat, b > 0, NEW q \in Int, NEW p \in Int, NEW r \in 0 .. b - 1, NEW t \in 0 .. b - 1,
           b * q + r = b * p + t
    PROVE  q = p /\ r = t
  <1>1. b * (q - p) = b * q - b * p /\ b * (p - q) = b * p - b * q
    OBVIOUS
  <1>2. ~(q > p)
    <2> SUFFICES ASSUME q > p PROVE FALSE
      OBVIOUS
    <2>1. b * (q - p) >= b
      BY Times
    <2> QED
      BY <1>1, <2>1
  <1>3. ~(p > q)
    <2> SUFFICES ASSUME p > q PROVE FALSE
      OBVIOUS
    <2>1. b * (p - q) >= b
      BY Times
    <2> QED
      BY <1>1, <2>1
  <1> QED
    BY <1>2, <1>3

\* A number is a round, a window in it and a place in the window.
LEMMA Parts ==
    ASSUME NEW n \in Nat
    PROVE  \E q \in Nat, t \in 0 .. WindowSize - 1 :
             /\ Window(n) \in 0 .. Windows - 1
             /\ SeqNo(n) = WindowSize * Window(n) + t /\ SeqNo(n) \in 0 .. Modulus - 1
             /\ n = Modulus * q + SeqNo(n)
             /\ W(n) = Windows * q + Window(n) /\ n = WindowSize * W(n) + t
             /\ t = n % WindowSize /\ SeqNo(n) % WindowSize = t
  <1> DEFINE q == n \div Modulus
             r == n % Modulus
             w == r \div WindowSize
             t == r % WindowSize
  <1>1. n = Modulus * q + r /\ q \in Nat /\ r \in 0 .. Modulus - 1
    BY Bounds, Divide
  <1>2. r = WindowSize * w + t /\ w \in Nat /\ t \in 0 .. WindowSize - 1
    BY Bounds, <1>1, Divide
  <1>3. SeqNo(n) = r /\ Window(n) = w
    BY DEF SeqNo, Window
  <1> HIDE DEF q, r, w, t
  <1>4. w < Windows
    <2> SUFFICES ASSUME w >= Windows PROVE FALSE
      BY <1>2, Bounds
    <2>1. WindowSize * w = WindowSize * Windows + WindowSize * (w - Windows)
      BY <1>2, Bounds
    <2>2. WindowSize * (w - Windows) >= 0
      BY <1>2, Bounds
    <2>3. WindowSize * Windows = Modulus
      BY Bounds DEF Modulus
    <2> QED
      BY <1>1, <1>2, <2>1, <2>2, <2>3, Bounds
  <1>5. n = WindowSize * (Windows * q + w) + t
    <2>1. Modulus * q = WindowSize * (Windows * q)
      BY <1>1, Bounds DEF Modulus
    <2>2. WindowSize * (Windows * q + w) = WindowSize * (Windows * q) + WindowSize * w
      BY <1>1, <1>2, Bounds
    <2> QED
      BY <1>1, <1>2, <2>1, <2>2, Bounds
  <1>6. W(n) = Windows * q + w /\ n % WindowSize = t
    <2>1. n = WindowSize * (n \div WindowSize) + (n % WindowSize) /\ n \div WindowSize \in Nat
          /\ n % WindowSize \in 0 .. WindowSize - 1
      BY Bounds, Divide
    <2>2. Windows * q + w \in Int
      BY <1>1, <1>2, Bounds
    <2> DEFINE d == Windows * q + w
               x == n \div WindowSize
               y == n % WindowSize
    <2>3. /\ WindowSize \in Nat /\ WindowSize > 0 /\ d \in Int /\ x \in Int
          /\ y \in 0 .. WindowSize - 1 /\ t \in 0 .. WindowSize - 1
          /\ WindowSize * x + y = WindowSize * d + t
      BY <1>2, <1>5, <2>1, <2>2, Bounds
    <2> HIDE DEF d, x, y
    <2>4. x = d /\ y = t
      BY <2>3, DivideUnique
    <2> QED
      BY <2>4 DEF W, d, x, y
  <1>7. r % WindowSize = t
    BY DEF t
  <1> QED
    BY <1>1, <1>2, <1>3, <1>4, <1>5, <1>6, <1>7, Bounds

\* Numbers less than all of them apart are told apart.
LEMMA NearSame ==
    ASSUME NEW n \in Nat, NEW m \in Nat, SeqNo(n) = SeqNo(m), n - m < Modulus, m - n < Modulus
    PROVE  n = m
  <1>1. PICK q \in Nat : n = Modulus * q + SeqNo(n)
    BY Parts
  <1>2. PICK p \in Nat : m = Modulus * p + SeqNo(m)
    BY Parts
  <1>3. SeqNo(n) \in Int /\ Modulus \in Nat /\ Modulus > 0
    BY Parts, Bounds
  <1>4. n - m = Modulus * (q - p) /\ m - n = Modulus * (p - q)
    <2>1. Modulus * (q - p) = Modulus * q - Modulus * p /\ Modulus * (p - q) = Modulus * p - Modulus * q
          /\ Modulus * q \in Int /\ Modulus * p \in Int
      BY <1>3
    <2> DEFINE s == SeqNo(n)
               a == Modulus * q
               b == Modulus * p
    <2>2. n = a + s /\ m = b + s /\ a \in Int /\ b \in Int /\ s \in Int
      BY <1>1, <1>2, <1>3, <2>1
    <2> HIDE DEF s, a, b
    <2>3. n - m = a - b /\ m - n = b - a
      BY <2>2
    <2> QED
      BY <2>1, <2>3 DEF a, b
  <1>5. ~(q - p > 0) /\ ~(p - q > 0)
    <2>1. q - p > 0 => Modulus * (q - p) >= Modulus
      BY <1>3, Times
    <2>2. p - q > 0 => Modulus * (p - q) >= Modulus
      BY <1>3, Times
    <2> QED
      BY <1>3, <1>4, <2>1, <2>2
  <1>6. q = p
    BY <1>5
  <1> QED
    BY <1>1, <1>2, <1>6

\* W counts windows, and does not go down.
LEMMA WMonotone ==
    ASSUME NEW n \in Nat, NEW m \in Nat
    PROVE  /\ W(n) \in Nat
           /\ WindowSize * W(n) <= n /\ n < WindowSize * W(n) + WindowSize
           /\ n <= m => W(n) <= W(m)
           /\ m <= n + WindowSize => W(m) <= W(n) + 1
  <1>1. /\ W(n) \in Nat /\ WindowSize * W(n) <= n /\ n < WindowSize * W(n) + WindowSize
        /\ W(m) \in Nat /\ WindowSize * W(m) <= m /\ m < WindowSize * W(m) + WindowSize
    <2>1. /\ n = WindowSize * (n \div WindowSize) + (n % WindowSize) /\ n \div WindowSize \in Nat
          /\ n % WindowSize \in 0 .. WindowSize - 1
      BY Bounds, Divide
    <2>2. /\ m = WindowSize * (m \div WindowSize) + (m % WindowSize) /\ m \div WindowSize \in Nat
          /\ m % WindowSize \in 0 .. WindowSize - 1
      BY Bounds, Divide
    <2> QED
      BY <2>1, <2>2, Bounds DEF W
  <1>2. ASSUME n <= m, W(n) > W(m) PROVE FALSE
    <2>1. WindowSize * (W(n) - W(m)) >= WindowSize
      BY <1>1, <1>2, Bounds, Times
    <2>2. WindowSize * (W(n) - W(m)) = WindowSize * W(n) - WindowSize * W(m)
      BY <1>1, Bounds
    <2> QED
      BY <1>1, <1>2, <2>1, <2>2, Bounds
  <1>3. ASSUME m <= n + WindowSize, W(m) > W(n) + 1 PROVE FALSE
    <2>1. WindowSize * (W(m) - (W(n) + 1)) >= WindowSize
      BY <1>1, <1>3, Bounds, Times
    <2>2. WindowSize * (W(m) - (W(n) + 1)) = WindowSize * W(m) - WindowSize * W(n) - WindowSize
      BY <1>1, Bounds
    <2> QED
      BY <1>1, <1>3, <2>1, <2>2, Bounds
  <1> QED
    BY <1>1, <1>2, <1>3

\* The distance in windows that the receiver computes is the real one, for a
\* number ahead of it or behind by less than all windows.
LEMMA AheadIs ==
    ASSUME NEW n \in Nat, NEW i \in Nat
    PROVE  /\ i <= n /\ W(n) - W(i) < Windows => Ahead(i, n) = W(n) - W(i)
           /\ n < i /\ W(i) - W(n) < Windows => Ahead(i, n) = Windows - (W(i) - W(n))
  <1>1. PICK q \in Nat, t \in 0 .. WindowSize - 1 :
             /\ Window(n) \in 0 .. Windows - 1
             /\ SeqNo(n) = WindowSize * Window(n) + t
             /\ n = Modulus * q + SeqNo(n)
             /\ W(n) = Windows * q + Window(n)
    BY Parts
  <1>2. PICK p \in Nat, s \in 0 .. WindowSize - 1 :
             /\ Window(i) \in 0 .. Windows - 1
             /\ SeqNo(i) = WindowSize * Window(i) + s
             /\ i = Modulus * p + SeqNo(i)
             /\ W(i) = Windows * p + Window(i)
    BY Parts
  <1> DEFINE w == Window(n)
             v == Window(i)
  <1>3. Windows \in Nat /\ Windows > 0 /\ WindowSize \in Nat /\ WindowSize > 0
    BY Bounds
  <1>4. W(n) - W(i) = Windows * (q - p) + (w - v) /\ W(i) - W(n) = Windows * (p - q) + (v - w)
    BY <1>1, <1>2, <1>3
  <1>5. /\ w < v => SeqNo(n) < SeqNo(i)
        /\ v < w => ~(SeqNo(n) < SeqNo(i))
        /\ SeqNo(n) \in Int /\ SeqNo(i) \in Int
    <2>1. WindowSize * (v - w) = WindowSize * v - WindowSize * w
          /\ WindowSize * (w - v) = WindowSize * w - WindowSize * v
      BY <1>1, <1>2, <1>3
    <2>2. w < v => WindowSize * (v - w) >= WindowSize
      BY <1>1, <1>2, <1>3, Times
    <2>3. v < w => WindowSize * (w - v) >= WindowSize
      BY <1>1, <1>2, <1>3, Times
    <2>4. WindowSize * v \in Int /\ WindowSize * w \in Int
      BY <1>1, <1>2, <1>3
    <2> HIDE DEF w, v
    <2> QED
      BY <1>1, <1>2, <1>3, <2>1, <2>2, <2>3, <2>4 DEF w, v
  <1>a. Modulus * p \in Int /\ Modulus * q \in Int
    BY Bounds
  <1>6. ASSUME i <= n, W(n) - W(i) < Windows PROVE Ahead(i, n) = W(n) - W(i)
    <2>1. W(n) - W(i) >= 0
      BY <1>6, WMonotone
    <2>2. q = p \/ q = p + 1
      <3>1. ASSUME q - p > 1 PROVE FALSE
        <4>1. Windows * (q - p - 1) >= Windows
          BY <1>3, <3>1, Times
        <4>2. Windows * (q - p - 1) = Windows * (q - p) - Windows
          BY <1>3
        <4> QED
          BY <1>1, <1>2, <1>3, <1>4, <1>6, <4>1, <4>2
      <3>2. ASSUME p - q > 0 PROVE FALSE
        <4>1. Windows * (p - q) >= Windows
          BY <1>3, <3>2, Times
        <4> QED
          BY <1>1, <1>2, <1>3, <1>4, <2>1, <4>1
      <3> QED
        BY <3>1, <3>2
    <2>3. CASE q = p
      <3>1. W(n) - W(i) = w - v
        BY <1>1, <1>2, <1>3, <1>4, <2>3
      <3>2. ~(SeqNo(n) < SeqNo(i))
        BY <1>1, <1>2, <1>5, <1>6, <2>3, <1>a
      <3> QED
        BY <1>1, <1>2, <3>1, <3>2 DEF Ahead
    <2>4. CASE q = p + 1
      <3>1. W(n) - W(i) = Windows + w - v
        BY <1>1, <1>2, <1>3, <1>4, <2>4
      <3>2. SeqNo(n) < SeqNo(i)
        BY <1>1, <1>2, <1>3, <1>5, <1>6, <3>1
      <3> QED
        BY <1>1, <1>2, <1>3, <3>1, <3>2 DEF Ahead
    <2> QED
      BY <2>2, <2>3, <2>4
  <1>7. ASSUME n < i, W(i) - W(n) < Windows PROVE Ahead(i, n) = Windows - (W(i) - W(n))
    <2>1. W(i) - W(n) >= 0
      BY <1>7, WMonotone
    <2>2. p = q \/ p = q + 1
      <3>1. ASSUME p - q > 1 PROVE FALSE
        <4>1. Windows * (p - q - 1) >= Windows
          BY <1>3, <3>1, Times
        <4>2. Windows * (p - q - 1) = Windows * (p - q) - Windows
          BY <1>3
        <4> QED
          BY <1>1, <1>2, <1>3, <1>4, <1>7, <4>1, <4>2
      <3>2. ASSUME q - p > 0 PROVE FALSE
        <4>1. Windows * (q - p) >= Windows
          BY <1>3, <3>2, Times
        <4> QED
          BY <1>1, <1>2, <1>3, <1>4, <2>1, <4>1
      <3> QED
        BY <3>1, <3>2
    <2>3. CASE p = q
      <3>1. W(i) - W(n) = v - w
        BY <1>1, <1>2, <1>3, <1>4, <2>3
      <3>2. SeqNo(n) < SeqNo(i)
        BY <1>1, <1>2, <1>5, <1>7, <2>3, <1>a
      <3> QED
        BY <1>1, <1>2, <1>3, <3>1, <3>2 DEF Ahead
    <2>4. CASE p = q + 1
      <3>1. W(i) - W(n) = Windows + v - w
        BY <1>1, <1>2, <1>3, <1>4, <2>4
      <3>2. ~(SeqNo(n) < SeqNo(i))
        BY <1>1, <1>2, <1>3, <1>5, <1>7, <3>1
      <3> QED
        BY <1>1, <1>2, <1>3, <3>1, <3>2 DEF Ahead
    <2> QED
      BY <2>2, <2>3, <2>4
  <1> QED
    BY <1>6, <1>7

\* The remainder is the one of any such decomposition.
LEMMA ModIs ==
    ASSUME NEW b \in Nat, b > 0, NEW q \in Int, NEW r \in 0 .. b - 1, NEW n \in Nat, n = b * q + r
    PROVE  n % b = r
  <1>1. n = b * (n \div b) + (n % b) /\ n \div b \in Nat /\ n % b \in 0 .. b - 1
    BY Divide
  <1> DEFINE x == n \div b
             y == n % b
  <1>2. x \in Int /\ y \in 0 .. b - 1 /\ b * x + y = b * q + r
    BY <1>1
  <1> HIDE DEF x, y
  <1>3. y = r
    BY <1>2, DivideUnique
  <1> QED
    BY <1>3 DEF y

\* The distance the receiver orders by is the real one, for a number ahead.
LEMMA DistanceIs ==
    ASSUME NEW n \in Nat, in \in Nat, in <= n, n - in < Modulus
    PROVE  Distance(n) = n - in
  <1>1. PICK q \in Nat : n = Modulus * q + SeqNo(n)
    BY Parts
  <1>2. PICK p \in Nat : in = Modulus * p + SeqNo(in)
    BY Parts
  <1>3. SeqNo(n) \in 0 .. Modulus - 1 /\ SeqNo(in) \in 0 .. Modulus - 1 /\ Modulus \in Nat /\ Modulus > 0
    BY Parts, Bounds
  <1> DEFINE s == SeqNo(n)
             t == SeqNo(in)
             d == n - in
             e == s + Modulus - t
  <1>4. Modulus * (q - p) = Modulus * q - Modulus * p /\ Modulus * q \in Int /\ Modulus * p \in Int
        /\ Modulus * (1 + (p - q)) = Modulus + (Modulus * p - Modulus * q)
        /\ Modulus * (p - q) = Modulus * p - Modulus * q
    BY <1>3
  <1>5. d \in 0 .. Modulus - 1 /\ e \in Nat
    BY <1>3
  <1>6. e = Modulus * (1 + (p - q)) + d
    <2> DEFINE a == Modulus * q
               b == Modulus * p
    <2>1. n = a + s /\ in = b + t /\ a \in Int /\ b \in Int /\ s \in Int /\ t \in Int
      BY <1>1, <1>2, <1>3, <1>4
    <2> HIDE DEF s, t, a, b
    <2>2. e = Modulus + (b - a) + d
      BY <2>1, <1>3
    <2> QED
      BY <1>4, <2>2 DEF a, b
  <1> HIDE DEF s, t, d, e
  <1>7. e % Modulus = d
    BY <1>3, <1>5, <1>6, ModIs
  <1> QED
    BY <1>7 DEF s, t, d, e, Distance

\* Windows that are less than all of them apart are told apart.
LEMMA SameWindow ==
    ASSUME NEW n \in Nat, NEW m \in Nat, Window(n) = Window(m),
           W(n) - W(m) < Windows, W(m) - W(n) < Windows
    PROVE  W(n) = W(m)
  <1>1. PICK q \in Nat : W(n) = Windows * q + Window(n)
    BY Parts
  <1>2. PICK p \in Nat : W(m) = Windows * p + Window(m)
    BY Parts
  <1>3. Window(n) \in 0 .. Windows - 1 /\ Windows \in Nat /\ Windows > 0
    BY Parts, Bounds
  <1> DEFINE s == Window(n)
             a == Windows * q
             b == Windows * p
             x == W(n)
             y == W(m)
  <1>4. x = a + s /\ y = b + s /\ a \in Int /\ b \in Int /\ s \in Int
        /\ x - y < Windows /\ y - x < Windows
    BY <1>1, <1>2, <1>3
  <1>5. Windows * (q - p) = a - b /\ Windows * (p - q) = b - a
    BY <1>3
  <1>6. q - p > 0 => Windows * (q - p) >= Windows
    BY <1>3, Times
  <1>7. p - q > 0 => Windows * (p - q) >= Windows
    BY <1>3, Times
  <1> HIDE DEF s, x, y
  <1>8. q = p
    <2> HIDE DEF a, b
    <2>1. ~(q - p > 0) /\ ~(p - q > 0)
      BY <1>3, <1>4, <1>5, <1>6, <1>7
    <2> QED
      BY <2>1
  <1> QED
    BY <1>4, <1>8 DEF x, y

\* The last of the windows that have to be free is the one of the numbers that
\* are furthest behind.
LEMMA FurthestWindow ==
    ASSUME NEW n \in Nat, NEW m \in Nat, W(m) + FreeWindows = W(n) + 1
    PROVE  (Window(n) + (FreeWindows + 1)) % Windows = Window(m)
  <1>1. PICK q \in Nat : W(n) = Windows * q + Window(n)
    BY Parts
  <1>2. PICK p \in Nat : W(m) = Windows * p + Window(m)
    BY Parts
  <1>3. /\ Window(n) \in 0 .. Windows - 1 /\ Window(m) \in 0 .. Windows - 1
        /\ Windows \in Nat /\ Windows > 0 /\ FreeWindows \in Nat /\ Windows = 2 * FreeWindows
    BY Parts, Bounds
  <1> DEFINE s == Window(n)
             t == Window(m)
             a == Windows * q
             b == Windows * p
             x == W(n)
             y == W(m)
             e == s + (FreeWindows + 1)
  <1>4. x = a + s /\ y = b + t /\ y + FreeWindows = x + 1 /\ a \in Int /\ b \in Int
    BY <1>1, <1>2, <1>3
  <1>5. Windows * (1 + (p - q)) = Windows + b - a
    BY <1>3
  <1>6. e \in Nat /\ t \in 0 .. Windows - 1
    BY <1>3
  <1>7. e = Windows * (1 + (p - q)) + t
    <2> HIDE DEF a, b, x, y
    <2> QED
      BY <1>3, <1>4, <1>5
  <1> HIDE DEF e, t
  <1>8. e % Windows = t
    BY <1>3, <1>6, <1>7, ModIs
  <1> QED
    BY <1>8 DEF e, t

\* A number that is not the first of its window is in the one before's.
LEMMA WindowGoesOn ==
    ASSUME NEW n \in Nat
    PROVE  W(n + 1) = IF SeqNo(n + 1) % WindowSize = 0 THEN W(n) + 1 ELSE W(n)
  <1>1. PICK t \in 0 .. WindowSize - 1 : n = WindowSize * W(n) + t
    BY Parts
  <1>2. PICK u \in 0 .. WindowSize - 1 :
            n + 1 = WindowSize * W(n + 1) + u /\ SeqNo(n + 1) % WindowSize = u
    <2>1. n + 1 \in Nat
      OBVIOUS
    <2> QED
      BY <2>1, Parts
  <1>3. WindowSize \in Nat /\ WindowSize > 1 /\ W(n) \in Nat /\ W(n + 1) \in Nat
    BY Bounds, WMonotone
  <1> DEFINE w == W(n)
             v == W(n + 1)
             a == WindowSize * w
             b == WindowSize * v
  <1>a. a \in Int /\ b \in Int /\ n = a + t /\ n + 1 = b + u
    BY <1>1, <1>2, <1>3
  <1>4. CASE t = WindowSize - 1
    <2>1. WindowSize * (w + 1) = a + WindowSize
      BY <1>3
    <2>2. b + u = a + WindowSize
      <3> HIDE DEF a, b, w, v
      <3> QED
        BY <1>a, <1>3, <1>4
    <2>3. w + 1 \in Int /\ v \in Int
      BY <1>3
    <2>z. PICK z \in 0 .. WindowSize - 1 : z = 0
      BY <1>3
    <2> HIDE DEF w, v
    <2>5. WindowSize * v + u = WindowSize * (w + 1) + z
      BY <1>3, <2>1, <2>2, <2>3, <2>z
    <2>4. v = w + 1 /\ u = z
      BY <1>3, <2>5, <2>3, DivideUnique
    <2> QED
      BY <1>2, <2>4, <2>z DEF w, v
  <1>5. CASE t < WindowSize - 1
    <2>2. WindowSize * v + u = WindowSize * w + (t + 1)
      <3>1. b + u = a + (t + 1)
        <4> HIDE DEF a, b, w, v
        <4> QED
          BY <1>a, <1>3
      <3> QED
        BY <3>1
    <2>3. w \in Int /\ v \in Int /\ t + 1 \in 0 .. WindowSize - 1
      BY <1>3, <1>5
    <2> HIDE DEF w, v
    <2>4. v = w /\ u = t + 1
      BY <1>3, <2>2, <2>3, DivideUnique
    <2> QED
      BY <1>2, <2>4 DEF w, v
  <1> QED
    BY <1>3, <1>4, <1>5

\* A window has room for WindowSize numbers.
LEMMA WindowHolds ==
    ASSUME NEW S \in SUBSET Nat, NEW k \in Nat, \A n \in S : W(n) = k
    PROVE  IsFiniteSet(S) /\ Cardinality(S) \in 0 .. WindowSize
  <1> DEFINE first == WindowSize * k
  <1>1. first \in Int /\ WindowSize \in Nat
    BY Bounds
  <1>2. \A n \in S : n \in first .. first + WindowSize - 1
    <2> SUFFICES ASSUME NEW n \in S PROVE n \in first .. first + WindowSize - 1
      OBVIOUS
    <2>1. WindowSize * W(n) <= n /\ n < WindowSize * W(n) + WindowSize
      BY WMonotone
    <2>2. first <= n /\ n < first + WindowSize
      BY <2>1
    <2> HIDE DEF first
    <2> QED
      BY <1>1, <2>2
  <1> HIDE DEF first
  <1>3. /\ IsFiniteSet(first .. first + WindowSize - 1)
        /\ Cardinality(first .. first + WindowSize - 1) = WindowSize
    BY <1>1, Bounds, FS_Interval
  <1>4. S \in SUBSET (first .. first + WindowSize - 1)
    BY <1>2
  <1>5. IsFiniteSet(S) /\ Cardinality(S) <= WindowSize
    <2>1. IsFiniteSet(S) /\ Cardinality(S) <= Cardinality(first .. first + WindowSize - 1)
      BY <1>3, <1>4, FS_Subset
    <2> QED
      BY <1>3, <2>1
  <1>6. Cardinality(S) \in Nat
    BY <1>5, FS_CardinalityType
  <1> QED
    BY <1>1, <1>5, <1>6

-----------------------------------------------------------------------------
(* Sequences                                                               *)

\* A set of numbers has a least one.
LEMMA NatMin ==
    ASSUME NEW S \in SUBSET Nat, S # {}
    PROVE  \E x \in S : \A y \in S : x <= y
  <1> DEFINE R == {ss \in Nat \X Nat : ss[1] < ss[2]}
  <1>1. IsWellFoundedOn(R, Nat)
    BY NatLessThanWellFounded DEF OpToRel
  <1>2. \A x, y \in Nat : y < x => <<y, x>> \in R
    OBVIOUS
  <1> HIDE DEF R
  <1>3. PICK x \in S : \A y \in S : ~(<<y, x>> \in R)
    BY WFMin, <1>1
  <1>4. ASSUME NEW y \in S PROVE x <= y
    <2>1. x \in Nat /\ y \in Nat
      OBVIOUS
    <2>2. ~(y < x)
      BY <1>2, <1>3, <2>1
    <2> QED
      BY <2>1, <2>2
  <1> QED
    BY <1>4

\* First is the least element.
LEMMA FirstIs ==
    ASSUME NEW S \in SUBSET Nat, S # {}
    PROVE  First(S) \in S /\ \A j \in S : First(S) <= j
  <1>1. \E x \in S : \A y \in S : x <= y
    BY NatMin
  <1> QED
    BY <1>1 DEF First

\* One sequence behind another.
LEMMA Joined ==
    ASSUME NEW S, NEW s \in Seq(S), NEW t \in Seq(S)
    PROVE  /\ s \o t \in Seq(S) /\ Len(s \o t) = Len(s) + Len(t)
           /\ DOMAIN (s \o t) = 1 .. (Len(s) + Len(t)) /\ Len(s) \in Nat /\ Len(t) \in Nat
           /\ \A i \in 1 .. Len(s) : (s \o t)[i] = s[i]
           /\ \A i \in 1 .. Len(t) : (s \o t)[Len(s) + i] = t[i]
           /\ \A i \in 1 .. (Len(s) + Len(t)) : i > Len(s) => (s \o t)[i] = t[i - Len(s)]
  <1> DEFINE r == s \o t
  <1>1. r \in Seq(S) /\ Len(r) = Len(s) + Len(t)
        /\ \A i \in 1 .. Len(s) + Len(t) : r[i] = IF i <= Len(s) THEN s[i] ELSE t[i - Len(s)]
    BY ConcatProperties, Zenon
  <1>2. Len(s) \in Nat /\ Len(t) \in Nat
    BY LenProperties
  <1>3. DOMAIN r = 1 .. Len(r)
    BY <1>1, LenProperties
  <1> HIDE DEF r
  <1>4. \A i \in 1 .. Len(s) : r[i] = s[i]
    BY <1>1, <1>2
  <1>5. \A i \in 1 .. Len(t) : r[Len(s) + i] = t[i]
    <2> SUFFICES ASSUME NEW i \in 1 .. Len(t) PROVE r[Len(s) + i] = t[i]
      OBVIOUS
    <2>1. Len(s) + i \in 1 .. Len(s) + Len(t) /\ ~(Len(s) + i <= Len(s)) /\ Len(s) + i - Len(s) = i
      BY <1>2
    <2> QED
      BY <1>1, <2>1
  <1>6. \A i \in 1 .. (Len(s) + Len(t)) : i > Len(s) => r[i] = t[i - Len(s)]
    BY <1>1, <1>2
  <1> QED
    BY <1>1, <1>2, <1>3, <1>4, <1>5, <1>6 DEF r

\* A sequence without its i-th element.
LEMMA Removed ==
    ASSUME NEW S, NEW s \in Seq(S), NEW i \in 1 .. Len(s)
    PROVE  LET r == RemoveAt(s, i) IN
           /\ r \in Seq(S) /\ Len(r) = Len(s) - 1 /\ DOMAIN r = 1 .. (Len(s) - 1) /\ Len(s) \in Nat
           /\ \A j \in 1 .. (i - 1) : r[j] = s[j]
           /\ \A j \in i .. (Len(s) - 1) : r[j] = s[j + 1]
  <1> DEFINE a == SubSeq(s, 1, i - 1)
             b == SubSeq(s, i + 1, Len(s))
             r == RemoveAt(s, i)
  <1>1. Len(s) \in Nat /\ DOMAIN s = 1 .. Len(s)
    BY LenProperties
  <1>2. /\ a \in Seq(S) /\ Len(a) = i - 1 /\ b \in Seq(S) /\ Len(b) = Len(s) - i
        /\ \A j \in 1 .. (i - 1) : a[j] = s[j]
        /\ \A j \in 1 .. (Len(s) - i) : b[j] = s[i + j]
    <2>1. 1 \in 1 .. Len(s) + 1 /\ i - 1 \in 1 - 1 .. Len(s)
          /\ i + 1 \in 1 .. Len(s) + 1 /\ Len(s) \in (i + 1) - 1 .. Len(s)
      BY <1>1
    <2>2. a \in Seq(S) /\ Len(a) = (i - 1) - 1 + 1 /\ \A j \in 1 .. (i - 1) - 1 + 1 : a[j] = s[1 + j - 1]
      BY <2>1, SubSeqProperties
    <2>3. b \in Seq(S) /\ Len(b) = Len(s) - (i + 1) + 1
          /\ \A j \in 1 .. Len(s) - (i + 1) + 1 : b[j] = s[(i + 1) + j - 1]
      BY <2>1, SubSeqProperties
    <2> HIDE DEF a, b
    <2>4. /\ (i - 1) - 1 + 1 = i - 1 /\ Len(s) - (i + 1) + 1 = Len(s) - i
          /\ \A j \in Int : 1 + j - 1 = j /\ (i + 1) + j - 1 = i + j
      BY <1>1
    <2>5. Len(a) = i - 1 /\ \A j \in 1 .. (i - 1) : a[j] = s[j]
      BY <1>1, <2>2, <2>4
    <2>6. Len(b) = Len(s) - i /\ \A j \in 1 .. (Len(s) - i) : b[j] = s[i + j]
      BY <1>1, <2>3, <2>4
    <2> QED
      BY <2>2, <2>3, <2>5, <2>6
  <1>3. r = a \o b
    BY DEF RemoveAt
  <1> HIDE DEF a, b, r
  <1>4. /\ a \o b \in Seq(S) /\ Len(a \o b) = Len(a) + Len(b)
        /\ DOMAIN (a \o b) = 1 .. (Len(a) + Len(b))
        /\ \A j \in 1 .. Len(a) : (a \o b)[j] = a[j]
        /\ \A j \in 1 .. Len(b) : (a \o b)[Len(a) + j] = b[j]
    <2>1. a \in Seq(S) /\ b \in Seq(S)
      BY <1>2
    <2> QED
      BY <2>1, Joined
  <1>5. r \in Seq(S) /\ Len(r) = Len(s) - 1 /\ DOMAIN r = 1 .. (Len(s) - 1)
    BY <1>1, <1>2, <1>3, <1>4
  <1>6. \A j \in 1 .. (i - 1) : r[j] = s[j]
    BY <1>2, <1>3, <1>4
  <1>7. ASSUME NEW j \in i .. (Len(s) - 1) PROVE r[j] = s[j + 1]
    <2> DEFINE k == j - (i - 1)
    <2>1. k \in 1 .. Len(b) /\ j = Len(a) + k /\ i + k = j + 1
      BY <1>1, <1>2
    <2> HIDE DEF k
    <2> QED
      BY <1>1, <1>2, <1>3, <1>4, <2>1
  <1> QED
    BY <1>1, <1>5, <1>6, <1>7 DEF r

\* The elements of a finite set of numbers have the ranks 1, 2, ... in it.
LEMMA RankExists ==
    ASSUME NEW S \in SUBSET Nat, IsFiniteSet(S)
    PROVE  LET rank(i) == Cardinality({j \in S : j < i}) + 1 IN
           /\ \A n \in 1 .. Cardinality(S) : \E i \in S : rank(i) = n
           /\ \A i \in S : rank(i) \in 1 .. Cardinality(S)
           /\ \A i, j \in S : rank(i) = rank(j) => i = j
  <1> DEFINE below(i) == {j \in S : j < i}
             rank == [i \in S |-> Cardinality(below(i)) + 1]
             c == Cardinality(S)
  <1>1. \A i \in S : IsFiniteSet(below(i)) /\ Cardinality(below(i)) \in Nat
    <2> SUFFICES ASSUME NEW i \in S
                 PROVE  IsFiniteSet(below(i)) /\ Cardinality(below(i)) \in Nat
      OBVIOUS
    <2>1. below(i) \in SUBSET S
      OBVIOUS
    <2> QED
      BY <2>1, FS_Subset, FS_CardinalityType
  <1>2. c \in Nat
    BY FS_CardinalityType
  <1>3. \A i \in S : Cardinality(below(i)) < c
    <2> SUFFICES ASSUME NEW i \in S PROVE Cardinality(below(i)) < c
      OBVIOUS
    <2>1. below(i) \in SUBSET S /\ i \notin below(i)
      OBVIOUS
    <2>2. below(i) # S
      BY <2>1
    <2>3. Cardinality(below(i)) <= c /\ (c = Cardinality(below(i)) => S = below(i))
      BY <2>1, FS_Subset
    <2> QED
      BY <1>1, <1>2, <2>2, <2>3
  <1>4. rank \in [S -> 1 .. c]
    BY <1>1, <1>2, <1>3
  <1>5. \A i, j \in S : i < j => Cardinality(below(i)) < Cardinality(below(j))
    <2> SUFFICES ASSUME NEW i \in S, NEW j \in S, i < j
                 PROVE  Cardinality(below(i)) < Cardinality(below(j))
      OBVIOUS
    <2>0. i \in Nat /\ j \in Nat /\ \A k \in S : k \in Nat
      OBVIOUS
    <2>a. \A k \in S : k < i => k < j
      BY <2>0
    <2>b. ~(i < i)
      BY <2>0
    <2>1. below(i) \in SUBSET below(j) /\ i \in below(j) /\ i \notin below(i)
      BY <2>a, <2>b, Zenon
    <2>2. below(i) # below(j)
      BY <2>1
    <2>3. /\ Cardinality(below(i)) <= Cardinality(below(j))
          /\ Cardinality(below(j)) = Cardinality(below(i)) => below(j) = below(i)
      BY <1>1, <2>1, FS_Subset
    <2> QED
      BY <1>1, <2>2, <2>3
  <1>6. \A i, j \in S : rank[i] = rank[j] => i = j
    <2> SUFFICES ASSUME NEW i \in S, NEW j \in S, rank[i] = rank[j] PROVE i = j
      OBVIOUS
    <2>1. Cardinality(below(i)) = Cardinality(below(j))
      BY <1>1
    <2>2. ~(i < j) /\ ~(j < i)
      BY <1>1, <1>5, <2>1
    <2> QED
      BY <2>2
  <1>7. rank \in Injection(S, 1 .. c)
    BY <1>4, <1>6 DEF Injection, IsInjective
  <1>8. IsFiniteSet(1 .. c) /\ Cardinality(1 .. c) = c
    BY <1>2, FS_Interval
  <1>9. rank \in Surjection(S, 1 .. c)
    BY <1>7, <1>8, FS_Injection
  <1>10. \A n \in 1 .. c : \E i \in S : rank[i] = n
    BY <1>9 DEF Surjection
  <1>11. \A i \in S : rank[i] = Cardinality({j \in S : j < i}) + 1
    OBVIOUS
  <1> HIDE DEF rank
  <1> QED
    BY <1>4, <1>6, <1>10, <1>11

\* An injective family has as many members as indices.
LEMMA CountOnce ==
    ASSUME NEW S, IsFiniteSet(S), NEW f, f = [i \in S |-> f[i]],
           \A i, j \in S : f[i] = f[j] => i = j
    PROVE  IsFiniteSet({f[i] : i \in S}) /\ Cardinality({f[i] : i \in S}) = Cardinality(S)
  <1> DEFINE T == {f[i] : i \in S}
  <1>1. f \in [S -> T]
    OBVIOUS
  <1>2. f \in Bijection(S, T)
    BY <1>1 DEF Bijection, Injection, Surjection, IsInjective
  <1> QED
    BY <1>2, FS_Bijection DEF ExistsBijection

\* The places of Part are those of the set, each once.
LEMMA PartIs ==
    ASSUME sent \in Seq(Outgoing), NEW late \in SUBSET DOMAIN sent, NEW isLate \in BOOLEAN
    PROVE  LET places == {i \in DOMAIN sent : (i \in late) = isLate}
               part == Part(late, isLate)
           IN  /\ part \in Seq(Outgoing) /\ Len(part) = Cardinality(places)
               /\ IsFiniteSet(places) /\ Cardinality(places) \in Nat
               /\ \E f \in [1 .. Cardinality(places) -> places] :
                     /\ \A k \in 1 .. Cardinality(places) : part[k] = sent[f[k]]
                     /\ \A k, m \in 1 .. Cardinality(places) : f[k] = f[m] => k = m
                     /\ \A i \in places : \E k \in 1 .. Cardinality(places) : f[k] = i
  <1> DEFINE places == {i \in DOMAIN sent : (i \in late) = isLate}
             c == Cardinality(places)
             rank(i) == Cardinality({j \in places : j < i}) + 1
             nth(k) == CHOOSE i \in places : rank(i) = k
             f == [k \in 1 .. c |-> nth(k)]
  <1>1. DOMAIN sent = 1 .. Len(sent) /\ Len(sent) \in Nat
    BY LenProperties
  <1>2. IsFiniteSet(places) /\ places \in SUBSET Nat /\ c \in Nat
    <2>1. IsFiniteSet(1 .. Len(sent))
      BY <1>1, FS_Interval
    <2>2. places \in SUBSET (1 .. Len(sent))
      BY <1>1
    <2>3. IsFiniteSet(places) /\ c \in Nat
      BY <2>1, <2>2, FS_Subset, FS_CardinalityType
    <2> QED
      BY <2>2, <2>3
  <1>3. Part(late, isLate) = [k \in 1 .. c |-> sent[nth(k)]]
    BY DEF Part
  <1>4. \A i \in places : i \in DOMAIN sent
    OBVIOUS
  <1> HIDE DEF places
  <1>5. /\ \A k \in 1 .. c : \E i \in places : rank(i) = k
        /\ \A i \in places : rank(i) \in 1 .. c
        /\ \A i, j \in places : rank(i) = rank(j) => i = j
    BY <1>2, RankExists
  <1> HIDE DEF c, rank
  <1>6. \A k \in 1 .. c : nth(k) \in places /\ rank(nth(k)) = k
    BY <1>5
  <1> HIDE DEF nth
  <1>7. \A k \in 1 .. c : sent[nth(k)] \in Outgoing
    BY <1>1, <1>4, <1>6
  <1>8. /\ Part(late, isLate) \in Seq(Outgoing) /\ Len(Part(late, isLate)) = c
        /\ \A k \in 1 .. c : Part(late, isLate)[k] = sent[nth(k)]
    BY <1>2, <1>3, <1>7
  <1>9. /\ f \in [1 .. c -> places]
        /\ \A k \in 1 .. c : Part(late, isLate)[k] = sent[f[k]]
        /\ \A k, m \in 1 .. c : f[k] = f[m] => k = m
        /\ \A i \in places : \E k \in 1 .. c : f[k] = i
    <2>1. f \in [1 .. c -> places] /\ \A k \in 1 .. c : f[k] = nth(k)
      BY <1>6
    <2>2. \A i \in places : nth(rank(i)) = i
      BY <1>5, <1>6
    <2> HIDE DEF f
    <2>3. \A k, m \in 1 .. c : f[k] = f[m] => k = m
      BY <1>6, <2>1
    <2>4. \A i \in places : \E k \in 1 .. c : f[k] = i
      BY <1>5, <2>1, <2>2
    <2>5. \A k \in 1 .. c : Part(late, isLate)[k] = sent[f[k]]
      BY <1>8, <2>1
    <2> QED
      BY <2>1, <2>3, <2>4, <2>5
  <1> QED
    BY <1>2, <1>8, <1>9 DEF c, places

-----------------------------------------------------------------------------
(* The sender's invariant                                                  *)

SenderTypes ==
    /\ out \in 0 .. MaxCommands
    /\ queued \in Seq(Outgoing) /\ sent \in Seq(Outgoing)
    /\ windows \in [0 .. Windows - 1 -> Nat] /\ inTransit \in Nat /\ sending \in BOOLEAN

\* The commands up to h have been sent at least once; the later ones wait in
\* their order behind those that are to be sent again.
Queue(h) ==
    /\ Start <= h /\ h <= out /\ out - h <= Len(queued)
    /\ \A i \in DOMAIN sent : sent[i].tried /\ sent[i].cmd.n <= h
    /\ \A i \in DOMAIN queued : i <= Len(queued) - (out - h) =>
          queued[i].tried /\ queued[i].cmd.n <= h
    /\ \A i \in DOMAIN queued : i > Len(queued) - (out - h) =>
          ~queued[i].tried /\ queued[i].cmd.n = out - Len(queued) + i

\* No command is held twice.
Distinct ==
    /\ \A i, j \in DOMAIN sent : sent[i].cmd.n = sent[j].cmd.n => i = j
    /\ \A i, j \in DOMAIN queued : queued[i].cmd.n = queued[j].cmd.n => i = j
    /\ \A i \in DOMAIN sent, j \in DOMAIN queued : sent[i].cmd.n # queued[j].cmd.n

\* The numbers that have been sent and may have to be sent again.
InUse(h) == {n \in Outstanding : n <= h}
InWindow(h, w) == {n \in InUse(h) : Window(n) = w}

Counters(h) ==
    /\ inTransit = Len(sent) /\ inTransit <= DataWindow
    /\ \A w \in 0 .. Windows - 1 : windows[w] = Cardinality(InWindow(h, w))
    /\ sending => MaySend(queued, windows, inTransit)

\* They are in the last FreeWindows - 1 windows.
Flow(h) == \A n \in InUse(h) : W(h) <= W(n) + FreeWindows - 2

SInv(h) == SenderTypes /\ Queue(h) /\ Distinct /\ Counters(h) /\ Flow(h)

-----------------------------------------------------------------------------
(* What follows from it                                                    *)

\* A command held is of its type and not above out; the numbers in use are
\* finitely many.
LEMMA HeldIs ==
    ASSUME NEW h \in Nat, SInv(h)
    PROVE  /\ \A i \in DOMAIN sent : /\ sent[i] \in Outgoing /\ sent[i].cmd \in Command
                                     /\ sent[i].cmd.n \in Nat /\ sent[i].cmd.n <= out
           /\ \A i \in DOMAIN queued : /\ queued[i] \in Outgoing /\ queued[i].cmd \in Command
                                       /\ queued[i].cmd.n \in Nat /\ queued[i].cmd.n <= out
           /\ Held \subseteq Command /\ Outstanding \subseteq 1 .. out
           /\ Len(sent) \in Nat /\ DOMAIN sent = 1 .. Len(sent)
           /\ Len(queued) \in Nat /\ DOMAIN queued = 1 .. Len(queued)
           /\ out \in Nat
  <1>1. /\ queued \in Seq(Outgoing) /\ sent \in Seq(Outgoing) /\ out \in Nat
    BY Bounds DEF SInv, SenderTypes
  <1>2. /\ Len(sent) \in Nat /\ DOMAIN sent = 1 .. Len(sent)
        /\ Len(queued) \in Nat /\ DOMAIN queued = 1 .. Len(queued)
    BY <1>1, LenProperties
  <1>3. /\ \A i \in DOMAIN sent : sent[i] \in Outgoing
        /\ \A i \in DOMAIN queued : queued[i] \in Outgoing
    BY <1>1, <1>2
  <1>4. \A o \in Outgoing : o.cmd \in Command /\ o.cmd.n \in Nat /\ o.cmd.n >= 1
    BY DEF Outgoing, Command
  <1>5. \A i \in DOMAIN sent : sent[i].cmd.n <= out
    BY <1>1, <1>3, <1>4 DEF SInv, Queue
  <1>6. \A i \in DOMAIN queued : queued[i].cmd.n <= out
    <2> SUFFICES ASSUME NEW i \in DOMAIN queued PROVE queued[i].cmd.n <= out
      OBVIOUS
    <2>0. i \in Nat /\ i <= Len(queued) /\ h <= out /\ queued[i].cmd.n \in Nat
      BY <1>2, <1>3, <1>4 DEF SInv, Queue
    <2>1. CASE i <= Len(queued) - (out - h)
      BY <1>1, <1>2, <2>0, <2>1 DEF SInv, Queue
    <2>2. CASE i > Len(queued) - (out - h)
      <3>1. queued[i].cmd.n = out - Len(queued) + i
        BY <2>2 DEF SInv, Queue
      <3> QED
        BY <1>1, <1>2, <2>0, <3>1
    <2> QED
      BY <1>1, <1>2, <2>0, <2>1, <2>2
  <1>7. Held \subseteq Command
    BY <1>3, <1>4 DEF Held
  <1>8. Outstanding \subseteq 1 .. out
    <2> SUFFICES ASSUME NEW c \in Held PROVE c.n \in 1 .. out
      BY DEF Outstanding
    <2>1. CASE \E i \in DOMAIN sent : c = sent[i].cmd
      BY <1>1, <1>3, <1>4, <1>5, <2>1
    <2>2. CASE \E i \in DOMAIN queued : c = queued[i].cmd
      BY <1>1, <1>3, <1>4, <1>6, <2>2
    <2> QED
      BY <2>1, <2>2 DEF Held
  <1> QED
    BY <1>1, <1>2, <1>3, <1>4, <1>5, <1>6, <1>7, <1>8

\* The numbers in use can be counted.
LEMMA InUseFinite ==
    ASSUME NEW h \in Nat, SInv(h), NEW w
    PROVE  /\ IsFiniteSet(InUse(h)) /\ IsFiniteSet(InWindow(h, w)) /\ InUse(h) \subseteq Nat
           /\ Cardinality(InWindow(h, w)) \in Nat
  <1>1. Outstanding \subseteq 1 .. out /\ out \in Nat
    BY HeldIs
  <1>2. IsFiniteSet(1 .. out)
    BY <1>1, FS_Interval
  <1>3. InUse(h) \in SUBSET (1 .. out) /\ InWindow(h, w) \in SUBSET (1 .. out)
    BY <1>1 DEF InUse, InWindow
  <1> QED
    BY <1>1, <1>2, <1>3, FS_Subset, FS_CardinalityType

\* Steps after which as much is in use as before.
LEMMA SameInUse ==
    ASSUME NEW h \in Nat, SInv(h), InUse(h)' = InUse(h), UNCHANGED windows
    PROVE  /\ \A w \in 0 .. Windows - 1 : windows'[w] = Cardinality(InWindow(h, w)')
           /\ Flow(h)'
  <1>1. \A w : InWindow(h, w)' = InWindow(h, w)
    BY DEF InWindow
  <1> QED
    BY <1>1 DEF SInv, Counters, Flow

-----------------------------------------------------------------------------
(* The sender's steps                                                      *)

\* Fragments get the next numbers, behind all others.
LEMMA SendKeeps ==
    ASSUME NEW h \in Nat, SInv(h), NEW count \in 1 .. MaxFragments, enet_peer_send(count)
    PROVE  /\ SInv(h)'
           /\ out' = out + count
           /\ Held' = Held \cup {[n |-> out + i, start |-> out + 1, count |-> count] : i \in 1 .. count}
           /\ InUse(h)' = InUse(h)
  <1> DEFINE new == [i \in 1 .. count |-> setup_outgoing_command(i, count)]
             len == Len(queued)
  <1>1. /\ ~sending /\ out' = out + count /\ out + count <= MaxCommands
        /\ queued' = queued \o new
        /\ UNCHANGED <<sent, windows, inTransit, sending>>
    BY DEF enet_peer_send
  <1>2. out \in Nat /\ count \in Nat /\ count >= 1 /\ MaxCommands \in Nat
    BY HeldIs, Bounds
  <1>3. \A i \in 1 .. count : /\ new[i] = [cmd |-> [n |-> out + i, start |-> out + 1, count |-> count],
                                           tried |-> FALSE]
                              /\ new[i] \in Outgoing
    <2> SUFFICES ASSUME NEW i \in 1 .. count
                 PROVE  [cmd |-> [n |-> out + i, start |-> out + 1, count |-> count],
                         tried |-> FALSE] \in Outgoing
      BY DEF setup_outgoing_command
    <2>1. out + i \in 1 .. MaxCommands /\ out + 1 \in 1 .. MaxCommands
      BY <1>1, <1>2
    <2> QED
      BY <2>1 DEF Outgoing, Command
  <1>4. new \in Seq(Outgoing) /\ Len(new) = count
    BY <1>2, <1>3
  <1> HIDE DEF new
  <1>5. queued \in Seq(Outgoing)
    BY DEF SInv, SenderTypes
  <1>a. len \in Nat /\ DOMAIN queued = 1 .. len
    BY HeldIs
  <1>b. queued \in Seq(Outgoing) /\ new \in Seq(Outgoing)
    BY <1>4, <1>5
  <1>c. /\ queued \o new \in Seq(Outgoing) /\ Len(queued \o new) = Len(queued) + Len(new)
        /\ DOMAIN (queued \o new) = 1 .. (Len(queued) + Len(new))
        /\ \A i \in 1 .. Len(queued) : (queued \o new)[i] = queued[i]
        /\ \A i \in 1 .. Len(new) : (queued \o new)[Len(queued) + i] = new[i]
        /\ \A i \in 1 .. (Len(queued) + Len(new)) : i > Len(queued) =>
               (queued \o new)[i] = new[i - Len(queued)]
    BY <1>b, Joined
  <1>6. /\ queued' \in Seq(Outgoing) /\ Len(queued') = len + count
        /\ DOMAIN queued' = 1 .. (len + count) /\ len \in Nat /\ DOMAIN queued = 1 .. len
        /\ \A i \in 1 .. len : queued'[i] = queued[i]
        /\ \A i \in 1 .. count : queued'[len + i] = new[i]
        /\ \A i \in 1 .. (len + count) : i > len => queued'[i] = new[i - len]
    BY <1>1, <1>4, <1>a, <1>c, Zenon
  <1> HIDE DEF len
  <1>d. \A i \in 1 .. (len + count) : i > len =>
           i - len \in 1 .. count
           /\ queued'[i].cmd = [n |-> out + (i - len), start |-> out + 1, count |-> count]
           /\ ~queued'[i].tried
    <2> SUFFICES ASSUME NEW i \in 1 .. (len + count), i > len
                 PROVE  /\ i - len \in 1 .. count /\ ~queued'[i].tried
                        /\ queued'[i].cmd = [n |-> out + (i - len), start |-> out + 1, count |-> count]
      OBVIOUS
    <2>1. i - len \in 1 .. count
      BY <1>2, <1>6
    <2>2. queued'[i] = new[i - len]
      BY <1>6
    <2>3. new[i - len] = [cmd |-> [n |-> out + (i - len), start |-> out + 1, count |-> count],
                          tried |-> FALSE]
      BY <1>3, <2>1
    <2> QED
      BY <2>1, <2>2, <2>3
  <1>7. \A i \in 1 .. (len + count) : i > len =>
           i - len \in 1 .. count /\ ~queued'[i].tried /\ queued'[i].cmd.n = out + (i - len)
    <2> SUFFICES ASSUME NEW i \in 1 .. (len + count), i > len
                 PROVE  i - len \in 1 .. count /\ ~queued'[i].tried
                        /\ queued'[i].cmd.n = out + (i - len)
      OBVIOUS
    <2> DEFINE c == queued'[i].cmd
    <2>1. i - len \in 1 .. count /\ ~queued'[i].tried
          /\ c = [n |-> out + (i - len), start |-> out + 1, count |-> count]
      BY <1>d
    <2> HIDE DEF c
    <2>2. c.n = out + (i - len)
      BY <2>1
    <2> QED
      BY <2>1, <2>2 DEF c
  <1>8. SenderTypes'
    BY <1>1, <1>2, <1>6 DEF SInv, SenderTypes
  <1>9. Queue(h)'
    <2>1. Start <= h /\ h <= out /\ out - h <= len /\ h \in Nat
      BY DEF SInv, Queue, len
    <2>2. Start <= h /\ h <= out' /\ out' - h <= Len(queued')
      BY <1>1, <1>2, <1>6, <2>1
    <2>3. \A i \in DOMAIN sent' : sent'[i].tried /\ sent'[i].cmd.n <= h
      BY <1>1 DEF SInv, Queue
    <2>4. Len(queued') - (out' - h) = len - (out - h) /\ out' - Len(queued') = out - len
      BY <1>1, <1>2, <1>6, <2>1
    <2>5. ASSUME NEW i \in DOMAIN queued', i <= len - (out - h)
          PROVE  queued'[i].tried /\ queued'[i].cmd.n <= h
      <3>1. i \in 1 .. len
        BY <1>2, <1>6, <2>1, <2>5
      <3> QED
        BY <1>6, <2>5, <3>1 DEF SInv, Queue
    <2>6. ASSUME NEW i \in DOMAIN queued', i > len - (out - h)
          PROVE  ~queued'[i].tried /\ queued'[i].cmd.n = out - len + i
      <3>1. CASE i <= len
        <4>1. i \in 1 .. len
          BY <1>6, <3>1
        <4> QED
          BY <1>6, <2>6, <4>1 DEF SInv, Queue
      <3>2. CASE i > len
        BY <1>2, <1>6, <1>7, <3>2
      <3> QED
        BY <1>6, <3>1, <3>2
    <2> QED
      BY <2>2, <2>3, <2>4, <2>5, <2>6 DEF Queue
  <1>10. Distinct'
    <2>0. \A j \in DOMAIN queued' : j > len => queued'[j].cmd.n > out
      <3> SUFFICES ASSUME NEW j \in 1 .. (len + count), j > len PROVE queued'[j].cmd.n > out
        BY <1>6
      <3>1. j - len \in 1 .. count /\ queued'[j].cmd.n = out + (j - len)
        BY <1>7
      <3> QED
        BY <1>2, <3>1
    <2>1. \A i \in DOMAIN sent : sent[i].cmd.n \in Nat /\ sent[i].cmd.n <= out
      BY HeldIs
    <2>2. \A i \in 1 .. len : queued[i].cmd.n \in Nat /\ queued[i].cmd.n <= out
      BY <1>6, HeldIs
    <2>3. ASSUME NEW i \in DOMAIN queued', NEW j \in DOMAIN queued',
                 queued'[i].cmd.n = queued'[j].cmd.n
          PROVE  i = j
      <3>1. CASE i <= len /\ j <= len
        BY <1>6, <2>3, <3>1 DEF SInv, Distinct
      <3>2. CASE i > len /\ j > len
        BY <1>2, <1>6, <1>7, <2>3, <3>2
      <3>3. CASE i <= len /\ j > len
        <4>1. i \in 1 .. len /\ j \in DOMAIN queued'
          BY <1>6, <3>3
        <4>2. queued'[i].cmd.n \in Nat /\ queued'[i].cmd.n <= out
          BY <1>6, <2>2, <4>1
        <4>3. queued'[j].cmd.n > out
          BY <2>0, <3>3
        <4> DEFINE a == queued'[i].cmd.n
                   b == queued'[j].cmd.n
        <4>4. a \in Nat /\ a <= out /\ b > out /\ a = b /\ out \in Nat
          BY <1>2, <2>3, <4>2, <4>3
        <4> HIDE DEF a, b
        <4> QED
          BY <4>4
      <3>4. CASE i > len /\ j <= len
        <4>1. j \in 1 .. len /\ i \in DOMAIN queued'
          BY <1>6, <3>4
        <4>2. queued'[j].cmd.n \in Nat /\ queued'[j].cmd.n <= out
          BY <1>6, <2>2, <4>1
        <4>3. queued'[i].cmd.n > out
          BY <2>0, <3>4
        <4> DEFINE a == queued'[j].cmd.n
                   b == queued'[i].cmd.n
        <4>4. a \in Nat /\ a <= out /\ b > out /\ a = b /\ out \in Nat
          BY <1>2, <2>3, <4>2, <4>3
        <4> HIDE DEF a, b
        <4> QED
          BY <4>4
      <3> QED
        BY <1>6, <3>1, <3>2, <3>3, <3>4
    <2>4. ASSUME NEW i \in DOMAIN sent, NEW j \in DOMAIN queued'
          PROVE  sent[i].cmd.n # queued'[j].cmd.n
      <3>1. CASE j <= len
        BY <1>6, <3>1 DEF SInv, Distinct
      <3>2. CASE j > len
        <4>1. sent[i].cmd.n \in Nat /\ sent[i].cmd.n <= out
          BY <2>1
        <4>2. queued'[j].cmd.n > out
          BY <2>0, <3>2
        <4> DEFINE a == sent[i].cmd.n
                   b == queued'[j].cmd.n
        <4>3. a \in Nat /\ a <= out /\ b > out /\ out \in Nat
          BY <1>2, <4>1, <4>2
        <4> HIDE DEF a, b
        <4>4. a # b
          BY <4>3
        <4> QED
          BY <4>4 DEF a, b
      <3> QED
        BY <1>6, <3>1, <3>2
    <2>5. \A i, j \in DOMAIN sent' : sent'[i].cmd.n = sent'[j].cmd.n => i = j
      BY <1>1 DEF SInv, Distinct
    <2> QED
      BY <1>1, <2>3, <2>4, <2>5 DEF Distinct
  <1> DEFINE cmds == {[n |-> out + i, start |-> out + 1, count |-> count] : i \in 1 .. count}
  <1>11. Held' = Held \cup cmds
    <2>1. ASSUME NEW i \in DOMAIN queued'
          PROVE  queued'[i].cmd \in {queued[j].cmd : j \in DOMAIN queued} \cup cmds
      <3>1. CASE i <= len
        BY <1>6, <3>1
      <3>2. CASE i > len
        <4>1. i - len \in 1 .. count
              /\ queued'[i].cmd = [n |-> out + (i - len), start |-> out + 1, count |-> count]
          BY <1>6, <1>d, <3>2
        <4> QED
          BY <4>1
      <3> QED
        BY <1>6, <3>1, <3>2
    <2>2. \A j \in DOMAIN queued : j \in DOMAIN queued' /\ queued'[j].cmd = queued[j].cmd
      BY <1>2, <1>6
    <2>3. ASSUME NEW c \in cmds PROVE \E j \in DOMAIN queued' : queued'[j].cmd = c
      <3>1. PICK i \in 1 .. count : c = [n |-> out + i, start |-> out + 1, count |-> count]
        OBVIOUS
      <3>2. len + i \in DOMAIN queued' /\ queued'[len + i] = new[i]
        BY <1>2, <1>6
      <3>3. queued'[len + i].cmd = c
        <4>0. new[i] = [cmd |-> c, tried |-> FALSE]
          BY <1>3, <3>1, Zenon
        <4>1. new[i].cmd = c
          BY <4>0
        <4> QED
          BY <3>2, <4>1
      <3> QED
        BY <3>2, <3>3
    <2> HIDE DEF cmds
    <2> DEFINE s == {sent[i].cmd : i \in DOMAIN sent}
               q == {queued[i].cmd : i \in DOMAIN queued}
               r == {queued'[i].cmd : i \in DOMAIN queued'}
    <2>4. r = q \cup cmds
      BY <2>1, <2>2, <2>3
    <2>5. Held' = s \cup r /\ Held = s \cup q
      BY <1>1 DEF Held
    <2> HIDE DEF s, q, r
    <2> QED
      BY <2>4, <2>5
  <1>12. InUse(h)' = InUse(h)
    <2>1. Outstanding' = Outstanding \cup {c.n : c \in cmds}
      BY <1>11 DEF Outstanding
    <2>2. \A c \in cmds : c.n \in Nat /\ ~(c.n <= h)
      BY <1>2 DEF SInv, Queue
    <2> HIDE DEF cmds
    <2> QED
      BY <2>1, <2>2 DEF InUse
  <1>13. Counters(h)' /\ Flow(h)'
    BY <1>1, <1>12, SameInUse DEF SInv, Counters
  <1> QED
    BY <1>1, <1>8, <1>9, <1>10, <1>11, <1>12, <1>13 DEF SInv

\* Commands whose time is over go in front of the queue; as many are held as
\* before.
LEMMA TimeoutsKeep ==
    ASSUME NEW h \in Nat, SInv(h), NEW late \in SUBSET DOMAIN sent, check_timeouts(late)
    PROVE  SInv(h)' /\ out' = out /\ Held' = Held /\ InUse(h)' = InUse(h)
  <1> DEFINE P == {i \in DOMAIN sent : (i \in late) = TRUE}
             R == {i \in DOMAIN sent : (i \in late) = FALSE}
             A == Part(late, TRUE)
             B == Part(late, FALSE)
             a == Cardinality(P)
             b == Cardinality(R)
             len == Len(queued)
  <1>1. /\ ~sending /\ queued' = A \o queued /\ sent' = B
        /\ inTransit' = inTransit - Cardinality(late)
        /\ sending' = MaySend(queued', windows, inTransit')
        /\ UNCHANGED <<out, windows>>
    BY DEF check_timeouts
  <1>2. /\ sent \in Seq(Outgoing) /\ queued \in Seq(Outgoing)
        /\ len \in Nat /\ DOMAIN queued = 1 .. len
        /\ Len(sent) \in Nat /\ DOMAIN sent = 1 .. Len(sent) /\ out \in Nat
    BY HeldIs DEF SInv, SenderTypes
  <1>3. /\ A \in Seq(Outgoing) /\ Len(A) = a /\ IsFiniteSet(P) /\ a \in Nat
        /\ \E f \in [1 .. a -> P] :
              /\ \A k \in 1 .. a : A[k] = sent[f[k]]
              /\ \A k, m \in 1 .. a : f[k] = f[m] => k = m
              /\ \A i \in P : \E k \in 1 .. a : f[k] = i
    BY <1>2, PartIs
  <1>4. /\ B \in Seq(Outgoing) /\ Len(B) = b /\ IsFiniteSet(R) /\ b \in Nat
        /\ \E f \in [1 .. b -> R] :
              /\ \A k \in 1 .. b : B[k] = sent[f[k]]
              /\ \A k, m \in 1 .. b : f[k] = f[m] => k = m
              /\ \A i \in R : \E k \in 1 .. b : f[k] = i
    BY <1>2, PartIs
  <1>5. P = late /\ R = DOMAIN sent \ late
    OBVIOUS
  <1> HIDE DEF P, R, A, B, a, b
  <1>6. inTransit' = b /\ inTransit' <= DataWindow /\ inTransit' \in Nat /\ b <= Len(sent)
    <2>1. IsFiniteSet(DOMAIN sent) /\ Cardinality(DOMAIN sent) = Len(sent)
      <3>0. 1 \in Int /\ Len(sent) \in Int
        BY <1>2
      <3>a. IsFiniteSet(1 .. Len(sent))
            /\ Cardinality(1 .. Len(sent)) = IF 1 > Len(sent) THEN 0 ELSE Len(sent) - 1 + 1
        BY <3>0, FS_Interval, Zenon
      <3>1. IsFiniteSet(1 .. Len(sent)) /\ Cardinality(1 .. Len(sent)) = Len(sent)
        BY <1>2, <3>a
      <3> QED
        BY <1>2, <3>1
    <2>2. Cardinality(DOMAIN sent \ late) = Cardinality(DOMAIN sent) - Cardinality(DOMAIN sent \cap late)
      BY <2>1, FS_Difference
    <2>3. DOMAIN sent \cap late = late
      OBVIOUS
    <2>4. b = Len(sent) - a /\ Cardinality(late) = a
      BY <1>5, <2>1, <2>2, <2>3 DEF a, b
    <2>5. inTransit = Len(sent) /\ inTransit <= DataWindow /\ DataWindow \in Nat
      BY Bounds DEF SInv, Counters
    <2> QED
      BY <1>1, <1>2, <1>3, <1>4, <2>4, <2>5
  <1>7. PICK f \in [1 .. a -> P] : /\ \A k \in 1 .. a : A[k] = sent[f[k]]
                                   /\ \A k, m \in 1 .. a : f[k] = f[m] => k = m
                                   /\ \A i \in P : \E k \in 1 .. a : f[k] = i
    BY <1>3
  <1>8. PICK g \in [1 .. b -> R] : /\ \A k \in 1 .. b : B[k] = sent[g[k]]
                                   /\ \A k, m \in 1 .. b : g[k] = g[m] => k = m
                                   /\ \A i \in R : \E k \in 1 .. b : g[k] = i
    BY <1>4
  <1>c. A \in Seq(Outgoing) /\ queued \in Seq(Outgoing)
    BY <1>2, <1>3
  <1>9. /\ A \o queued \in Seq(Outgoing) /\ Len(A \o queued) = Len(A) + Len(queued)
        /\ DOMAIN (A \o queued) = 1 .. (Len(A) + Len(queued))
        /\ \A i \in 1 .. Len(A) : (A \o queued)[i] = A[i]
        /\ \A i \in 1 .. Len(queued) : (A \o queued)[Len(A) + i] = queued[i]
        /\ \A i \in 1 .. (Len(A) + Len(queued)) : i > Len(A) =>
               (A \o queued)[i] = queued[i - Len(A)]
    BY <1>c, Joined
  <1>10. /\ queued' \in Seq(Outgoing) /\ Len(queued') = a + len /\ DOMAIN queued' = 1 .. (a + len)
         /\ \A i \in 1 .. a : queued'[i] = A[i]
         /\ \A i \in 1 .. len : queued'[a + i] = queued[i]
         /\ \A i \in 1 .. (a + len) : i > a => queued'[i] = queued[i - a]
    BY <1>1, <1>3, <1>9, Zenon
  <1> HIDE DEF len
  <1>11. \A i \in 1 .. a : f[i] \in DOMAIN sent /\ f[i] \in late /\ queued'[i] = sent[f[i]]
    <2> SUFFICES ASSUME NEW i \in 1 .. a
                 PROVE  f[i] \in DOMAIN sent /\ f[i] \in late /\ queued'[i] = sent[f[i]]
      OBVIOUS
    <2>1. f[i] \in P
      OBVIOUS
    <2> QED
      BY <1>5, <1>7, <1>10, <2>1
  <1>12. \A i \in 1 .. (a + len) : i > a => i - a \in DOMAIN queued /\ queued'[i] = queued[i - a]
    BY <1>2, <1>3, <1>10
  <1>13. DOMAIN sent' = 1 .. b
         /\ \A i \in DOMAIN sent' : g[i] \in DOMAIN sent /\ g[i] \notin late /\ sent'[i] = sent[g[i]]
    <2>1. DOMAIN sent' = 1 .. b
      BY <1>1, <1>4, LenProperties
    <2> SUFFICES ASSUME NEW i \in 1 .. b
                 PROVE  g[i] \in DOMAIN sent /\ g[i] \notin late /\ sent'[i] = sent[g[i]]
      BY <2>1
    <2>2. g[i] \in R
      OBVIOUS
    <2> QED
      BY <1>1, <1>5, <1>8, <2>2
  <1>14. SenderTypes'
    <2>1. (sending') \in BOOLEAN
      BY <1>1 DEF MaySend
    <2> QED
      BY <1>1, <1>4, <1>6, <1>10, <2>1 DEF SInv, SenderTypes
  <1>15. Queue(h)'
    <2>1. Start <= h /\ h <= out /\ out - h <= len
      BY DEF SInv, Queue, len
    <2>2. Start <= h /\ h <= out' /\ out' - h <= Len(queued')
      BY <1>1, <1>2, <1>3, <1>10, <2>1
    <2>3. \A i \in DOMAIN sent' : sent'[i].tried /\ sent'[i].cmd.n <= h
      BY <1>13 DEF SInv, Queue
    <2>4. Len(queued') - (out' - h) = a + (len - (out - h)) /\ out' - Len(queued') = out - len - a
      BY <1>1, <1>2, <1>3, <1>10, <2>1
    <2>5. ASSUME NEW i \in DOMAIN queued', i <= a + (len - (out - h))
          PROVE  queued'[i].tried /\ queued'[i].cmd.n <= h
      <3>1. CASE i <= a
        <4>1. i \in 1 .. a
          BY <1>3, <1>10, <3>1
        <4> QED
          BY <1>11, <4>1 DEF SInv, Queue
      <3>2. CASE i > a
        <4>1. i - a \in DOMAIN queued /\ queued'[i] = queued[i - a]
          BY <1>10, <1>12, <3>2
        <4>2. i - a <= len - (out - h)
          BY <1>2, <1>3, <1>10, <2>5
        <4> QED
          BY <4>1, <4>2 DEF SInv, Queue, len
      <3> QED
        BY <1>3, <1>10, <3>1, <3>2
    <2>6. ASSUME NEW i \in DOMAIN queued', i > a + (len - (out - h))
          PROVE  ~queued'[i].tried /\ queued'[i].cmd.n = out - len - a + i
      <3>1. i > a
        BY <1>2, <1>3, <1>10, <2>1, <2>6
      <3>2. i - a \in DOMAIN queued /\ queued'[i] = queued[i - a]
        BY <1>10, <1>12, <3>1
      <3>3. i - a > len - (out - h)
        BY <1>2, <1>3, <1>10, <2>6
      <3>4. ~queued[i - a].tried /\ queued[i - a].cmd.n = out - len + (i - a)
        BY <3>2, <3>3 DEF SInv, Queue, len
      <3>5. out - len + (i - a) = out - len - a + i
        BY <1>2, <1>3, <1>10
      <3> QED
        BY <3>2, <3>4, <3>5
    <2> QED
      BY <2>2, <2>3, <2>4, <2>5, <2>6 DEF Queue
  <1>16. Distinct'
    <2>1. /\ \A i, j \in DOMAIN sent : sent[i].cmd.n = sent[j].cmd.n => i = j
          /\ \A i, j \in DOMAIN queued : queued[i].cmd.n = queued[j].cmd.n => i = j
          /\ \A i \in DOMAIN sent, j \in DOMAIN queued : sent[i].cmd.n # queued[j].cmd.n
      BY DEF SInv, Distinct
    <2>2. \A i, j \in DOMAIN sent' : sent'[i].cmd.n = sent'[j].cmd.n => i = j
      <3> SUFFICES ASSUME NEW i \in DOMAIN sent', NEW j \in DOMAIN sent', sent'[i].cmd.n = sent'[j].cmd.n
                   PROVE  i = j
        OBVIOUS
      <3>1. g[i] = g[j]
        BY <1>13, <2>1
      <3> QED
        BY <1>8, <1>13, <3>1
    <2>3. ASSUME NEW i \in DOMAIN queued', NEW j \in DOMAIN queued',
                 queued'[i].cmd.n = queued'[j].cmd.n
          PROVE  i = j
      <3>1. CASE i <= a /\ j <= a
        <4>1. i \in 1 .. a /\ j \in 1 .. a
          BY <1>3, <1>10, <3>1
        <4>2. f[i] = f[j]
          BY <1>11, <2>1, <2>3, <4>1
        <4> QED
          BY <1>7, <4>1, <4>2
      <3>2. CASE i > a /\ j > a
        <4>1. /\ i - a \in DOMAIN queued /\ queued'[i] = queued[i - a]
              /\ j - a \in DOMAIN queued /\ queued'[j] = queued[j - a]
          BY <1>10, <1>12, <3>2
        <4>2. i - a = j - a
          BY <2>1, <2>3, <4>1
        <4>3. i \in Int /\ j \in Int /\ a \in Int
          BY <1>3, <1>10
        <4> HIDE DEF a
        <4> QED
          BY <4>2, <4>3
      <3>3. CASE i <= a /\ j > a
        <4>1. i \in 1 .. a /\ j - a \in DOMAIN queued /\ queued'[j] = queued[j - a]
          BY <1>3, <1>10, <1>12, <3>3
        <4> QED
          BY <1>11, <2>1, <2>3, <4>1
      <3>4. CASE i > a /\ j <= a
        <4>1. j \in 1 .. a /\ i - a \in DOMAIN queued /\ queued'[i] = queued[i - a]
          BY <1>3, <1>10, <1>12, <3>4
        <4> QED
          BY <1>11, <2>1, <2>3, <4>1
      <3>5. i \in Int /\ j \in Int /\ a \in Int
        BY <1>3, <1>10
      <3>6. (i <= a \/ i > a) /\ (j <= a \/ j > a)
        BY <3>5
      <3> QED
        BY <3>1, <3>2, <3>3, <3>4, <3>6
    <2>4. ASSUME NEW i \in DOMAIN sent', NEW j \in DOMAIN queued',
                 sent'[i].cmd.n = queued'[j].cmd.n
          PROVE  FALSE
      <3>0. g[i] \in DOMAIN sent /\ g[i] \notin late /\ sent'[i] = sent[g[i]]
        BY <1>13
      <3>1. CASE j <= a
        <4>1. j \in 1 .. a
          BY <1>3, <1>10, <3>1
        <4>2. f[j] = g[i]
          BY <1>11, <2>1, <2>4, <3>0, <4>1
        <4> QED
          BY <1>11, <3>0, <4>1, <4>2
      <3>2. CASE j > a
        <4>1. j - a \in DOMAIN queued /\ queued'[j] = queued[j - a]
          BY <1>10, <1>12, <3>2
        <4> QED
          BY <2>1, <2>4, <3>0, <4>1
      <3> QED
        BY <1>3, <1>10, <3>1, <3>2
    <2> QED
      BY <2>2, <2>3, <2>4 DEF Distinct
  <1>17. Held' = Held
    <2> DEFINE S == {sent[i].cmd : i \in DOMAIN sent}
               Q == {queued[i].cmd : i \in DOMAIN queued}
               S1 == {sent'[i].cmd : i \in DOMAIN sent'}
               Q1 == {queued'[i].cmd : i \in DOMAIN queued'}
    <2>1. S1 \subseteq S
      BY <1>13
    <2>2. Q1 \subseteq S \cup Q
      <3> SUFFICES ASSUME NEW i \in DOMAIN queued' PROVE queued'[i].cmd \in S \cup Q
        OBVIOUS
      <3>1. CASE i <= a
        <4>1. i \in 1 .. a
          BY <1>3, <1>10, <3>1
        <4> QED
          BY <1>11, <4>1
      <3>2. CASE i > a
        BY <1>10, <1>12, <3>2
      <3> QED
        BY <1>3, <1>10, <3>1, <3>2
    <2>3. S \subseteq S1 \cup Q1
      <3> SUFFICES ASSUME NEW i \in DOMAIN sent PROVE sent[i].cmd \in S1 \cup Q1
        OBVIOUS
      <3>1. CASE i \in late
        <4>1. PICK k \in 1 .. a : f[k] = i
          BY <1>5, <1>7, <3>1
        <4>2. queued'[k] = sent[i]
          BY <1>11, <4>1
        <4>3. k \in DOMAIN queued'
          BY <1>2, <1>3, <1>10 DEF len
        <4> QED
          BY <4>2, <4>3
      <3>2. CASE i \notin late
        <4>1. PICK k \in 1 .. b : g[k] = i
          BY <1>5, <1>8, <3>2
        <4>2. k \in DOMAIN sent' /\ sent'[k].cmd = sent[i].cmd
          BY <1>13, <4>1
        <4> QED
          BY <4>2
      <3> QED
        BY <3>1, <3>2
    <2>4. Q \subseteq Q1
      <3> SUFFICES ASSUME NEW i \in DOMAIN queued PROVE queued[i].cmd \in Q1
        OBVIOUS
      <3>1. a + i \in DOMAIN queued' /\ queued'[a + i] = queued[i]
        BY <1>2, <1>3, <1>10
      <3> QED
        BY <3>1
    <2>5. Held = S \cup Q /\ Held' = S1 \cup Q1
      BY DEF Held
    <2> HIDE DEF S, Q, S1, Q1
    <2> QED
      BY <2>1, <2>2, <2>3, <2>4, <2>5
  <1>18. InUse(h)' = InUse(h)
    BY <1>17 DEF InUse, Outstanding
  <1>19. Counters(h)' /\ Flow(h)'
    <2>1. /\ \A w \in 0 .. Windows - 1 : windows'[w] = Cardinality(InWindow(h, w)')
          /\ Flow(h)'
      BY <1>1, <1>18, SameInUse
    <2>2. inTransit' = Len(sent')
      BY <1>1, <1>4, <1>6
    <2>3. sending' => MaySend(queued', windows', inTransit')
      BY <1>1
    <2> QED
      BY <1>6, <2>1, <2>2, <2>3 DEF Counters, MaySend, windowWrap
  <1> QED
    BY <1>1, <1>14, <1>15, <1>16, <1>17, <1>18, <1>19 DEF SInv

\* When a new number may be sent, all in use are in the windows that end with
\* the new number's.
LEMMA NextFlows ==
    ASSUME NEW h \in Nat, SInv(h), queued # <<>>, ~windowWrap(Head(queued), windows),
           ~Head(queued).tried, Head(queued).cmd.n = h + 1
    PROVE  \A n \in InUse(h) : W(h + 1) <= W(n) + FreeWindows - 2
  <1> DEFINE o == Head(queued)
  <1>1. ~(SeqNo(h + 1) % WindowSize = 0)
        \/ ~\E i \in 0 .. FreeWindows + 1 : windows[(Window(h + 1) + i) % Windows] > 0
    BY DEF windowWrap
  <1>2. W(h + 1) = IF SeqNo(h + 1) % WindowSize = 0 THEN W(h) + 1 ELSE W(h)
    BY WindowGoesOn
  <1> SUFFICES ASSUME NEW n \in InUse(h) PROVE W(h + 1) <= W(n) + FreeWindows - 2
    OBVIOUS
  <1>3. n \in Nat /\ n <= h /\ W(n) \in Nat /\ W(h) \in Nat /\ W(h + 1) \in Nat
        /\ FreeWindows \in Nat /\ FreeWindows > 2
    <2>1. n \in Nat /\ n <= h
      BY InUseFinite DEF InUse
    <2> QED
      BY <2>1, WMonotone, Bounds
  <1>4. W(h) <= W(n) + FreeWindows - 2
    BY DEF SInv, Flow
  <1>5. CASE ~(SeqNo(h + 1) % WindowSize = 0)
    BY <1>2, <1>4, <1>5
  <1>6. CASE SeqNo(h + 1) % WindowSize = 0
    <2> SUFFICES ASSUME ~(W(h + 1) <= W(n) + FreeWindows - 2) PROVE FALSE
      OBVIOUS
    <2>1. W(n) + FreeWindows = W(h + 1) + 1
      BY <1>2, <1>3, <1>4, <1>6
    <2>2. (Window(h + 1) + (FreeWindows + 1)) % Windows = Window(n)
      BY <1>3, <2>1, FurthestWindow
    <2>3. FreeWindows + 1 \in 0 .. FreeWindows + 1
      BY <1>3
    <2>4. ~(windows[Window(n)] > 0)
      BY <1>1, <1>6, <2>2, <2>3
    <2>5. Window(n) \in 0 .. Windows - 1
      BY <1>3, Parts
    <2>6. windows[Window(n)] = Cardinality(InWindow(h, Window(n)))
      BY <2>5 DEF SInv, Counters
    <2>7. n \in InWindow(h, Window(n))
      BY DEF InWindow
    <2>8. IsFiniteSet(InWindow(h, Window(n))) /\ Cardinality(InWindow(h, Window(n))) \in Nat
      BY InUseFinite
    <2>9. Cardinality(InWindow(h, Window(n))) # 0
      BY <2>7, <2>8, FS_EmptySet
    <2> QED
      BY <2>4, <2>6, <2>8, <2>9
  <1> QED
    BY <1>5, <1>6

\* The number after the last one that has been sent comes into use.
LEMMA NextInUse ==
    ASSUME NEW h \in Nat, SInv(h), Held' = Held, h + 1 \in Outstanding
    PROVE  /\ InUse(h + 1)' = InUse(h) \cup {h + 1}
           /\ \A w : InWindow(h + 1, w)' = IF Window(h + 1) = w THEN InWindow(h, w) \cup {h + 1}
                                           ELSE InWindow(h, w)
           /\ \A w : h + 1 \notin InWindow(h, w)
  <1>1. Outstanding' = Outstanding
    BY DEF Outstanding
  <1>2. Outstanding \subseteq Nat
    BY HeldIs
  <1>3. \A n \in Nat : n <= h + 1 <=> n <= h \/ n = h + 1
    OBVIOUS
  <1>4. InUse(h + 1)' = InUse(h) \cup {h + 1}
    BY <1>1, <1>2, <1>3 DEF InUse
  <1>5. ~(h + 1 <= h)
    OBVIOUS
  <1> QED
    BY <1>4, <1>5 DEF InWindow, InUse

\* The command at the front is sent; when it is a new one, it is the one after
\* the last.
LEMMA OutgoingKeeps ==
    ASSUME NEW h \in Nat, SInv(h), check_outgoing_commands
    PROVE  \E k \in {h, h + 1} :
              /\ SInv(k)' /\ k <= out /\ Head(queued).cmd \in Held /\ Head(queued).cmd.n <= k
              /\ out' = out /\ Held' = Held /\ queued # <<>>
  <1> DEFINE o == Head(queued)
             len == Len(queued)
             e == [o EXCEPT !.tried = TRUE]
  <1>k. PICK k \in {h, h + 1} : k = IF o.tried THEN h ELSE h + 1
    OBVIOUS
  <1>1. /\ sending /\ queued' = Tail(queued) /\ sent' = Append(sent, e)
        /\ windows' = Counted(o) /\ inTransit' = inTransit + 1
        /\ sending' = MaySend(queued', windows', inTransit') /\ out' = out
    BY DEF check_outgoing_commands
  <1>2. queued # <<>> /\ ~windowWrap(o, windows) /\ inTransit + 1 <= DataWindow
    BY <1>1 DEF SInv, Counters, MaySend
  <1>3. /\ sent \in Seq(Outgoing) /\ queued \in Seq(Outgoing)
        /\ len \in Nat /\ DOMAIN queued = 1 .. len
        /\ Len(sent) \in Nat /\ DOMAIN sent = 1 .. Len(sent) /\ out \in Nat
        /\ inTransit \in Nat /\ DataWindow \in Nat
    BY HeldIs, Bounds DEF SInv, SenderTypes
  <1>4. len >= 1 /\ o = queued[1] /\ o \in Outgoing
    BY <1>2, <1>3
  <1>5. e \in Outgoing /\ e.tried = TRUE /\ e.cmd = o.cmd
    BY <1>4 DEF Outgoing
  <1>6. /\ queued' \in Seq(Outgoing) /\ Len(queued') = len - 1 /\ DOMAIN queued' = 1 .. (len - 1)
        /\ \A i \in 1 .. (len - 1) : queued'[i] = queued[i + 1]
    BY <1>1, <1>2, <1>3, HeadTailProperties, LenProperties
  <1>7. /\ sent' \in Seq(Outgoing) /\ Len(sent') = Len(sent) + 1
        /\ DOMAIN sent' = 1 .. (Len(sent) + 1)
        /\ \A i \in 1 .. Len(sent) : sent'[i] = sent[i]
        /\ sent'[Len(sent) + 1] = e
    BY <1>1, <1>3, <1>5, AppendProperties, LenProperties
  <1> HIDE DEF o, len, e
  <1>8. Start <= h /\ h <= out /\ out - h <= len
    BY DEF SInv, Queue, len
  <1>9. o.cmd.n \in Nat /\ o.cmd \in Held
    <2>1. 1 \in DOMAIN queued
      BY <1>3, <1>4
    <2> QED
      BY <1>4, <2>1, HeldIs DEF Held
  <1>10. /\ o.tried => 1 <= len - (out - h) /\ o.cmd.n <= h
         /\ ~o.tried => len = out - h /\ o.cmd.n = h + 1
    <2>1. 1 \in DOMAIN queued
      BY <1>3, <1>4
    <2>2. 1 <= len - (out - h) => o.tried /\ o.cmd.n <= h
      BY <1>4, <2>1 DEF SInv, Queue, len
    <2>3. 1 > len - (out - h) => ~o.tried /\ o.cmd.n = out - len + 1
      BY <1>4, <2>1 DEF SInv, Queue, len
    <2>4. 1 <= len - (out - h) \/ (1 > len - (out - h) /\ len = out - h /\ out - len + 1 = h + 1)
      BY <1>3, <1>8
    <2> QED
      BY <2>2, <2>3, <2>4
  <1>11. k \in {h, h + 1} /\ k \in Nat /\ k <= out /\ o.cmd.n <= k /\ h <= k
    BY <1>k, <1>3, <1>4, <1>8, <1>9, <1>10
  <1>12. SenderTypes'
    <2>1. (sending') \in BOOLEAN
      BY <1>1 DEF MaySend
    <2>2. windows' \in [0 .. Windows - 1 -> Nat]
      <3>1. windows \in [0 .. Windows - 1 -> Nat]
        BY DEF SInv, SenderTypes
      <3>2. \A v \in Nat : v + 1 \in Nat
        OBVIOUS
      <3> DEFINE v == Window(o.cmd.n)
                 D == 0 .. Windows - 1
                 more == [windows EXCEPT ![v] = windows[v] + 1]
      <3>3. windows' = windows \/ windows' = more
        BY <1>1 DEF Counted
      <3> HIDE DEF v, D
      <3>4. more \in [D -> Nat]
        BY <3>1, <3>2 DEF D
      <3> HIDE DEF more
      <3> QED
        BY <3>1, <3>3, <3>4 DEF D
    <2> QED
      BY <1>1, <1>3, <1>6, <1>7, <2>1, <2>2 DEF SInv, SenderTypes
  <1>13. Queue(k)'
    <2>1. Start <= k /\ k <= out' /\ out' - k <= Len(queued')
      <3>1. Start \in Nat
        BY Bounds
      <3> QED
        BY <1>1, <1>3, <1>6, <1>8, <1>10, <1>11, <3>1
    <2>2. \A i \in DOMAIN sent' : sent'[i].tried /\ sent'[i].cmd.n <= k
      <3> SUFFICES ASSUME NEW i \in DOMAIN sent' PROVE sent'[i].tried /\ sent'[i].cmd.n <= k
        OBVIOUS
      <3>1. CASE i = Len(sent) + 1
        BY <1>5, <1>7, <1>11, <3>1
      <3>2. CASE i # Len(sent) + 1
        <4>1. i \in DOMAIN sent /\ sent'[i] = sent[i]
          BY <1>3, <1>7, <3>2
        <4>2. sent[i].tried /\ sent[i].cmd.n <= h /\ sent[i].cmd.n \in Nat
          BY <4>1, HeldIs DEF SInv, Queue
        <4>3. sent[i].cmd.n <= k
          BY <1>11, <4>2
        <4> QED
          BY <4>1, <4>2, <4>3
      <3> QED
        BY <3>1, <3>2
    <2>3. ASSUME NEW i \in DOMAIN queued'
          PROVE  /\ i \in 1 .. (len - 1) /\ i + 1 \in DOMAIN queued /\ queued'[i] = queued[i + 1]
                 /\ Len(queued') - (out' - k) = (len - 1) - (out - k)
                 /\ out' - Len(queued') + i = out - len + (i + 1)
      <3>1. i \in 1 .. (len - 1) /\ i \in Int
        BY <1>6
      <3>2. i + 1 \in DOMAIN queued
        BY <1>3, <3>1
      <3>3. queued'[i] = queued[i + 1]
        BY <1>6, <3>1
      <3>4. Len(queued') - (out' - k) = (len - 1) - (out - k)
        BY <1>1, <1>6
      <3>5. out' - Len(queued') + i = out - len + (i + 1)
        BY <1>1, <1>3, <1>6, <3>1
      <3> QED
        BY <3>1, <3>2, <3>3, <3>4, <3>5
    <2>4. \A i \in DOMAIN queued' : i <= Len(queued') - (out' - k) =>
             queued'[i].tried /\ queued'[i].cmd.n <= k
      <3> SUFFICES ASSUME NEW i \in DOMAIN queued', i <= Len(queued') - (out' - k)
                   PROVE  queued'[i].tried /\ queued'[i].cmd.n <= k
        OBVIOUS
      <3>1. o.tried
        <4> SUFFICES ASSUME ~o.tried PROVE FALSE
          OBVIOUS
        <4>1. k = h + 1 /\ len = out - h
          BY <1>k, <1>10
        <4> QED
          BY <1>3, <2>3, <4>1
      <3>2. k = h /\ i + 1 <= len - (out - h)
        BY <1>k, <1>3, <1>11, <2>3, <3>1
      <3>3. queued[i + 1].tried /\ queued[i + 1].cmd.n <= h
        BY <2>3, <3>2 DEF SInv, Queue, len
      <3> QED
        BY <2>3, <3>2, <3>3
    <2>5. \A i \in DOMAIN queued' : i > Len(queued') - (out' - k) =>
             ~queued'[i].tried /\ queued'[i].cmd.n = out' - Len(queued') + i
      <3> SUFFICES ASSUME NEW i \in DOMAIN queued', i > Len(queued') - (out' - k)
                   PROVE  ~queued'[i].tried /\ queued'[i].cmd.n = out' - Len(queued') + i
        OBVIOUS
      <3>1. i + 1 > len - (out - h)
        <4>1. CASE o.tried
          <5>1. k = h
            BY <1>k, <4>1
          <5> QED
            BY <1>3, <2>3, <5>1
        <4>2. CASE ~o.tried
          BY <1>3, <1>8, <1>10, <2>3, <4>2
        <4> QED
          BY <4>1, <4>2
      <3>2. ~queued[i + 1].tried /\ queued[i + 1].cmd.n = out - len + (i + 1)
        BY <2>3, <3>1 DEF SInv, Queue, len
      <3> QED
        BY <2>3, <3>2
    <2> QED
      BY <2>1, <2>2, <2>4, <2>5 DEF Queue
  <1>14. Distinct'
    <2>1. /\ \A i, j \in DOMAIN sent : sent[i].cmd.n = sent[j].cmd.n => i = j
          /\ \A i, j \in DOMAIN queued : queued[i].cmd.n = queued[j].cmd.n => i = j
          /\ \A i \in DOMAIN sent, j \in DOMAIN queued : sent[i].cmd.n # queued[j].cmd.n
      BY DEF SInv, Distinct
    <2>2. 1 \in DOMAIN queued
      BY <1>3, <1>4
    <2>3. \A i \in DOMAIN sent' : \/ i \in DOMAIN sent /\ sent'[i] = sent[i]
                                  \/ i = Len(sent) + 1 /\ sent'[i].cmd = queued[1].cmd
      BY <1>3, <1>4, <1>5, <1>7
    <2>4. \A i \in DOMAIN queued' : i + 1 \in DOMAIN queued /\ i + 1 # 1 /\ queued'[i] = queued[i + 1]
      BY <1>3, <1>6
    <2>5. \A i, j \in DOMAIN sent' : sent'[i].cmd.n = sent'[j].cmd.n => i = j
      BY <2>1, <2>2, <2>3
    <2>6. \A i, j \in DOMAIN queued' : queued'[i].cmd.n = queued'[j].cmd.n => i = j
      <3> SUFFICES ASSUME NEW i \in DOMAIN queued', NEW j \in DOMAIN queued',
                          queued'[i].cmd.n = queued'[j].cmd.n
                   PROVE  i = j
        OBVIOUS
      <3>1. i + 1 = j + 1
        BY <2>1, <2>4
      <3>2. i \in Int /\ j \in Int
        BY <1>6
      <3> QED
        BY <3>1, <3>2
    <2>7. \A i \in DOMAIN sent', j \in DOMAIN queued' : sent'[i].cmd.n # queued'[j].cmd.n
      BY <2>1, <2>2, <2>3, <2>4
    <2> QED
      BY <2>5, <2>6, <2>7 DEF Distinct
  <1>15. Held' = Held
    <2> DEFINE S == {sent[i].cmd : i \in DOMAIN sent}
               Q == {queued[i].cmd : i \in DOMAIN queued}
               S1 == {sent'[i].cmd : i \in DOMAIN sent'}
               Q1 == {queued'[i].cmd : i \in DOMAIN queued'}
    <2>0. 1 \in DOMAIN queued
      BY <1>3, <1>4
    <2>1. S1 = S \cup {o.cmd}
      <3>1. \A i \in DOMAIN sent' : \/ i \in DOMAIN sent /\ sent'[i].cmd = sent[i].cmd
                                    \/ sent'[i].cmd = o.cmd
        BY <1>3, <1>5, <1>7
      <3>2. Len(sent) + 1 \in DOMAIN sent' /\ sent'[Len(sent) + 1].cmd = o.cmd
        BY <1>3, <1>5, <1>7
      <3>3. \A i \in DOMAIN sent : i \in DOMAIN sent' /\ sent'[i].cmd = sent[i].cmd
        BY <1>3, <1>7
      <3> QED
        BY <3>1, <3>2, <3>3
    <2>2. Q = Q1 \cup {o.cmd}
      <3>1. \A i \in DOMAIN queued' : i + 1 \in DOMAIN queued /\ queued'[i].cmd = queued[i + 1].cmd
        BY <1>3, <1>6
      <3>2. ASSUME NEW i \in DOMAIN queued
            PROVE  queued[i].cmd = o.cmd \/ \E j \in DOMAIN queued' : queued'[j].cmd = queued[i].cmd
        <4>1. CASE i = 1
          BY <1>4, <4>1
        <4>2. CASE i # 1
          <5>1. i - 1 \in 1 .. (len - 1) /\ (i - 1) + 1 = i
            BY <1>3, <4>2
          <5>2. queued'[i - 1] = queued[i]
            BY <1>6, <5>1
          <5> QED
            BY <1>6, <5>1, <5>2
        <4> QED
          BY <4>1, <4>2
      <3> QED
        BY <1>4, <2>0, <3>1, <3>2
    <2>3. Held = S \cup Q /\ Held' = S1 \cup Q1
      BY DEF Held
    <2> HIDE DEF S, Q, S1, Q1
    <2> QED
      BY <2>1, <2>2, <2>3
  <1>16. /\ \A w \in 0 .. Windows - 1 : windows'[w] = Cardinality(InWindow(k, w)')
         /\ Flow(k)'
    <2>1. CASE o.tried
      <3>1. k = h /\ UNCHANGED windows
        BY <1>k, <1>1, <2>1 DEF Counted
      <3>2. InUse(h)' = InUse(h)
        BY <1>15 DEF InUse, Outstanding
      <3> QED
        BY <3>1, <3>2, SameInUse
    <2>2. CASE ~o.tried
      <3>1. k = h + 1 /\ o.cmd.n = h + 1
            /\ windows' = [windows EXCEPT ![Window(h + 1)] = @ + 1]
        BY <1>k, <1>1, <1>10, <2>2 DEF Counted
      <3>2. h + 1 \in Outstanding
        BY <1>9, <3>1 DEF Outstanding
      <3>3. /\ InUse(k)' = InUse(h) \cup {h + 1}
            /\ \A w : InWindow(k, w)' = IF Window(h + 1) = w THEN InWindow(h, w) \cup {h + 1}
                                        ELSE InWindow(h, w)
            /\ \A w : h + 1 \notin InWindow(h, w)
        BY <1>15, <3>1, <3>2, NextInUse
      <3>4. ASSUME NEW w \in 0 .. Windows - 1
            PROVE  windows'[w] = Cardinality(InWindow(k, w)')
        <4>1. windows \in [0 .. Windows - 1 -> Nat] /\ windows[w] = Cardinality(InWindow(h, w))
          BY DEF SInv, SenderTypes, Counters
        <4>2. IsFiniteSet(InWindow(h, w))
          BY InUseFinite
        <4>3. CASE Window(h + 1) = w
          <5>1. windows'[w] = windows[w] + 1
            BY <3>1, <4>1, <4>3
          <5>2. Cardinality(InWindow(h, w) \cup {h + 1}) = Cardinality(InWindow(h, w)) + 1
            BY <3>3, <4>2, FS_AddElement
          <5>3. InWindow(k, w)' = InWindow(h, w) \cup {h + 1}
            BY <3>3, <4>3
          <5> QED
            BY <4>1, <5>1, <5>2, <5>3
        <4>4. CASE Window(h + 1) # w
          <5>1. windows'[w] = windows[w] /\ InWindow(k, w)' = InWindow(h, w)
            BY <3>1, <3>3, <4>1, <4>4
          <5> QED
            BY <4>1, <5>1
        <4> QED
          BY <4>3, <4>4
      <3>5. Flow(k)'
        <4>1. \A n \in InUse(h) : W(h + 1) <= W(n) + FreeWindows - 2
          BY <1>2, <2>2, <3>1, NextFlows DEF o
        <4>2. W(h + 1) \in Nat /\ FreeWindows \in Nat /\ FreeWindows > 2
          BY WMonotone, Bounds
        <4>3. W(h + 1) <= W(h + 1) + FreeWindows - 2
          BY <4>2
        <4>4. \A n \in InUse(k)' : W(k) <= W(n) + FreeWindows - 2
          BY <3>1, <3>3, <4>1, <4>3
        <4> QED
          BY <4>4 DEF Flow
      <3> QED
        BY <3>4, <3>5
    <2> QED
      BY <2>1, <2>2
  <1>17. Counters(k)'
    <2>1. inTransit' = Len(sent') /\ inTransit' <= DataWindow
      <3>1. inTransit = Len(sent)
        BY DEF SInv, Counters
      <3> QED
        BY <1>1, <1>2, <1>7, <3>1
    <2>2. sending' => MaySend(queued', windows', inTransit')
      BY <1>1
    <2> QED
      BY <1>16, <2>1, <2>2 DEF Counters, MaySend, windowWrap
  <1>18. SInv(k)'
    BY <1>12, <1>13, <1>14, <1>16, <1>17 DEF SInv
  <1> QED
    BY <1>1, <1>2, <1>9, <1>11, <1>15, <1>18 DEF o

\* Numbers not far behind: those that are in use, and those that acknowledge.
LEMMA InUseNear ==
    ASSUME NEW h \in Nat, SInv(h), NEW n \in InUse(h)
    PROVE  n \in Nat /\ n <= h /\ h - n < Modulus /\ W(h) - W(n) \in 0 .. FreeWindows - 2
  <1>1. n \in Nat /\ n <= h
    BY InUseFinite DEF InUse
  <1>2. /\ W(h) \in Nat /\ W(n) \in Nat /\ W(n) <= W(h)
        /\ h < WindowSize * W(h) + WindowSize /\ WindowSize * W(n) <= n
    BY <1>1, WMonotone
  <1>3. W(h) <= W(n) + FreeWindows - 2
    BY DEF SInv, Flow
  <1>4. /\ FreeWindows \in Nat /\ WindowSize \in Nat /\ WindowSize > 0 /\ FreeWindows > 2
        /\ Windows = 2 * FreeWindows /\ Modulus = Windows * WindowSize
    BY Bounds DEF Modulus
  <1>5. WindowSize * (Windows - (W(h) - W(n) + 1)) >= WindowSize
    BY <1>2, <1>3, <1>4, Times
  <1>6. WindowSize * (Windows - (W(h) - W(n) + 1))
          = Modulus - (WindowSize * W(h) - WindowSize * W(n)) - WindowSize
    BY <1>2, <1>4
  <1>7. WindowSize * W(h) \in Int /\ WindowSize * W(n) \in Int /\ Modulus \in Int
    BY <1>2, <1>4
  <1> QED
    BY <1>1, <1>2, <1>3, <1>4, <1>5, <1>6, <1>7

\* MaxAge is less than all numbers.
LEMMA AgeIsLess == MaxAge < Modulus /\ FreeWindows * WindowSize < Modulus
  <1>1. /\ FreeWindows \in Nat /\ WindowSize \in Nat /\ WindowSize > 0 /\ FreeWindows > 2
        /\ Windows = 2 * FreeWindows /\ Modulus = Windows * WindowSize
        /\ MaxAge \in Nat /\ MaxAge <= FreeWindows * WindowSize
    BY Bounds DEF Modulus
  <1>2. Modulus = 2 * (FreeWindows * WindowSize) /\ FreeWindows * WindowSize >= FreeWindows
        /\ FreeWindows * WindowSize \in Int
    BY <1>1
  <1> QED
    BY <1>1, <1>2

\* The command with a's sequence number is number a.
LEMMA SameNumber ==
    ASSUME NEW h \in Nat, SInv(h), NEW n \in InUse(h), NEW a \in Nat, a <= h, h < a + MaxAge,
           SeqNo(n) = SeqNo(a)
    PROVE  n = a
  <1>1. n \in Nat /\ n <= h /\ h - n < Modulus
    BY InUseNear
  <1>2. MaxAge < Modulus /\ MaxAge \in Nat /\ Modulus \in Nat
    BY AgeIsLess, Bounds
  <1>3. n - a < Modulus /\ a - n < Modulus
    BY <1>1, <1>2
  <1> QED
    BY <1>1, <1>3, NearSame

\* One number less is in use, and counted.
LEMMA LessInUse ==
    ASSUME NEW h \in Nat, SInv(h), NEW a \in InUse(h), Outstanding' = Outstanding \ {a},
           windows' = [windows EXCEPT ![Window(a)] = IF @ > 0 THEN @ - 1 ELSE @]
    PROVE  /\ \A w \in 0 .. Windows - 1 : windows'[w] = Cardinality(InWindow(h, w)')
           /\ Flow(h)' /\ windows' \in [0 .. Windows - 1 -> Nat]
  <1>1. InUse(h)' = InUse(h) \ {a} /\ \A w : InWindow(h, w)' = InWindow(h, w) \ {a}
    BY DEF InUse, InWindow
  <1>2. \A w : a \in InWindow(h, w) <=> w = Window(a)
    BY DEF InWindow
  <1>3. Window(a) \in 0 .. Windows - 1
    <2>1. a \in Nat
      BY InUseFinite
    <2> QED
      BY <2>1, Parts
  <1>4. windows \in [0 .. Windows - 1 -> Nat]
        /\ \A w \in 0 .. Windows - 1 : windows[w] = Cardinality(InWindow(h, w))
    BY DEF SInv, SenderTypes, Counters
  <1>5. windows[Window(a)] > 0 /\ windows[Window(a)] \in Nat
    <2>1. IsFiniteSet(InWindow(h, Window(a))) /\ Cardinality(InWindow(h, Window(a))) \in Nat
      BY InUseFinite
    <2>2. Cardinality(InWindow(h, Window(a))) # 0
      BY <1>2, <2>1, FS_EmptySet
    <2> QED
      BY <1>3, <1>4, <2>1, <2>2
  <1>6. windows' = [windows EXCEPT ![Window(a)] = windows[Window(a)] - 1]
    BY <1>5
  <1>7. ASSUME NEW w \in 0 .. Windows - 1
        PROVE  windows'[w] = Cardinality(InWindow(h, w)')
    <2>1. IsFiniteSet(InWindow(h, w))
      BY InUseFinite
    <2>2. Cardinality(InWindow(h, w) \ {a})
            = IF a \in InWindow(h, w) THEN Cardinality(InWindow(h, w)) - 1
              ELSE Cardinality(InWindow(h, w))
      BY <2>1, FS_RemoveElement
    <2>3. CASE w = Window(a)
      BY <1>1, <1>2, <1>3, <1>4, <1>6, <2>2, <2>3
    <2>4. CASE w # Window(a)
      <3>1. windows'[w] = windows[w]
        BY <1>3, <1>4, <1>6, <2>4
      <3> QED
        BY <1>1, <1>2, <1>4, <2>2, <2>4, <3>1
    <2> QED
      BY <2>3, <2>4
  <1>8. Flow(h)'
    BY <1>1 DEF SInv, Flow
  <1>9. windows' \in [0 .. Windows - 1 -> Nat]
    BY <1>3, <1>4, <1>5, <1>6
  <1> QED
    BY <1>7, <1>8, <1>9

\* An acknowledgement removes the command with its number, and nothing else.
LEMMA AckKeeps ==
    ASSUME NEW h \in Nat, SInv(h), NEW a \in Nat, a <= h, h < a + MaxAge, ~sending,
           handle_acknowledge(a)
    PROVE  /\ SInv(h)' /\ out' = out
           /\ Held' = Held \/ \E c \in Held : c.n = a /\ Held' = Held \ {c}
  <1> DEFINE inSent == Matching(sent, a)
             inQueue == Matching(queued, a)
             oneLess == [windows EXCEPT ![Window(a)] = IF @ > 0 THEN @ - 1 ELSE @]
             len == Len(queued)
  <1>1. /\ sent \in Seq(Outgoing) /\ queued \in Seq(Outgoing)
        /\ len \in Nat /\ DOMAIN queued = 1 .. len
        /\ Len(sent) \in Nat /\ DOMAIN sent = 1 .. Len(sent) /\ out \in Nat
        /\ inTransit = Len(sent) /\ inTransit <= DataWindow /\ DataWindow \in Nat
    BY HeldIs, Bounds DEF SInv, SenderTypes, Counters
  <1>2. /\ \A i, j \in DOMAIN sent : sent[i].cmd.n = sent[j].cmd.n => i = j
        /\ \A i, j \in DOMAIN queued : queued[i].cmd.n = queued[j].cmd.n => i = j
        /\ \A i \in DOMAIN sent, j \in DOMAIN queued : sent[i].cmd.n # queued[j].cmd.n
    BY DEF SInv, Distinct
  <1> DEFINE S == {sent[i].cmd : i \in DOMAIN sent}
             Q == {queued[i].cmd : i \in DOMAIN queued}
             S1 == {sent'[i].cmd : i \in DOMAIN sent'}
             Q1 == {queued'[i].cmd : i \in DOMAIN queued'}
  <1>3. Held = S \cup Q /\ Held' = S1 \cup Q1
    BY DEF Held
  <1>4. Start <= h /\ h <= out /\ out - h <= len
    BY DEF SInv, Queue
  <1>5. CASE inSent # {}
    <2> DEFINE i == First(inSent)
    <2>1. sent' = RemoveAt(sent, i) /\ inTransit' = inTransit - 1 /\ windows' = oneLess
          /\ UNCHANGED <<out, queued, sending>>
      BY <1>5 DEF handle_acknowledge
    <2>2. i \in DOMAIN sent /\ SeqNo(sent[i].cmd.n) = SeqNo(a)
      <3>1. inSent \in SUBSET Nat
        BY <1>1 DEF Matching
      <3>2. i \in inSent
        BY <1>5, <3>1, FirstIs
      <3> QED
        BY <3>2 DEF Matching
    <2> HIDE DEF i
    <2>3. sent[i].cmd.n = a /\ sent[i].cmd \in Held /\ a \in InUse(h)
      <3>1. sent[i].cmd \in Held /\ sent[i].cmd.n <= h
        BY <2>2 DEF Held, SInv, Queue
      <3>2. sent[i].cmd.n \in InUse(h)
        BY <3>1 DEF InUse, Outstanding
      <3>3. sent[i].cmd.n = a
        BY <2>2, <3>2, SameNumber
      <3> QED
        BY <3>1, <3>2, <3>3
    <2>4. /\ sent' \in Seq(Outgoing) /\ Len(sent') = Len(sent) - 1 /\ DOMAIN sent' = 1 .. (Len(sent) - 1)
          /\ \A j \in 1 .. (i - 1) : sent'[j] = sent[j]
          /\ \A j \in i .. (Len(sent) - 1) : sent'[j] = sent[j + 1]
      <3>1. i \in 1 .. Len(sent)
        BY <1>1, <2>2
      <3> QED
        BY <1>1, <2>1, <3>1, Removed
    <2>5. \A j \in DOMAIN sent' : \E k \in DOMAIN sent \ {i} :
             sent'[j] = sent[k] /\ k = IF j < i THEN j ELSE j + 1
      <3> SUFFICES ASSUME NEW j \in DOMAIN sent'
                   PROVE  \E k \in DOMAIN sent \ {i} :
                             sent'[j] = sent[k] /\ k = IF j < i THEN j ELSE j + 1
        OBVIOUS
      <3>1. CASE j < i
        <4>1. j \in 1 .. (i - 1) /\ j \in DOMAIN sent \ {i}
          BY <1>1, <2>2, <2>4, <3>1
        <4> QED
          BY <2>4, <3>1, <4>1
      <3>2. CASE ~(j < i)
        <4>1. j \in i .. (Len(sent) - 1) /\ j + 1 \in DOMAIN sent \ {i}
          BY <1>1, <2>2, <2>4, <3>2
        <4> QED
          BY <2>4, <3>2, <4>1
      <3> QED
        BY <3>1, <3>2
    <2>6. \A k \in DOMAIN sent : k # i => \E j \in DOMAIN sent' : sent'[j] = sent[k]
      <3> SUFFICES ASSUME NEW k \in DOMAIN sent, k # i
                   PROVE  \E j \in DOMAIN sent' : sent'[j] = sent[k]
        OBVIOUS
      <3>1. CASE k < i
        <4>1. k \in 1 .. (i - 1) /\ k \in DOMAIN sent'
          BY <1>1, <2>2, <2>4, <3>1
        <4> QED
          BY <2>4, <4>1
      <3>2. CASE k > i
        <4>1. k - 1 \in i .. (Len(sent) - 1) /\ k - 1 \in DOMAIN sent' /\ (k - 1) + 1 = k
          BY <1>1, <2>2, <2>4, <3>2
        <4> QED
          BY <2>4, <4>1
      <3> QED
        BY <1>1, <2>2, <3>1, <3>2
    <2>7. S1 = S \ {sent[i].cmd} /\ sent[i].cmd \notin Q /\ Q1 = Q
      <3>1. \A k \in DOMAIN sent : sent[k].cmd = sent[i].cmd => k = i
        BY <1>2, <2>2
      <3>2. \A k \in DOMAIN queued : queued[k].cmd # sent[i].cmd
        BY <1>2, <2>2
      <3>3. S1 = S \ {sent[i].cmd}
        BY <2>2, <2>5, <2>6, <3>1
      <3> QED
        BY <2>1, <3>2, <3>3
    <2>8. Held' = Held \ {sent[i].cmd}
      <3> HIDE DEF S, Q, S1, Q1
      <3> QED
        BY <1>3, <2>7
    <2>9. Outstanding' = Outstanding \ {a}
      <3>1. \A c \in Held : c.n = a => c = sent[i].cmd
        <4> SUFFICES ASSUME NEW c \in Held, c.n = a PROVE c = sent[i].cmd
          OBVIOUS
        <4>1. CASE \E k \in DOMAIN sent : c = sent[k].cmd
          BY <1>2, <2>2, <2>3, <4>1
        <4>2. CASE \E k \in DOMAIN queued : c = queued[k].cmd
          BY <1>2, <2>2, <2>3, <4>2
        <4> QED
          BY <4>1, <4>2 DEF Held
      <3> QED
        BY <2>3, <2>8, <3>1 DEF Outstanding
    <2>10. /\ \A w \in 0 .. Windows - 1 : windows'[w] = Cardinality(InWindow(h, w)')
           /\ Flow(h)' /\ windows' \in [0 .. Windows - 1 -> Nat]
      BY <2>1, <2>3, <2>9, LessInUse
    <2>11. inTransit' = Len(sent') /\ inTransit' <= DataWindow /\ inTransit' \in Nat
      <3>1. Len(sent) >= 1
        BY <1>1, <2>2
      <3> QED
        BY <1>1, <2>1, <2>4, <3>1
    <2>12. SenderTypes'
      BY <2>1, <2>4, <2>10, <2>11 DEF SInv, SenderTypes
    <2>13. Queue(h)'
      BY <2>1, <2>5 DEF SInv, Queue
    <2>14. Distinct'
      <3>1. ASSUME NEW j \in DOMAIN sent', NEW k \in DOMAIN sent', sent'[j].cmd.n = sent'[k].cmd.n
            PROVE  j = k
        <4>1. PICK x \in DOMAIN sent : sent'[j] = sent[x] /\ x = IF j < i THEN j ELSE j + 1
          BY <2>5
        <4>2. PICK y \in DOMAIN sent : sent'[k] = sent[y] /\ y = IF k < i THEN k ELSE k + 1
          BY <2>5
        <4>3. x = y
          BY <1>2, <3>1, <4>1, <4>2
        <4>4. i \in Int /\ j \in Int /\ k \in Int
          BY <1>1, <2>2, <2>4
        <4> QED
          BY <4>1, <4>2, <4>3, <4>4
      <3>2. \A j \in DOMAIN sent', k \in DOMAIN queued' : sent'[j].cmd.n # queued'[k].cmd.n
        BY <1>2, <2>1, <2>5
      <3>3. \A j, k \in DOMAIN queued' : queued'[j].cmd.n = queued'[k].cmd.n => j = k
        BY <1>2, <2>1
      <3> QED
        BY <3>1, <3>2, <3>3 DEF Distinct
    <2>15. Counters(h)'
      BY <2>1, <2>10, <2>11 DEF Counters
    <2>16. SInv(h)'
      BY <2>10, <2>12, <2>13, <2>14, <2>15 DEF SInv
    <2> QED
      BY <2>1, <2>3, <2>8, <2>16
  <1>6. CASE inSent = {} /\ inQueue # {}
    <2> DEFINE i == First(inQueue)
    <2>1. queued' = RemoveAt(queued, i) /\ windows' = oneLess
          /\ UNCHANGED <<out, sent, inTransit, sending>>
      BY <1>6 DEF handle_acknowledge
    <2>2. i \in DOMAIN queued /\ SeqNo(queued[i].cmd.n) = SeqNo(a) /\ queued[i].tried
      <3>1. inQueue \in SUBSET Nat
        BY <1>1 DEF Matching
      <3>2. i \in inQueue
        BY <1>6, <3>1, FirstIs
      <3>3. i \in DOMAIN queued /\ SeqNo(queued[i].cmd.n) = SeqNo(a)
            /\ \A j \in 1 .. i : queued[j].tried
        BY <3>2 DEF Matching
      <3>4. i \in 1 .. i
        BY <1>1, <3>3
      <3> QED
        BY <3>3, <3>4
    <2> HIDE DEF i
    <2>0. i \in 1 .. len /\ i <= len - (out - h)
      <3>1. ~(i > len - (out - h))
        BY <2>2 DEF SInv, Queue
      <3> QED
        BY <1>1, <2>2, <3>1
    <2>3. queued[i].cmd.n = a /\ queued[i].cmd \in Held /\ a \in InUse(h)
      <3>1. queued[i].cmd \in Held /\ queued[i].cmd.n <= h
        BY <2>0, <2>2 DEF Held, SInv, Queue
      <3>2. queued[i].cmd.n \in InUse(h)
        BY <3>1 DEF InUse, Outstanding
      <3>3. queued[i].cmd.n = a
        BY <2>2, <3>2, SameNumber
      <3> QED
        BY <3>1, <3>2, <3>3
    <2>4. /\ queued' \in Seq(Outgoing) /\ Len(queued') = len - 1 /\ DOMAIN queued' = 1 .. (len - 1)
          /\ \A j \in 1 .. (i - 1) : queued'[j] = queued[j]
          /\ \A j \in i .. (len - 1) : queued'[j] = queued[j + 1]
      BY <1>1, <2>0, <2>1, Removed
    <2>5. \A j \in DOMAIN queued' : \E k \in DOMAIN queued \ {i} :
             queued'[j] = queued[k] /\ k = IF j < i THEN j ELSE j + 1
      <3> SUFFICES ASSUME NEW j \in DOMAIN queued'
                   PROVE  \E k \in DOMAIN queued \ {i} :
                             queued'[j] = queued[k] /\ k = IF j < i THEN j ELSE j + 1
        OBVIOUS
      <3>1. CASE j < i
        <4>1. j \in 1 .. (i - 1) /\ j \in DOMAIN queued \ {i}
          BY <1>1, <2>0, <2>4, <3>1
        <4> QED
          BY <2>4, <3>1, <4>1
      <3>2. CASE ~(j < i)
        <4>1. j \in i .. (len - 1) /\ j + 1 \in DOMAIN queued \ {i}
          BY <1>1, <2>0, <2>4, <3>2
        <4> QED
          BY <2>4, <3>2, <4>1
      <3> QED
        BY <3>1, <3>2
    <2>6. \A k \in DOMAIN queued : k # i => \E j \in DOMAIN queued' : queued'[j] = queued[k]
      <3> SUFFICES ASSUME NEW k \in DOMAIN queued, k # i
                   PROVE  \E j \in DOMAIN queued' : queued'[j] = queued[k]
        OBVIOUS
      <3>1. CASE k < i
        <4>1. k \in 1 .. (i - 1) /\ k \in DOMAIN queued'
          BY <1>1, <2>0, <2>4, <3>1
        <4> QED
          BY <2>4, <4>1
      <3>2. CASE k > i
        <4>1. k - 1 \in i .. (len - 1) /\ k - 1 \in DOMAIN queued' /\ (k - 1) + 1 = k
          BY <1>1, <2>0, <2>4, <3>2
        <4> QED
          BY <2>4, <4>1
      <3> QED
        BY <1>1, <2>0, <3>1, <3>2
    <2>7. Q1 = Q \ {queued[i].cmd} /\ queued[i].cmd \notin S /\ S1 = S
      <3>1. \A k \in DOMAIN queued : queued[k].cmd = queued[i].cmd => k = i
        BY <1>2, <2>2
      <3>2. \A k \in DOMAIN sent : sent[k].cmd # queued[i].cmd
        BY <1>2, <2>2
      <3>3. Q1 = Q \ {queued[i].cmd}
        BY <2>2, <2>5, <2>6, <3>1
      <3> QED
        BY <2>1, <3>2, <3>3
    <2>8. Held' = Held \ {queued[i].cmd}
      <3> HIDE DEF S, Q, S1, Q1
      <3> QED
        BY <1>3, <2>7
    <2>9. Outstanding' = Outstanding \ {a}
      <3>1. \A c \in Held : c.n = a => c = queued[i].cmd
        <4> SUFFICES ASSUME NEW c \in Held, c.n = a PROVE c = queued[i].cmd
          OBVIOUS
        <4>1. CASE \E k \in DOMAIN sent : c = sent[k].cmd
          BY <1>2, <2>2, <2>3, <4>1
        <4>2. CASE \E k \in DOMAIN queued : c = queued[k].cmd
          BY <1>2, <2>2, <2>3, <4>2
        <4> QED
          BY <4>1, <4>2 DEF Held
      <3> QED
        BY <2>3, <2>8, <3>1 DEF Outstanding
    <2>10. /\ \A w \in 0 .. Windows - 1 : windows'[w] = Cardinality(InWindow(h, w)')
           /\ Flow(h)' /\ windows' \in [0 .. Windows - 1 -> Nat]
      BY <2>1, <2>3, <2>9, LessInUse
    <2>12. SenderTypes'
      BY <2>1, <2>4, <2>10 DEF SInv, SenderTypes
    <2>13. Queue(h)'
      <3> HIDE DEF len
      <3>1. Start <= h /\ h <= out' /\ out' - h <= Len(queued')
        BY <1>1, <1>4, <2>0, <2>1, <2>4
      <3>2. \A j \in DOMAIN sent' : sent'[j].tried /\ sent'[j].cmd.n <= h
        BY <2>1 DEF SInv, Queue
      <3>3. Len(queued') - (out' - h) = len - 1 - (out - h) /\ out' - Len(queued') = out - len + 1
        BY <1>1, <2>1, <2>4
      <3>4. ASSUME NEW j \in DOMAIN queued', j <= len - 1 - (out - h)
            PROVE  queued'[j].tried /\ queued'[j].cmd.n <= h
        <4>1. PICK k \in DOMAIN queued : queued'[j] = queued[k] /\ k = IF j < i THEN j ELSE j + 1
          BY <2>5
        <4>2. k <= len - (out - h)
          BY <1>1, <2>4, <3>4, <4>1
        <4> QED
          BY <4>1, <4>2 DEF SInv, Queue, len
      <3>5. ASSUME NEW j \in DOMAIN queued', j > len - 1 - (out - h)
            PROVE  ~queued'[j].tried /\ queued'[j].cmd.n = out - len + 1 + j
        <4>1. PICK k \in DOMAIN queued : queued'[j] = queued[k] /\ k = IF j < i THEN j ELSE j + 1
          BY <2>5
        <4>2. k = j + 1 /\ k > len - (out - h) /\ out - len + k = out - len + 1 + j
          <5>1. i \in Int /\ j \in Int /\ len \in Int /\ out \in Int /\ i <= len - (out - h)
            BY <1>1, <2>0, <2>4
          <5>2. ~(j < i)
            BY <3>5, <5>1
          <5>3. k = j + 1
            BY <4>1, <5>2
          <5> QED
            BY <3>5, <5>1, <5>3
        <4>3. ~queued[k].tried /\ queued[k].cmd.n = out - len + k
          BY <4>2 DEF SInv, Queue, len
        <4> QED
          BY <4>1, <4>2, <4>3
      <3> QED
        BY <3>1, <3>2, <3>3, <3>4, <3>5 DEF Queue
    <2>14. Distinct'
      <3>1. ASSUME NEW j \in DOMAIN queued', NEW k \in DOMAIN queued', queued'[j].cmd.n = queued'[k].cmd.n
            PROVE  j = k
        <4>1. PICK x \in DOMAIN queued : queued'[j] = queued[x] /\ x = IF j < i THEN j ELSE j + 1
          BY <2>5
        <4>2. PICK y \in DOMAIN queued : queued'[k] = queued[y] /\ y = IF k < i THEN k ELSE k + 1
          BY <2>5
        <4>3. x = y
          BY <1>2, <3>1, <4>1, <4>2
        <4>4. i \in Int /\ j \in Int /\ k \in Int
          BY <1>1, <2>2, <2>4
        <4> QED
          BY <4>1, <4>2, <4>3, <4>4
      <3>2. \A j \in DOMAIN sent', k \in DOMAIN queued' : sent'[j].cmd.n # queued'[k].cmd.n
        BY <1>2, <2>1, <2>5
      <3>3. \A j, k \in DOMAIN sent' : sent'[j].cmd.n = sent'[k].cmd.n => j = k
        BY <1>2, <2>1
      <3> QED
        BY <3>1, <3>2, <3>3 DEF Distinct
    <2>15. Counters(h)'
      BY <1>1, <2>1, <2>10 DEF Counters
    <2>16. SInv(h)'
      BY <2>10, <2>12, <2>13, <2>14, <2>15 DEF SInv
    <2> QED
      BY <2>1, <2>3, <2>8, <2>16
  <1>7. CASE inSent = {} /\ inQueue = {}
    <2>1. UNCHANGED sender
      BY <1>7 DEF handle_acknowledge
    <2>2. UNCHANGED <<out, queued, sent, windows, inTransit, sending>>
      BY <2>1 DEF sender
    <2>3. Held' = Held
      BY <2>2 DEF Held
    <2>4. InUse(h)' = InUse(h)
      BY <2>3 DEF InUse, Outstanding
    <2>5. /\ \A w \in 0 .. Windows - 1 : windows'[w] = Cardinality(InWindow(h, w)')
          /\ Flow(h)'
      BY <2>2, <2>4, SameInUse
    <2>6. SenderTypes' /\ Queue(h)' /\ Distinct'
      BY <2>2 DEF SInv, SenderTypes, Queue, Distinct
    <2>7. Counters(h)'
      BY <1>1, <2>2, <2>5 DEF Counters
    <2> QED
      BY <2>2, <2>3, <2>5, <2>6, <2>7 DEF SInv
  <1> QED
    BY <1>5, <1>6, <1>7

\* Steps of the others.
LEMMA OthersKeep ==
    ASSUME NEW h \in Nat, SInv(h), UNCHANGED sender
    PROVE  SInv(h)' /\ out' = out /\ Held' = Held /\ InUse(h)' = InUse(h)
  <1>2. UNCHANGED <<out, queued, sent, windows, inTransit, sending>>
    BY DEF sender
  <1>3. Held' = Held
    BY <1>2 DEF Held
  <1>4. InUse(h)' = InUse(h)
    BY <1>3 DEF InUse, Outstanding
  <1>5. /\ \A w \in 0 .. Windows - 1 : windows'[w] = Cardinality(InWindow(h, w)')
        /\ Flow(h)'
    BY <1>2, <1>4, SameInUse
  <1>6. SenderTypes' /\ Queue(h)' /\ Distinct'
    BY <1>2 DEF SInv, SenderTypes, Queue, Distinct
  <1>7. Counters(h)'
    BY <1>2, <1>5 DEF SInv, Counters, MaySend, windowWrap
  <1> QED
    BY <1>2, <1>3, <1>4, <1>5, <1>6, <1>7 DEF SInv

\* The counters count what has been sent and what is to be sent again.
LEMMA CountersExact ==
    ASSUME NEW h \in Nat, SInv(h)
    PROVE  WindowsExact
  <1>1. inTransit = Len(sent)
    BY DEF SInv, Counters
  <1>2. ASSUME NEW w \in 0 .. Windows - 1
        PROVE  windows[w] = Cardinality({i \in DOMAIN sent : Window(sent[i].cmd.n) = w})
                 + Cardinality({i \in DOMAIN queued : queued[i].tried /\ Window(queued[i].cmd.n) = w})
    <2> DEFINE S == {i \in DOMAIN sent : Window(sent[i].cmd.n) = w}
               Q == {i \in DOMAIN queued : queued[i].tried /\ Window(queued[i].cmd.n) = w}
               f == [i \in S |-> sent[i].cmd.n]
               g == [i \in Q |-> queued[i].cmd.n]
               F == {f[i] : i \in S}
               G == {g[i] : i \in Q}
    <2>1. /\ Len(sent) \in Nat /\ DOMAIN sent = 1 .. Len(sent)
          /\ Len(queued) \in Nat /\ DOMAIN queued = 1 .. Len(queued)
      BY HeldIs
    <2>2. IsFiniteSet(S) /\ IsFiniteSet(Q)
      <3>1. IsFiniteSet(1 .. Len(sent)) /\ IsFiniteSet(1 .. Len(queued))
        BY <2>1, FS_Interval
      <3>2. S \in SUBSET (1 .. Len(sent)) /\ Q \in SUBSET (1 .. Len(queued))
        BY <2>1
      <3> QED
        BY <3>1, <3>2, FS_Subset
    <2>3. /\ \A i, j \in DOMAIN sent : sent[i].cmd.n = sent[j].cmd.n => i = j
          /\ \A i, j \in DOMAIN queued : queued[i].cmd.n = queued[j].cmd.n => i = j
          /\ \A i \in DOMAIN sent, j \in DOMAIN queued : sent[i].cmd.n # queued[j].cmd.n
      BY DEF SInv, Distinct
    <2>4. IsFiniteSet(F) /\ Cardinality(F) = Cardinality(S)
      <3>1. f = [i \in S |-> f[i]] /\ \A i, j \in S : f[i] = f[j] => i = j
        BY <2>3
      <3> HIDE DEF S, f
      <3> QED
        BY <2>2, <3>1, CountOnce
    <2>5. IsFiniteSet(G) /\ Cardinality(G) = Cardinality(Q)
      <3>1. g = [i \in Q |-> g[i]] /\ \A i, j \in Q : g[i] = g[j] => i = j
        BY <2>3
      <3> HIDE DEF Q, g
      <3> QED
        BY <2>2, <3>1, CountOnce
    <2>6. F \cap G = {}
      <3>1. \A i \in S, j \in Q : f[i] # g[j]
        BY <2>3
      <3> HIDE DEF S, Q, f, g
      <3> QED
        BY <3>1
    <2>7. F \cup G = InWindow(h, w)
      <3>1. F \cup G \subseteq InWindow(h, w)
        <4>1. \A i \in S : sent[i].cmd.n \in InWindow(h, w)
          BY DEF InWindow, InUse, Outstanding, Held, SInv, Queue
        <4>2. \A i \in Q : queued[i].cmd.n \in InWindow(h, w)
          <5> SUFFICES ASSUME NEW i \in Q PROVE queued[i].cmd.n \in InWindow(h, w)
            OBVIOUS
          <5>1. ~(i > Len(queued) - (out - h))
            BY DEF SInv, Queue
          <5>2. i <= Len(queued) - (out - h)
            <6>1. i \in Int /\ Len(queued) \in Int /\ out \in Int
              BY <2>1, HeldIs
            <6> QED
              BY <5>1, <6>1
          <5>3. queued[i].cmd.n <= h
            BY <5>2 DEF SInv, Queue
          <5> QED
            BY <5>3 DEF InWindow, InUse, Outstanding, Held
        <4> QED
          BY <4>1, <4>2
      <3>2. ASSUME NEW n \in InWindow(h, w) PROVE n \in F \cup G
        <4>1. n <= h /\ Window(n) = w /\ \E c \in Held : c.n = n
          BY DEF InWindow, InUse, Outstanding
        <4>2. CASE \E i \in DOMAIN sent : sent[i].cmd.n = n
          BY <4>1, <4>2
        <4>3. CASE \E i \in DOMAIN queued : queued[i].cmd.n = n
          <5>1. PICK i \in DOMAIN queued : queued[i].cmd.n = n
            BY <4>3
          <5>2. i <= Len(queued) - (out - h)
            <6> SUFFICES ASSUME ~(i <= Len(queued) - (out - h)) PROVE FALSE
              OBVIOUS
            <6>1. i \in Int /\ Len(queued) \in Int /\ out \in Int
              BY <2>1, HeldIs
            <6>2. i > Len(queued) - (out - h)
              BY <6>1
            <6>3. n = out - Len(queued) + i
              BY <5>1, <6>2 DEF SInv, Queue
            <6> QED
              BY <4>1, <6>1, <6>2, <6>3
          <5>3. queued[i].tried
            BY <5>2 DEF SInv, Queue
          <5>4. i \in Q
            BY <4>1, <5>1, <5>3
          <5> QED
            BY <5>1, <5>4
        <4> QED
          BY <4>1, <4>2, <4>3 DEF Held
      <3> QED
        BY <3>1, <3>2
    <2>8. Cardinality(F \cup G) = Cardinality(F) + Cardinality(G)
      <3> HIDE DEF F, G
      <3>1. Cardinality(F \cup G) = Cardinality(F) + Cardinality(G) - Cardinality(F \cap G)
        BY <2>4, <2>5, FS_Union
      <3>2. Cardinality(F \cap G) = 0
        BY <2>6, FS_EmptySet
      <3>3. Cardinality(F) \in Nat /\ Cardinality(G) \in Nat
        BY <2>4, <2>5, FS_CardinalityType
      <3> QED
        BY <3>1, <3>2, <3>3
    <2>9. windows[w] = Cardinality(InWindow(h, w))
      BY DEF SInv, Counters
    <2> HIDE DEF S, Q, F, G
    <2>10. windows[w] = Cardinality(S) + Cardinality(Q)
      BY <2>4, <2>5, <2>7, <2>8, <2>9
    <2> QED
      BY <2>10 DEF S, Q
  <1> QED
    BY <1>1, <1>2 DEF WindowsExact

\* A window holds no more commands than it has numbers.
LEMMA CountersBounded ==
    ASSUME NEW h \in Nat, SInv(h)
    PROVE  windows \in [0 .. Windows - 1 -> 0 .. WindowSize]
  <1>1. windows \in [0 .. Windows - 1 -> Nat]
    BY DEF SInv, SenderTypes
  <1>2. ASSUME NEW w \in 0 .. Windows - 1 PROVE windows[w] \in 0 .. WindowSize
    <2>1. windows[w] = Cardinality(InWindow(h, w))
      BY DEF SInv, Counters
    <2>2. CASE InWindow(h, w) = {}
      <3>1. Cardinality(InWindow(h, w)) = 0
        BY <2>2, FS_EmptySet
      <3> QED
        BY <2>1, <3>1, Bounds
    <2>3. CASE InWindow(h, w) # {}
      <3>1. PICK m \in InWindow(h, w) : TRUE
        BY <2>3
      <3>2. \A n \in InWindow(h, w) : n \in InUse(h) /\ Window(n) = w
        BY DEF InWindow
      <3>3. m \in Nat /\ W(m) \in Nat /\ W(h) \in Nat
        <4>1. m \in Nat
          BY <3>2, InUseNear
        <4> QED
          BY <4>1, WMonotone
      <3>4. \A n \in InWindow(h, w) : W(n) = W(m)
        <4> SUFFICES ASSUME NEW n \in InWindow(h, w) PROVE W(n) = W(m)
          OBVIOUS
        <4>1. n \in Nat /\ W(h) - W(n) \in 0 .. FreeWindows - 2
              /\ W(h) - W(m) \in 0 .. FreeWindows - 2
          BY <3>1, <3>2, InUseNear
        <4>2. W(n) \in Nat /\ FreeWindows \in Nat /\ Windows = 2 * FreeWindows /\ FreeWindows > 2
          BY <4>1, WMonotone, Bounds
        <4>3. W(n) - W(m) < Windows /\ W(m) - W(n) < Windows
          BY <3>3, <4>1, <4>2
        <4> QED
          BY <3>1, <3>2, <3>3, <4>1, <4>3, SameWindow
      <3>5. InWindow(h, w) \in SUBSET Nat
        BY <3>2, InUseNear
      <3>6. Cardinality(InWindow(h, w)) \in 0 .. WindowSize
        BY <3>3, <3>4, <3>5, WindowHolds
      <3> QED
        BY <2>1, <3>6
    <2> QED
      BY <2>2, <2>3
  <1> QED
    BY <1>1, <1>2

-----------------------------------------------------------------------------
(* The invariant                                                           *)

\* The command n is of its packet, whose numbers have all been given out.
CmdOK(c) == c.start <= c.n /\ c.n < c.start + c.count /\ c.start + c.count - 1 <= out

\* What is in flight, or held, has been sent, and not too long ago; what is
\* acknowledged is at the receiver.
Flight(h) ==
    /\ \A c \in net : c \in Command /\ CmdOK(c) /\ c.n <= h /\ h < c.n + MaxAge
    /\ \A a \in acks : a \in 1 .. MaxCommands /\ a <= h /\ h < a + MaxAge /\ Has(a)
    /\ \A c \in Held : CmdOK(c)

\* The packets of list are ahead of in, in their order, with fragments that
\* have been sent.
Listed(list, h) ==
    /\ list \in Seq(Incoming)
    /\ \A i \in DOMAIN list : in < list[i].start /\ list[i].start + list[i].count - 1 <= out
    /\ \A i \in DOMAIN list : list[i].got # {} /\ \A g \in list[i].got : g < list[i].count /\ list[i].start + g <= h
    /\ \A i, j \in DOMAIN list : i < j => list[i].start < list[j].start

\* The receiver has dispatched what it can, and only whole packets.
Receiver(h) ==
    /\ in \in 0 .. MaxCommands /\ Start <= in /\ in <= h
    /\ Listed(incoming, h)
    /\ incoming # <<>> => ~(Complete(incoming[1]) /\ incoming[1].start = in + 1)
    /\ dispatched \in Seq(Incoming)
    /\ \A i \in DOMAIN dispatched : Complete(dispatched[i]) /\ dispatched[i].got \subseteq 0 .. dispatched[i].count - 1

\* Two packets that are known are the same or apart, and none is passed by half.
Known == Held \cup net \cup ToSet(incoming)
Fits(c, d) ==
    \/ c.start = d.start /\ c.count = d.count
    \/ c.start + c.count <= d.start \/ d.start + d.count <= c.start
Packets ==
    /\ \A c, d \in Known : Fits(c, d)
    /\ \A c \in Known : c.start > in \/ c.start + c.count - 1 <= in

Inv(h) == SInv(h) /\ Flight(h) /\ Receiver(h) /\ Packets /\ AckedIsHeld

IInv == \E h \in 0 .. MaxCommands : Inv(h)

-----------------------------------------------------------------------------
(* What follows from it                                                    *)

\* A packet that is known has its type.
LEMMA KnownIs ==
    ASSUME NEW h \in Nat, Inv(h), NEW c \in Known
    PROVE  /\ c.start \in 1 .. MaxCommands /\ c.count \in 1 .. MaxFragments
           /\ c.start + c.count - 1 <= out
  <1>1. CASE c \in Held
    <2>1. c \in Command /\ CmdOK(c)
      BY <1>1, HeldIs DEF Inv, Flight
    <2> QED
      BY <2>1 DEF Command, CmdOK
  <1>2. CASE c \in net
    BY <1>2 DEF Inv, Flight, Command, CmdOK
  <1>3. CASE c \in ToSet(incoming)
    <2>1. PICK i \in DOMAIN incoming : c = incoming[i]
      BY <1>3 DEF ToSet
    <2>2. incoming \in Seq(Incoming) /\ c.start + c.count - 1 <= out
      BY <2>1 DEF Inv, Receiver, Listed
    <2>3. c \in Incoming
      BY <2>1, <2>2, LenProperties
    <2> QED
      BY <2>2, <2>3 DEF Incoming
  <1> QED
    BY <1>1, <1>2, <1>3 DEF Known

\* The types and bounds the lemmas below need.
LEMMA InIs ==
    ASSUME NEW h \in Nat, Inv(h)
    PROVE  /\ in \in Nat /\ in <= h /\ h <= out /\ out \in Nat /\ out <= MaxCommands
           /\ incoming \in Seq(Incoming) /\ Len(incoming) \in Nat
           /\ DOMAIN incoming = 1 .. Len(incoming)
           /\ \A i \in DOMAIN incoming : incoming[i] \in Incoming /\ incoming[i] \in Known
           /\ \A i \in DOMAIN incoming : /\ incoming[i].start \in Nat /\ incoming[i].count \in Nat
                                         /\ incoming[i].count >= 1 /\ incoming[i].count <= MaxFragments
                                         /\ incoming[i].got \subseteq Nat
                                         /\ in < incoming[i].start /\ incoming[i].start <= h
  <1>1. in \in Nat /\ in <= h /\ incoming \in Seq(Incoming)
    BY Bounds DEF Inv, Receiver, Listed
  <1>2. h <= out /\ out \in Nat /\ out <= MaxCommands
    BY Bounds DEF Inv, SInv, Queue, SenderTypes
  <1>3. Len(incoming) \in Nat /\ DOMAIN incoming = 1 .. Len(incoming)
    BY <1>1, LenProperties
  <1>4. ASSUME NEW i \in DOMAIN incoming
        PROVE  /\ incoming[i] \in Incoming /\ incoming[i] \in Known
               /\ incoming[i].start \in Nat /\ incoming[i].count \in Nat
               /\ incoming[i].count >= 1 /\ incoming[i].count <= MaxFragments
               /\ incoming[i].got \subseteq Nat
               /\ in < incoming[i].start /\ incoming[i].start <= h
    <2>1. incoming[i] \in Incoming
      BY <1>1, <1>3
    <2>2. incoming[i] \in Known
      BY DEF Known, ToSet
    <2>3. /\ incoming[i].start \in Nat /\ incoming[i].count \in Nat
          /\ incoming[i].count >= 1 /\ incoming[i].count <= MaxFragments
          /\ incoming[i].got \subseteq Nat
      BY <2>1, Bounds DEF Incoming
    <2>4. in < incoming[i].start /\ incoming[i].got # {}
          /\ \A g \in incoming[i].got : incoming[i].start + g <= h
      BY DEF Inv, Receiver, Listed
    <2>5. PICK g \in incoming[i].got : incoming[i].start + g <= h
      BY <2>4
    <2>6. incoming[i].start <= h
      BY <2>3, <2>5
    <2> QED
      BY <2>1, <2>2, <2>3, <2>4, <2>6
  <1> QED
    BY <1>1, <1>2, <1>3, <1>4

\* What the sender may have sent is within the windows the receiver takes for
\* new.
LEMMA Reach ==
    ASSUME NEW h \in Nat, Inv(h)
    PROVE  W(h) <= W(in) + FreeWindows - 1 /\ h - in < FreeWindows * WindowSize
  <1>1. /\ in \in Nat /\ in <= h /\ h <= out /\ out \in Nat
        /\ FreeWindows \in Nat /\ FreeWindows > 2 /\ WindowSize \in Nat /\ WindowSize > 1
        /\ MaxFragments <= WindowSize /\ MaxFragments \in Nat
    BY InIs, Bounds
  <1>2. W(h) \in Nat /\ W(in) \in Nat
    BY <1>1, WMonotone
  <1>3. ASSUME NEW m \in Outstanding, m <= h, m <= in + WindowSize
        PROVE  W(h) <= W(in) + FreeWindows - 1
    <2>1. m \in InUse(h)
      BY <1>3 DEF InUse
    <2>2. m \in Nat /\ W(h) <= W(m) + FreeWindows - 2
      BY <2>1, InUseNear DEF Inv, SInv, Flow
    <2>3. W(m) <= W(in) + 1 /\ W(m) \in Nat
      BY <1>1, <1>3, <2>2, WMonotone
    <2> QED
      BY <1>1, <1>2, <2>2, <2>3
  <1>4. W(h) <= W(in) + FreeWindows - 1
    <2>1. CASE in = h
      BY <1>1, <1>2, <2>1
    <2>2. CASE in # h /\ in + 1 \in Outstanding
      BY <1>1, <1>3, <2>2
    <2>3. CASE in # h /\ in + 1 \notin Outstanding
      <3>1. Has(in + 1) /\ in + 1 \in 1 .. out
        <4>1. in + 1 \in 1 .. out
          BY <1>1, <2>3
        <4> QED
          BY <2>3, <4>1 DEF Inv, AckedIsHeld
      <3>2. PICK i \in DOMAIN incoming : in + 1 >= incoming[i].start /\ (in + 1) - incoming[i].start \in incoming[i].got
        <4>1. ~(in + 1 <= in)
          BY <1>1
        <4> QED
          BY <3>1, <4>1 DEF Has
      <3>3. incoming[i].start = in + 1 /\ incoming[i].count \in Nat /\ incoming[i].count <= MaxFragments
            /\ i \in Nat /\ i >= 1 /\ 1 \in DOMAIN incoming /\ incoming[1].start \in Nat
            /\ in < incoming[1].start
        <4>1. i \in 1 .. Len(incoming) /\ Len(incoming) \in Nat /\ 1 \in DOMAIN incoming
          BY InIs
        <4> QED
          BY <1>1, <3>2, <4>1, InIs
      <3>4. i = 1
        <4>1. 1 < i => incoming[1].start < incoming[i].start
          BY <3>3 DEF Inv, Receiver, Listed
        <4> QED
          BY <1>1, <3>3, <4>1
      <3>5. ~Complete(incoming[1])
        <4>1. incoming # <<>>
          BY <3>3
        <4> QED
          BY <3>3, <3>4, <4>1 DEF Inv, Receiver
      <3> DEFINE e == incoming[1]
      <3>6. PICK g \in 0 .. e.count - 1 : g \notin e.got
        <4> SUFFICES ASSUME \A g \in 0 .. e.count - 1 : g \in e.got PROVE FALSE
          OBVIOUS
        <4>1. e.got \subseteq Nat /\ \A g \in e.got : g < e.count
          BY <3>3, InIs DEF Inv, Receiver, Listed
        <4>a. e.count \in Nat /\ \A g \in e.got : g \in 0 .. e.count - 1
          <5> HIDE DEF e
          <5>1. e.count \in Nat
            BY <3>3, <3>4 DEF e
          <5> QED
            BY <4>1, <5>1
        <4>2. e.got = 0 .. e.count - 1
          <5> HIDE DEF e
          <5> QED
            BY <4>a
        <4>3. Cardinality(0 .. e.count - 1) = e.count
          <5>1. e.count - 1 \in Int /\ 0 \in Int
            BY <3>3, <3>4
          <5>2. Cardinality(0 .. e.count - 1) = IF 0 > e.count - 1 THEN 0 ELSE e.count - 1 - 0 + 1
            BY <5>1, FS_Interval, Zenon
          <5>3. e.count \in Nat
            BY <3>3, <3>4
          <5> QED
            BY <5>2, <5>3
        <4> QED
          BY <3>5, <4>2, <4>3 DEF Complete
      <3> DEFINE m == e.start + g
      <3>7. m \in Nat /\ m > in /\ m <= in + WindowSize /\ m <= out /\ m >= 1 /\ g \in Nat
        <4>1. e.start + e.count - 1 <= out
          BY <3>3 DEF Inv, Receiver, Listed
        <4>2. e.start = in + 1 /\ e.count \in Nat /\ e.count <= MaxFragments
          BY <3>3, <3>4
        <4> HIDE DEF e
        <4> QED
          BY <1>1, <3>6, <4>1, <4>2
      <3>8. ~Has(m)
        <4> SUFFICES ASSUME NEW j \in DOMAIN incoming, m >= incoming[j].start,
                            m - incoming[j].start \in incoming[j].got
                     PROVE  FALSE
          BY <1>1, <3>7 DEF Has
        <4>1. Fits(incoming[1], incoming[j])
          BY <3>3, InIs DEF Inv, Packets
        <4>2. /\ incoming[j].start \in Nat /\ incoming[j].count \in Nat
              /\ incoming[1].start \in Nat /\ incoming[1].count \in Nat
              /\ m - incoming[j].start < incoming[j].count
          BY <3>3, InIs DEF Inv, Receiver, Listed
        <4>3. e.start = incoming[j].start
          BY <3>6, <3>7, <4>1, <4>2 DEF Fits
        <4>4. j = 1
          <5>1. j \in Nat /\ j >= 1
            <6>1. DOMAIN incoming = 1 .. Len(incoming)
              BY InIs, Zenon
            <6> HIDE DEF m
            <6> QED
              BY <6>1
          <5>2. 1 < j => incoming[1].start < incoming[j].start
            BY <3>3 DEF Inv, Receiver, Listed
          <5> QED
            BY <4>2, <4>3, <5>1, <5>2
        <4>5. m - e.start = g
          BY <3>7, <4>2
        <4> QED
          BY <3>6, <4>4, <4>5
      <3>9. m \in Outstanding
        BY <3>7, <3>8 DEF Inv, AckedIsHeld
      <3>10. CASE m <= h
        BY <1>3, <3>7, <3>9, <3>10
      <3>11. CASE m > h
        <4>1. h <= in + WindowSize
          BY <1>1, <3>7, <3>11
        <4>2. W(h) <= W(in) + 1
          BY <1>1, <4>1, WMonotone
        <4> QED
          BY <1>1, <1>2, <4>2
      <3> QED
        BY <3>7, <3>10, <3>11
    <2> QED
      BY <2>1, <2>2, <2>3
  <1>5. h - in < FreeWindows * WindowSize
    <2>1. h < WindowSize * W(h) + WindowSize /\ WindowSize * W(in) <= in
      BY <1>1, WMonotone
    <2>2. WindowSize * (W(in) + FreeWindows - 1 - W(h)) >= 0
      BY <1>1, <1>2, <1>4
    <2>3. WindowSize * (W(in) + FreeWindows - 1 - W(h))
            = WindowSize * W(in) + FreeWindows * WindowSize - WindowSize - WindowSize * W(h)
      BY <1>1, <1>2
    <2>4. WindowSize * W(in) \in Int /\ WindowSize * W(h) \in Int /\ FreeWindows * WindowSize \in Int
      BY <1>1, <1>2
    <2> QED
      BY <1>1, <2>1, <2>2, <2>3, <2>4
  <1> QED
    BY <1>4, <1>5

-----------------------------------------------------------------------------
(* The receiver's tests tell numbers apart                                 *)

\* What a command in flight is, and how far from in.
LEMMA NetIs ==
    ASSUME NEW h \in Nat, Inv(h), NEW c \in net
    PROVE  /\ c \in Known /\ c \in Command
           /\ c.n \in Nat /\ c.start \in Nat /\ c.count \in Nat /\ c.start >= 1
           /\ c.count >= 1 /\ c.count <= MaxFragments /\ c.n \in 1 .. MaxCommands
           /\ c.start <= c.n /\ c.n <= c.start + c.count - 1 /\ c.n <= h /\ h < c.n + MaxAge
           /\ c.start + c.count - 1 <= out
           /\ c.start > in \/ c.start + c.count - 1 <= in
           /\ in - c.start < FreeWindows * WindowSize + WindowSize
           /\ c.start - in < Modulus /\ in - c.start < Modulus
  <1>1. c \in Known /\ c \in Command /\ CmdOK(c) /\ c.n <= h /\ h < c.n + MaxAge
    BY DEF Known, Inv, Flight
  <1>2. /\ c.n \in Nat /\ c.start \in Nat /\ c.count \in Nat /\ c.start >= 1
        /\ c.count >= 1 /\ c.count <= MaxFragments /\ c.n \in 1 .. MaxCommands
    BY <1>1, Bounds DEF Command
  <1>3. c.start <= c.n /\ c.n < c.start + c.count /\ c.start + c.count - 1 <= out
    BY <1>1 DEF CmdOK
  <1>4. c.start > in \/ c.start + c.count - 1 <= in
    BY <1>1 DEF Inv, Packets
  <1>5. /\ in \in Nat /\ in <= h /\ MaxAge \in Nat /\ MaxFragments \in Nat /\ MaxFragments <= WindowSize
        /\ MaxAge <= FreeWindows * WindowSize /\ WindowSize \in Nat /\ FreeWindows \in Nat
        /\ FreeWindows > 2 /\ WindowSize > 1
    BY InIs, Bounds
  <1>6. FreeWindows * WindowSize \in Nat
    BY <1>5
  <1>7. FreeWindows * WindowSize + WindowSize <= Modulus /\ FreeWindows * WindowSize < Modulus
        /\ Modulus \in Nat
    <2>1. Modulus = 2 * (FreeWindows * WindowSize) /\ FreeWindows * WindowSize >= WindowSize
      <3>1. Windows = 2 * FreeWindows /\ Modulus = Windows * WindowSize
        BY Bounds DEF Modulus
      <3>2. WindowSize * FreeWindows >= WindowSize
        BY <1>5, Times
      <3>3. WindowSize * FreeWindows = FreeWindows * WindowSize
            /\ Modulus = 2 * (FreeWindows * WindowSize)
        BY <1>5, <3>1
      <3> QED
        BY <3>2, <3>3
    <2> QED
      BY <1>5, <1>6, <2>1, AgeIsLess, Bounds
  <1> DEFINE fw == FreeWindows * WindowSize
  <1>a. h - in < fw
    BY Reach
  <1> HIDE DEF fw
  <1>b. fw \in Nat /\ MaxAge <= fw /\ fw + WindowSize <= Modulus /\ fw < Modulus
    BY <1>5, <1>6, <1>7 DEF fw
  <1>8. in - c.start < fw + WindowSize
    BY <1>1, <1>2, <1>3, <1>5, <1>b
  <1>9. c.start - in < Modulus /\ in - c.start < Modulus
    BY <1>1, <1>2, <1>3, <1>5, <1>7, <1>8, <1>a, <1>b
  <1>10. c.n <= c.start + c.count - 1
    BY <1>2, <1>3
  <1> QED
    BY <1>1, <1>2, <1>3, <1>4, <1>8, <1>9, <1>10 DEF fw

\* A command is taken for one in reach when it is, and for one that is here
\* when it is.
LEMMA ReachIs ==
    ASSUME NEW h \in Nat, Inv(h), NEW c \in net
    PROVE  /\ SeqNo(c.start) = SeqNo(in) => c.start = in
           /\ c.start <= in /\ InReach(c.start) => c.start = in /\ c.count = 1
           /\ c.start > in /\ ~InReach(c.start) => Ahead(in, c.n) = FreeWindows - 1
           /\ c.start > in => \A i \in DOMAIN incoming :
                 SeqNo(incoming[i].start) = SeqNo(c.start) <=> incoming[i].start = c.start
  <1>1. /\ c.n \in Nat /\ c.start \in Nat /\ c.count \in Nat /\ c.start >= 1
        /\ c.start <= c.n /\ c.n <= h /\ c.count >= 1
        /\ c.start > in \/ c.start + c.count - 1 <= in
        /\ c.start - in < Modulus /\ in - c.start < Modulus
    BY NetIs
  <1>2. /\ in \in Nat /\ h \in Nat /\ FreeWindows \in Nat /\ FreeWindows > 2 /\ Windows = 2 * FreeWindows
        /\ WindowSize \in Nat /\ WindowSize > 1 /\ Modulus \in Nat
    BY InIs, Bounds
  <1>3. /\ W(in) \in Nat /\ W(h) \in Nat /\ W(c.start) \in Nat /\ W(c.n) \in Nat
        /\ W(c.start) <= W(c.n) /\ W(c.n) <= W(h)
        /\ in <= c.start => W(in) <= W(c.start)
        /\ c.start <= in => W(c.start) <= W(in)
    BY <1>1, <1>2, WMonotone
  <1>4. W(h) <= W(in) + FreeWindows - 1
    BY Reach
  <1>5. SeqNo(c.start) = SeqNo(in) => c.start = in
    BY <1>1, <1>2, NearSame
  <1>6. ASSUME c.start < in PROVE ~InReach(c.start)
    <2>1. W(in) - W(c.start) <= FreeWindows + 1
      <3> SUFFICES ASSUME W(in) - W(c.start) > FreeWindows + 1 PROVE FALSE
        BY <1>2, <1>3
      <3>1. WindowSize * (W(in) - W(c.start) - (FreeWindows + 1)) >= WindowSize
        BY <1>2, <1>3, Times
      <3>2. WindowSize * (W(in) - W(c.start) - (FreeWindows + 1))
              = WindowSize * W(in) - WindowSize * W(c.start) - (FreeWindows * WindowSize + WindowSize)
        BY <1>2, <1>3
      <3>3. WindowSize * W(in) <= in /\ c.start < WindowSize * W(c.start) + WindowSize
        BY <1>1, <1>2, WMonotone
      <3>4. in - c.start < FreeWindows * WindowSize + WindowSize
        BY NetIs
      <3>5. WindowSize * W(in) \in Int /\ WindowSize * W(c.start) \in Int /\ FreeWindows * WindowSize \in Int
        BY <1>2, <1>3
      <3> QED
        BY <1>1, <1>2, <3>1, <3>2, <3>3, <3>4, <3>5
    <2>2. Ahead(in, c.start) = Windows - (W(in) - W(c.start))
      <3>1. W(in) - W(c.start) < Windows
        BY <1>2, <1>3, <2>1
      <3> QED
        BY <1>1, <1>2, <1>6, <3>1, AheadIs
    <2> QED
      BY <1>2, <1>3, <2>1, <2>2 DEF InReach
  <1>7. c.start <= in /\ InReach(c.start) => c.start = in /\ c.count = 1
    BY <1>1, <1>2, <1>6
  <1>8. ASSUME c.start > in, ~InReach(c.start) PROVE Ahead(in, c.n) = FreeWindows - 1
    <2>1. Ahead(in, c.start) = W(c.start) - W(in)
      <3>1. W(c.start) - W(in) < Windows
        BY <1>2, <1>3, <1>4
      <3> QED
        BY <1>1, <1>2, <1>8, <3>1, AheadIs
    <2>2. W(c.n) - W(in) = FreeWindows - 1
      BY <1>2, <1>3, <1>4, <1>8, <2>1 DEF InReach
    <2>3. W(c.n) - W(in) < Windows /\ in <= c.n
      BY <1>1, <1>2, <1>8, <2>2
    <2>4. Ahead(in, c.n) = W(c.n) - W(in)
      BY <1>1, <1>2, <2>3, AheadIs
    <2> QED
      BY <2>2, <2>4
  <1>9. ASSUME c.start > in, NEW i \in DOMAIN incoming
        PROVE  SeqNo(incoming[i].start) = SeqNo(c.start) <=> incoming[i].start = c.start
    <2>1. incoming[i].start \in Nat /\ in < incoming[i].start /\ incoming[i].start <= h
      BY InIs
    <2>2. h - in < Modulus
      <3>1. FreeWindows * WindowSize \in Nat
        BY <1>2
      <3> QED
        BY <1>2, <3>1, Reach, AgeIsLess
    <2>3. incoming[i].start - c.start < Modulus /\ c.start - incoming[i].start < Modulus
      BY <1>1, <1>2, <1>9, <2>1, <2>2
    <2> QED
      BY <1>1, <2>1, <2>3, NearSame
  <1> QED
    BY <1>5, <1>7, <1>8, <1>9

\* The distance of what waits, and of a new command, is the real one.
LEMMA NewDistance ==
    ASSUME NEW h \in Nat, Inv(h), NEW n \in Nat, in < n, n <= h
    PROVE  Distance(n) = n - in
  <1>1. in \in Nat /\ FreeWindows \in Nat /\ WindowSize \in Nat
    BY InIs, Bounds
  <1>2. FreeWindows * WindowSize \in Int /\ Modulus \in Int
    BY <1>1, Bounds
  <1>3. in <= n /\ n - in < Modulus
    BY <1>1, <1>2, Reach, AgeIsLess
  <1> QED
    BY <1>1, <1>3, DistanceIs

-----------------------------------------------------------------------------
(* The receiver's lists                                                    *)

\* The two parts of a sequence.
LEMMA TwoParts ==
    ASSUME NEW S, NEW s \in Seq(S), NEW k \in 0 .. Len(s)
    PROVE  /\ SubSeq(s, 1, k) \in Seq(S) /\ DOMAIN SubSeq(s, 1, k) = 1 .. k
           /\ Len(SubSeq(s, 1, k)) = k
           /\ \A i \in 1 .. k : SubSeq(s, 1, k)[i] = s[i]
           /\ SubSeq(s, k + 1, Len(s)) \in Seq(S)
           /\ DOMAIN SubSeq(s, k + 1, Len(s)) = 1 .. (Len(s) - k)
           /\ Len(SubSeq(s, k + 1, Len(s))) = Len(s) - k
           /\ \A i \in 1 .. (Len(s) - k) : SubSeq(s, k + 1, Len(s))[i] = s[i + k] /\ i + k \in DOMAIN s
  <1> DEFINE a == SubSeq(s, 1, k)
             b == SubSeq(s, k + 1, Len(s))
  <1>1. Len(s) \in Nat /\ k \in Nat /\ k <= Len(s) /\ DOMAIN s = 1 .. Len(s)
    BY LenProperties
  <1>2. a \in Seq(S) /\ Len(a) = k /\ \A i \in 1 .. k : a[i] = s[i]
    <2>1. 1 \in Int /\ k \in Int /\ \A i \in 1 .. k : s[i] \in S
      BY <1>1
    <2>2. /\ a \in Seq(S) /\ Len(a) = IF 1 <= k THEN k - 1 + 1 ELSE 0
          /\ \A i \in 1 .. k - 1 + 1 : a[i] = s[1 + i - 1]
      BY <2>1, SubSeqProperties
    <2> HIDE DEF a
    <2> QED
      BY <1>1, <2>2
  <1>3. b \in Seq(S) /\ Len(b) = Len(s) - k /\ \A i \in 1 .. Len(s) - k : b[i] = s[i + k]
    <2>1. k + 1 \in Int /\ Len(s) \in Int /\ \A i \in k + 1 .. Len(s) : s[i] \in S
      BY <1>1
    <2>2. /\ b \in Seq(S) /\ Len(b) = IF k + 1 <= Len(s) THEN Len(s) - (k + 1) + 1 ELSE 0
          /\ \A i \in 1 .. Len(s) - (k + 1) + 1 : b[i] = s[(k + 1) + i - 1]
      BY <2>1, SubSeqProperties
    <2> HIDE DEF b
    <2>a. k \in Nat /\ Len(s) \in Nat /\ k <= Len(s)
      BY <1>1
    <2>3. Len(b) = Len(s) - k
      BY <2>2, <2>a
    <2>4. ASSUME NEW i \in 1 .. Len(s) - k PROVE b[i] = s[i + k]
      <3>1. i \in 1 .. Len(s) - (k + 1) + 1 /\ (k + 1) + i - 1 = i + k
        BY <1>1
      <3> QED
        BY <2>2, <3>1
    <2> QED
      BY <2>2, <2>3, <2>4
  <1>4. DOMAIN a = 1 .. k /\ DOMAIN b = 1 .. (Len(s) - k)
    BY <1>2, <1>3, LenProperties
  <1>5. \A i \in 1 .. (Len(s) - k) : i + k \in DOMAIN s
    BY <1>1
  <1> HIDE DEF a, b
  <1>6. b \in Seq(S) /\ DOMAIN b = 1 .. (Len(s) - k) /\ Len(b) = Len(s) - k
        /\ \A i \in 1 .. (Len(s) - k) : b[i] = s[i + k] /\ i + k \in DOMAIN s
    BY <1>3, <1>4, <1>5
  <1> QED
    BY <1>2, <1>4, <1>6 DEF a, b
\* InsertAt puts the element where it says.
LEMMA InsertedAt ==
    ASSUME NEW S, NEW s \in Seq(S), NEW k \in 0 .. Len(s), NEW e \in S
    PROVE  LET r == InsertAt(s, k + 1, e) IN
           /\ r \in Seq(S) /\ Len(r) = Len(s) + 1 /\ Len(s) \in Nat
           /\ \A i \in 1 .. k : r[i] = s[i]
           /\ r[k + 1] = e
           /\ \A i \in k + 1 .. Len(s) : r[i + 1] = s[i]
  <1> DEFINE a == SubSeq(s, 1, k)
             b == SubSeq(s, k + 1, Len(s))
             m == a \o <<e>>
             r == m \o b
  <1>1. Len(s) \in Nat /\ k \in Nat /\ k <= Len(s)
    BY LenProperties
  <1>2. a \in Seq(S) /\ Len(a) = k /\ \A i \in 1 .. k : a[i] = s[i]
    BY TwoParts
  <1>3. b \in Seq(S) /\ Len(b) = Len(s) - k /\ \A i \in 1 .. (Len(s) - k) : b[i] = s[i + k]
    BY TwoParts
  <1>4. <<e>> \in Seq(S) /\ Len(<<e>>) = 1 /\ <<e>>[1] = e
    OBVIOUS
  <1>5. r = InsertAt(s, k + 1, e)
    <2>1. (k + 1) - 1 = k
      BY <1>1
    <2> QED
      BY <2>1 DEF InsertAt
  <1> HIDE DEF a, b
  <1>6. /\ m \in Seq(S) /\ Len(m) = k + 1
        /\ \A i \in 1 .. k : m[i] = a[i]
        /\ m[k + 1] = e
    <2> DEFINE one == <<e>>
    <2>1. one \in Seq(S) /\ a \in Seq(S) /\ Len(one) = 1 /\ one[1] = e
      BY <1>2, <1>4
    <2> HIDE DEF one
    <2>2. /\ a \o one \in Seq(S) /\ Len(a \o one) = Len(a) + Len(one)
          /\ \A i \in 1 .. Len(a) : (a \o one)[i] = a[i]
          /\ \A i \in 1 .. Len(one) : (a \o one)[Len(a) + i] = one[i]
      <3>1. a \in Seq(S) /\ one \in Seq(S)
        BY <2>1
      <3> QED
        BY <3>1, Joined
    <2>3. m = a \o one
      BY DEF one
    <2> HIDE DEF m
    <2> QED
      BY <1>2, <2>1, <2>2, <2>3
  <1> HIDE DEF m
  <1>7. /\ r \in Seq(S) /\ Len(r) = Len(m) + Len(b)
        /\ \A i \in 1 .. Len(m) : r[i] = m[i]
        /\ \A i \in 1 .. Len(b) : r[Len(m) + i] = b[i]
    <2>1. m \in Seq(S) /\ b \in Seq(S)
      BY <1>3, <1>6
    <2> QED
      BY <2>1, Joined
  <1> HIDE DEF r
  <1>8. Len(r) = Len(s) + 1
    BY <1>1, <1>3, <1>6, <1>7
  <1>9. ASSUME NEW i \in 1 .. k PROVE r[i] = s[i]
    <2>1. i \in 1 .. Len(m)
      BY <1>1, <1>6
    <2> QED
      BY <1>2, <1>6, <1>7, <2>1
  <1>10. r[k + 1] = e
    <2>1. k + 1 \in 1 .. Len(m)
      BY <1>1, <1>6
    <2> QED
      BY <1>6, <1>7, <2>1
  <1>11. ASSUME NEW i \in k + 1 .. Len(s) PROVE r[i + 1] = s[i]
    <2>1. i - k \in 1 .. Len(b) /\ Len(m) + (i - k) = i + 1 /\ (i - k) + k = i /\ i - k \in 1 .. (Len(s) - k)
      BY <1>1, <1>3, <1>6
    <2>2. r[Len(m) + (i - k)] = b[i - k] /\ b[i - k] = s[(i - k) + k]
      BY <1>3, <1>7, <2>1
    <2> QED
      BY <2>1, <2>2
  <1> QED
    BY <1>1, <1>5, <1>7, <1>8, <1>9, <1>10, <1>11

\* A new packet is put before the first that comes after it.
LEMMA InsertedIs ==
    ASSUME NEW h \in Nat, Inv(h), NEW e \in Incoming, in < e.start, e.start <= h,
           \A i \in DOMAIN incoming : incoming[i].start # e.start
    PROVE  /\ Inserted(e) \in Seq(Incoming)
           /\ \A i \in DOMAIN Inserted(e) : Inserted(e)[i] = e \/ Inserted(e)[i] \in ToSet(incoming)
           /\ \E i \in DOMAIN Inserted(e) : Inserted(e)[i] = e
           /\ \A j \in DOMAIN incoming : \E i \in DOMAIN Inserted(e) : Inserted(e)[i] = incoming[j]
           /\ \A i, j \in DOMAIN Inserted(e) : i < j => Inserted(e)[i].start < Inserted(e)[j].start
  <1> DEFINE len == Len(incoming)
  <1>1. /\ in \in Nat /\ incoming \in Seq(Incoming) /\ len \in Nat /\ DOMAIN incoming = 1 .. len
        /\ \A i \in DOMAIN incoming : /\ incoming[i].start \in Nat
                                      /\ in < incoming[i].start /\ incoming[i].start <= h
    BY InIs
  <1>2. \A i, j \in DOMAIN incoming : i < j => incoming[i].start < incoming[j].start
    BY DEF Inv, Receiver, Listed
  <1>3. e.start \in Nat
    BY DEF Incoming
  <1>4. /\ Distance(e.start) = e.start - in
        /\ \A i \in DOMAIN incoming : Distance(incoming[i].start) = incoming[i].start - in
    BY <1>1, <1>3, NewDistance
  <1> DEFINE P(k) == /\ \A i \in 1 .. k : Distance(incoming[i].start) < Distance(e.start)
                     /\ \A i \in k + 1 .. len : Distance(incoming[i].start) > Distance(e.start)
             k == CHOOSE k \in 0 .. len : P(k)
  <1> HIDE DEF len
  <1>5. \E x \in 0 .. len : P(x)
    <2> DEFINE S == {x \in 0 .. len : \A i \in x + 1 .. len : incoming[i].start > e.start}
    <2>1. len \in S
      <3>1. \A i \in len + 1 .. len : FALSE
        BY <1>1
      <3> QED
        BY <1>1, <3>1
    <2>2. PICK x \in S : \A y \in S : x <= y
      <3>1. S \in SUBSET Nat /\ S # {}
        BY <1>1, <2>1
      <3> HIDE DEF S
      <3> QED
        BY <3>1, NatMin
    <2>3. x \in 0 .. len /\ \A i \in x + 1 .. len : incoming[i].start > e.start
      OBVIOUS
    <2>4. ASSUME NEW i \in 1 .. x PROVE incoming[i].start < e.start
      <3>1. x - 1 \in 0 .. len /\ x - 1 \notin S /\ x \in 1 .. len /\ i \in 1 .. len /\ i <= x
        <4>1. x - 1 \in 0 .. len /\ ~(x <= x - 1) /\ x \in 1 .. len /\ i \in 1 .. len /\ i <= x
          BY <1>1, <2>3
        <4> QED
          BY <2>2, <4>1
      <3>2. PICK j \in (x - 1) + 1 .. len : ~(incoming[j].start > e.start)
        BY <3>1
      <3>3. j = x
        <4>1. j \in Int /\ x \in Int /\ j >= x /\ j <= len
          BY <1>1, <3>1, <3>2
        <4>2. ~(j \in x + 1 .. len)
          BY <2>3, <3>2
        <4> QED
          BY <1>1, <4>1, <4>2
      <3>4. incoming[x].start < e.start
        BY <1>1, <1>3, <3>1, <3>2, <3>3
      <3>5. i = x \/ incoming[i].start < incoming[x].start
        BY <1>1, <1>2, <3>1
      <3>6. incoming[i].start \in Nat /\ incoming[x].start \in Nat
        BY <1>1, <3>1
      <3>7. CASE i = x
        BY <3>4, <3>7
      <3>8. CASE incoming[i].start < incoming[x].start
        <4> DEFINE a == incoming[i].start
                   b == incoming[x].start
        <4>1. a \in Nat /\ b \in Nat /\ a < b /\ b < e.start
          BY <3>4, <3>6, <3>8
        <4> HIDE DEF a, b
        <4>2. a < e.start
          BY <1>3, <4>1
        <4> QED
          BY <4>2 DEF a
      <3> QED
        BY <3>5, <3>7, <3>8
    <2> HIDE DEF S
    <2>5. P(x)
      <3>1. \A i \in 1 .. x : i \in DOMAIN incoming
        BY <1>1, <2>3
      <3>2. \A i \in x + 1 .. len : i \in DOMAIN incoming
        BY <1>1, <2>3
      <3>3. \A i \in 1 .. x : Distance(incoming[i].start) < Distance(e.start)
        BY <1>1, <1>3, <1>4, <2>4, <3>1
      <3>4. \A i \in x + 1 .. len : Distance(incoming[i].start) > Distance(e.start)
        <4> SUFFICES ASSUME NEW i \in x + 1 .. len
                     PROVE  Distance(incoming[i].start) > Distance(e.start)
          OBVIOUS
        <4> DEFINE v == incoming[i].start
        <4>1. i \in DOMAIN incoming /\ v > e.start
          BY <2>3, <3>2
        <4>2. v \in Nat /\ Distance(v) = v - in
          BY <1>1, <1>4, <4>1
        <4> HIDE DEF v
        <4>3. Distance(v) > Distance(e.start)
          BY <1>1, <1>3, <1>4, <4>1, <4>2
        <4> QED
          BY <4>3 DEF v
      <3> QED
        BY <3>3, <3>4
    <2> HIDE DEF P
    <2> QED
      BY <2>3, <2>5
  <1>6. k \in 0 .. len /\ P(k)
    <2> HIDE DEF P
    <2> QED
      BY <1>5
  <1>7. /\ \A i \in 1 .. k : incoming[i].start < e.start
        /\ \A i \in k + 1 .. len : incoming[i].start > e.start
    <2>1. \A i \in 1 .. k : i \in DOMAIN incoming
      BY <1>1, <1>6
    <2>2. \A i \in k + 1 .. len : i \in DOMAIN incoming
      BY <1>1, <1>6
    <2> HIDE DEF k
    <2>3. \A i \in 1 .. k : incoming[i].start < e.start
      <3> SUFFICES ASSUME NEW i \in 1 .. k PROVE incoming[i].start < e.start
        OBVIOUS
      <3> DEFINE v == incoming[i].start
      <3>1. i \in DOMAIN incoming /\ Distance(v) < Distance(e.start)
        BY <1>6, <2>1
      <3>2. v \in Nat /\ Distance(v) = v - in
        BY <1>1, <1>4, <3>1
      <3> HIDE DEF v
      <3>3. v < e.start
        BY <1>1, <1>3, <1>4, <3>1, <3>2
      <3> QED
        BY <3>3 DEF v
    <2>4. \A i \in k + 1 .. len : incoming[i].start > e.start
      <3> SUFFICES ASSUME NEW i \in k + 1 .. len PROVE incoming[i].start > e.start
        OBVIOUS
      <3> DEFINE v == incoming[i].start
      <3>1. i \in DOMAIN incoming /\ Distance(v) > Distance(e.start)
        BY <1>6, <2>2
      <3>2. v \in Nat /\ Distance(v) = v - in
        BY <1>1, <1>4, <3>1
      <3> HIDE DEF v
      <3>3. v > e.start
        BY <1>1, <1>3, <1>4, <3>1, <3>2
      <3> QED
        BY <3>3 DEF v
    <2> QED
      BY <2>3, <2>4
  <1>8. Inserted(e) = InsertAt(incoming, k + 1, e)
    BY DEF Inserted, len
  <1> HIDE DEF k
  <1> DEFINE r == Inserted(e)
  <1>9. /\ r \in Seq(Incoming) /\ Len(r) = len + 1
        /\ \A i \in 1 .. k : r[i] = incoming[i]
        /\ r[k + 1] = e
        /\ \A i \in k + 1 .. len : r[i + 1] = incoming[i]
    <2>1. k \in 0 .. Len(incoming)
      BY <1>6 DEF len
    <2>a. incoming \in Seq(Incoming) /\ e \in Incoming
      BY <1>1
    <2> DEFINE q == InsertAt(incoming, k + 1, e)
    <2>2. /\ q \in Seq(Incoming) /\ Len(q) = Len(incoming) + 1 /\ Len(incoming) \in Nat
          /\ \A i \in 1 .. k : q[i] = incoming[i]
          /\ q[k + 1] = e
          /\ \A i \in k + 1 .. Len(incoming) : q[i + 1] = incoming[i]
      <3>1. incoming \in Seq(Incoming)
        BY <2>a
      <3>2. PICK x \in 0 .. Len(incoming) : x = k
        BY <2>1
      <3> HIDE DEF P
      <3>3. /\ InsertAt(incoming, x + 1, e) \in Seq(Incoming)
            /\ Len(InsertAt(incoming, x + 1, e)) = Len(incoming) + 1
        BY <3>1, InsertedAt
      <3>4. /\ \A i \in 1 .. x : InsertAt(incoming, x + 1, e)[i] = incoming[i]
        BY <3>1, InsertedAt
      <3>5. /\ InsertAt(incoming, x + 1, e)[x + 1] = e
        BY <3>1, InsertedAt
      <3>6. /\ \A i \in x + 1 .. Len(incoming) : InsertAt(incoming, x + 1, e)[i + 1] = incoming[i]
        BY <3>1, InsertedAt
      <3> QED
        BY <2>a, <3>1, <3>2, <3>3, <3>4, <3>5, <3>6
    <2> HIDE DEF q
    <2>3. r = q
      BY <1>8 DEF q
    <2> QED
      BY <2>2, <2>3 DEF len
  <1> HIDE DEF r
  <1>10. DOMAIN r = 1 .. (len + 1)
    BY <1>9, LenProperties
  <1>11. \A i \in DOMAIN r : \/ i \in 1 .. k /\ r[i] = incoming[i] /\ i \in DOMAIN incoming
                             \/ i = k + 1 /\ r[i] = e
                             \/ i - 1 \in k + 1 .. len /\ r[i] = incoming[i - 1] /\ i - 1 \in DOMAIN incoming
    <2> SUFFICES ASSUME NEW i \in DOMAIN r
                 PROVE  \/ i \in 1 .. k /\ r[i] = incoming[i] /\ i \in DOMAIN incoming
                        \/ i = k + 1 /\ r[i] = e
                        \/ i - 1 \in k + 1 .. len /\ r[i] = incoming[i - 1] /\ i - 1 \in DOMAIN incoming
      OBVIOUS
    <2>1. \/ i \in 1 .. k /\ i \in DOMAIN incoming
          \/ i = k + 1
          \/ i - 1 \in k + 1 .. len /\ i - 1 \in DOMAIN incoming /\ (i - 1) + 1 = i
      BY <1>1, <1>6, <1>10
    <2> QED
      BY <1>9, <2>1
  <1>12. \A j \in DOMAIN incoming : \E i \in DOMAIN r : r[i] = incoming[j]
    <2> SUFFICES ASSUME NEW j \in DOMAIN incoming PROVE \E i \in DOMAIN r : r[i] = incoming[j]
      OBVIOUS
    <2>1. CASE j <= k
      <3>1. j \in 1 .. k /\ j \in DOMAIN r
        BY <1>1, <1>6, <1>10, <2>1
      <3> QED
        BY <1>9, <3>1
    <2>2. CASE j > k
      <3>1. j \in k + 1 .. len /\ j + 1 \in DOMAIN r
        BY <1>1, <1>6, <1>10, <2>2
      <3> QED
        BY <1>9, <3>1
    <2> QED
      BY <1>1, <1>6, <2>1, <2>2
  <1>13. \E i \in DOMAIN r : r[i] = e
    <2>1. k + 1 \in DOMAIN r
      BY <1>1, <1>6, <1>10
    <2> QED
      BY <1>9, <2>1
  <1>14. \A i \in DOMAIN r : r[i] = e \/ r[i] \in ToSet(incoming)
    BY <1>11 DEF ToSet
  <1>15. ASSUME NEW i \in DOMAIN r, NEW j \in DOMAIN r, i < j PROVE r[i].start < r[j].start
    <2>0. i \in Int /\ j \in Int /\ k \in Int
      BY <1>6, <1>10
    <2>1. CASE i \in 1 .. k /\ r[i] = incoming[i] /\ i \in DOMAIN incoming
      <3>1. CASE j \in 1 .. k /\ r[j] = incoming[j] /\ j \in DOMAIN incoming
        BY <1>2, <1>15, <2>1, <3>1
      <3>2. CASE j = k + 1 /\ r[j] = e
        BY <1>7, <2>1, <3>2
      <3>3. CASE j - 1 \in k + 1 .. len /\ r[j] = incoming[j - 1] /\ j - 1 \in DOMAIN incoming
        <4>1. i < j - 1
          BY <2>0, <2>1, <3>3
        <4> QED
          BY <1>2, <2>1, <3>3, <4>1
      <3> QED
        BY <1>11, <3>1, <3>2, <3>3
    <2>2. CASE i = k + 1 /\ r[i] = e
      <3>1. j - 1 \in k + 1 .. len /\ r[j] = incoming[j - 1]
        <4>1. ~(j \in 1 .. k) /\ j # k + 1
          BY <1>15, <2>0, <2>2
        <4> QED
          BY <1>11, <4>1
      <3> QED
        BY <1>7, <2>2, <3>1
    <2>3. CASE i - 1 \in k + 1 .. len /\ r[i] = incoming[i - 1] /\ i - 1 \in DOMAIN incoming
      <3>1. j - 1 \in k + 1 .. len /\ r[j] = incoming[j - 1] /\ j - 1 \in DOMAIN incoming
        <4>1. ~(j \in 1 .. k) /\ j # k + 1
          BY <1>15, <2>0, <2>3
        <4> QED
          BY <1>11, <4>1
      <3>2. i - 1 < j - 1
        BY <1>15, <2>0
      <3> QED
        BY <1>2, <2>3, <3>1, <3>2
    <2> QED
      BY <1>11, <2>1, <2>2, <2>3
  <1> QED
    BY <1>9, <1>12, <1>13, <1>14, <1>15 DEF r

\* A packet is complete when all its fragments are there.
LEMMA CompleteIs ==
    ASSUME NEW e \in Incoming, e.got \subseteq 0 .. e.count - 1
    PROVE  Complete(e) <=> e.got = 0 .. e.count - 1
  <1>1. e.count \in Nat
    BY Bounds DEF Incoming
  <1>2. IsFiniteSet(0 .. e.count - 1) /\ Cardinality(0 .. e.count - 1) = e.count
    <2>1. 0 \in Int /\ e.count - 1 \in Int
      BY <1>1
    <2>2. IsFiniteSet(0 .. e.count - 1)
          /\ Cardinality(0 .. e.count - 1) = IF 0 > e.count - 1 THEN 0 ELSE e.count - 1 - 0 + 1
      BY <2>1, FS_Interval, Zenon
    <2> QED
      BY <1>1, <2>2
  <1>3. e.got \in SUBSET (0 .. e.count - 1)
    OBVIOUS
  <1>4. Cardinality(0 .. e.count - 1) = Cardinality(e.got) => 0 .. e.count - 1 = e.got
    BY <1>2, <1>3, FS_Subset
  <1> QED
    BY <1>2, <1>4 DEF Complete

\* The number up to which k packets of list reach, behind m.
End(m, list, k) == IF k = 0 THEN m ELSE list[k].start + list[k].count - 1

\* What dispatching takes from the list.
LEMMA DispatchTakes ==
    ASSUME NEW list, list \in Seq(Incoming), dispatch_incoming_reliable_commands(list)
    PROVE  \E k \in 0 .. Len(list) :
              /\ in' = End(in, list, k)
              /\ incoming' = SubSeq(list, k + 1, Len(list))
              /\ dispatched' = dispatched \o SubSeq(list, 1, k)
              /\ \A j \in 1 .. k : /\ Complete(list[j])
                                   /\ SeqNo(list[j].start) = SeqNo(End(in, list, j - 1) + 1)
              /\ k < Len(list) => ~(/\ Complete(list[k + 1])
                                    /\ SeqNo(list[k + 1].start) = SeqNo(in' + 1))
  <1> DEFINE next(k) == Complete(list[k]) /\ SeqNo(list[k].start) = SeqNo(End(in, list, k - 1) + 1)
             len == Len(list)
             P(k) == /\ \A j \in 1 .. k : next(j)
                     /\ k < len => ~next(k + 1)
             k == CHOOSE k \in 0 .. len : P(k)
  <1>1. /\ in' = End(in, list, k)
        /\ incoming' = SubSeq(list, k + 1, Len(list))
        /\ dispatched' = dispatched \o SubSeq(list, 1, k)
    BY Zenon DEF dispatch_incoming_reliable_commands, End
  <1>2. len \in Nat
    BY LenProperties
  <1> HIDE DEF len, next
  <1>3. \E x \in 0 .. len : P(x)
    <2> DEFINE S == {x \in 0 .. len : x < len => ~next(x + 1)}
    <2>1. len \in S
      BY <1>2
    <2>2. PICK x \in S : \A y \in S : x <= y
      <3>0. S \subseteq 0 .. len
        OBVIOUS
      <3> HIDE DEF S
      <3>1. S \in SUBSET Nat /\ S # {}
        BY <1>2, <2>1, <3>0
      <3> QED
        BY <3>1, NatMin
    <2>3. x \in 0 .. len /\ (x < len => ~next(x + 1))
      OBVIOUS
    <2>4. ASSUME NEW j \in 1 .. x PROVE next(j)
      <3>1. j - 1 \in 0 .. len /\ ~(x <= j - 1) /\ j - 1 < len /\ (j - 1) + 1 = j
        BY <1>2, <2>3
      <3>2. j - 1 \notin S
        BY <2>2, <3>1
      <3> QED
        BY <3>1, <3>2
    <2> HIDE DEF S
    <2> QED
      BY <2>3, <2>4
  <1>4. k \in 0 .. len /\ P(k)
    <2> HIDE DEF P
    <2> QED
      BY <1>3
  <1> HIDE DEF k
  <1>5. k < len => (k + 1) - 1 = k
    BY <1>2, <1>4
  <1>6. k < len => ~(Complete(list[k + 1]) /\ SeqNo(list[k + 1].start) = SeqNo(in' + 1))
    BY <1>1, <1>4, <1>5 DEF next
  <1>7. \A j \in 1 .. k : Complete(list[j]) /\ SeqNo(list[j].start) = SeqNo(End(in, list, j - 1) + 1)
    BY <1>4 DEF next
  <1> QED
    BY <1>1, <1>4, <1>6, <1>7 DEF len

\* Elements of a list that is in order.
LEMMA ListedIs ==
    ASSUME NEW h \in Nat, NEW list, Listed(list, h), in \in Nat
    PROVE  /\ Len(list) \in Nat /\ DOMAIN list = 1 .. Len(list) /\ list \in Seq(Incoming)
           /\ \A i \in DOMAIN list :
                /\ list[i] \in Incoming /\ list[i].start \in Nat /\ list[i].count \in Nat
                /\ list[i].count >= 1 /\ list[i].count <= MaxFragments
                /\ list[i].got \subseteq 0 .. list[i].count - 1
                /\ in < list[i].start /\ list[i].start <= h
                /\ Complete(list[i]) => list[i].got = 0 .. list[i].count - 1
                                        /\ list[i].start + list[i].count - 1 <= h
  <1>1. Len(list) \in Nat /\ DOMAIN list = 1 .. Len(list) /\ list \in Seq(Incoming)
    BY LenProperties DEF Listed
  <1>2. ASSUME NEW i \in DOMAIN list
        PROVE  /\ list[i] \in Incoming /\ list[i].start \in Nat /\ list[i].count \in Nat
               /\ list[i].count >= 1 /\ list[i].count <= MaxFragments
               /\ list[i].got \subseteq 0 .. list[i].count - 1
               /\ in < list[i].start /\ list[i].start <= h
               /\ Complete(list[i]) => list[i].got = 0 .. list[i].count - 1
                                        /\ list[i].start + list[i].count - 1 <= h
    <2> DEFINE e == list[i]
    <2>1. e \in Incoming
      BY <1>1
    <2>2. /\ e.start \in Nat /\ e.count \in Nat /\ e.count >= 1 /\ e.count <= MaxFragments
          /\ e.got \subseteq Nat
      BY <2>1, Bounds DEF Incoming
    <2>3. in < e.start /\ e.got # {} /\ \A g \in e.got : g < e.count /\ e.start + g <= h
      BY DEF Listed
    <2> HIDE DEF e
    <2>4. e.start <= h
      <3>1. PICK g \in e.got : e.start + g <= h
        BY <2>3
      <3> QED
        BY <2>2, <3>1
    <2>5. e.got \subseteq 0 .. e.count - 1
      <3>1. \A g \in e.got : g \in Nat /\ g < e.count
        BY <2>2, <2>3
      <3> QED
        BY <2>2, <3>1
    <2>6. ASSUME Complete(e) PROVE e.got = 0 .. e.count - 1 /\ e.start + e.count - 1 <= h
      <3>1. e.got = 0 .. e.count - 1
        BY <2>1, <2>5, <2>6, CompleteIs
      <3>2. e.count - 1 \in e.got
        BY <2>2, <3>1
      <3>3. e.start + (e.count - 1) <= h
        BY <2>3, <3>2
      <3> QED
        BY <2>2, <3>1, <3>3
    <2> QED
      BY <2>1, <2>2, <2>3, <2>4, <2>5, <2>6 DEF e
  <1> QED
    BY <1>1, <1>2

\* Dispatching keeps the list in order, passes no packet by half and loses
\* nothing.
LEMMA DispatchKeeps ==
    ASSUME NEW h \in Nat, Inv(h), h <= MaxCommands, UNCHANGED out,
           NEW list, Listed(list, h), NEW S, ToSet(list) \subseteq S,
           \A c \in S : c.start \in Nat /\ c.count \in Nat /\ c.count >= 1,
           \A c, d \in S : Fits(c, d),
           \A c \in S : c.start > in \/ c.start + c.count - 1 <= in,
           dispatch_incoming_reliable_commands(list)
    PROVE  /\ Receiver(h)' /\ in <= in' /\ ToSet(incoming') \subseteq ToSet(list)
           /\ \A c \in S : c.start > in' \/ c.start + c.count - 1 <= in'
           /\ \A n \in Nat : (n <= in \/ \E i \in DOMAIN list : n >= list[i].start /\ n - list[i].start \in list[i].got)
                             => Has(n)'
  <1> DEFINE len == Len(list)
  <1>1. /\ len \in Nat /\ DOMAIN list = 1 .. len /\ list \in Seq(Incoming)
        /\ \A i \in DOMAIN list :
             /\ list[i] \in Incoming /\ list[i].start \in Nat /\ list[i].count \in Nat
             /\ list[i].count >= 1 /\ list[i].count <= MaxFragments
             /\ list[i].got \subseteq 0 .. list[i].count - 1
             /\ in < list[i].start /\ list[i].start <= h
             /\ Complete(list[i]) => list[i].got = 0 .. list[i].count - 1
                                     /\ list[i].start + list[i].count - 1 <= h
    <2>1. in \in Nat
      BY InIs
    <2> QED
      BY <2>1, ListedIs
  <1>2. /\ in \in Nat /\ in <= h /\ Start <= in /\ dispatched \in Seq(Incoming)
        /\ \A i \in DOMAIN dispatched : Complete(dispatched[i])
                                        /\ dispatched[i].got \subseteq 0 .. dispatched[i].count - 1
        /\ Start \in Nat /\ MaxCommands \in Nat
    BY Bounds, InIs DEF Inv, Receiver
  <1>3. PICK k \in 0 .. Len(list) :
              /\ in' = End(in, list, k)
              /\ incoming' = SubSeq(list, k + 1, Len(list))
              /\ dispatched' = dispatched \o SubSeq(list, 1, k)
              /\ \A j \in 1 .. k : /\ Complete(list[j])
                                   /\ SeqNo(list[j].start) = SeqNo(End(in, list, j - 1) + 1)
              /\ k < Len(list) => ~(/\ Complete(list[k + 1])
                                    /\ SeqNo(list[k + 1].start) = SeqNo(in' + 1))
    BY <1>1, DispatchTakes
  <1> DEFINE a == SubSeq(list, 1, k)
  <1>4. /\ a \in Seq(Incoming) /\ DOMAIN a = 1 .. k /\ Len(a) = k
        /\ \A i \in 1 .. k : a[i] = list[i]
        /\ incoming' \in Seq(Incoming) /\ DOMAIN incoming' = 1 .. (len - k)
        /\ Len(incoming') = len - k
        /\ \A i \in 1 .. (len - k) : incoming'[i] = list[i + k] /\ i + k \in DOMAIN list
    <2>1. list \in Seq(Incoming)
      BY <1>1
    <2>2. /\ SubSeq(list, 1, k) \in Seq(Incoming) /\ DOMAIN SubSeq(list, 1, k) = 1 .. k
          /\ Len(SubSeq(list, 1, k)) = k
          /\ \A i \in 1 .. k : SubSeq(list, 1, k)[i] = list[i]
      BY <2>1, TwoParts
    <2>3. /\ SubSeq(list, k + 1, Len(list)) \in Seq(Incoming)
          /\ DOMAIN SubSeq(list, k + 1, Len(list)) = 1 .. (Len(list) - k)
          /\ Len(SubSeq(list, k + 1, Len(list))) = Len(list) - k
          /\ \A i \in 1 .. (Len(list) - k) :
                SubSeq(list, k + 1, Len(list))[i] = list[i + k] /\ i + k \in DOMAIN list
      BY <2>1, TwoParts
    <2> HIDE DEF a
    <2>4. a = SubSeq(list, 1, k)
      BY DEF a
    <2>5. /\ a \in Seq(Incoming) /\ DOMAIN a = 1 .. k /\ Len(a) = k
          /\ \A i \in 1 .. k : a[i] = list[i]
      BY <2>2, <2>4
    <2>6. /\ incoming' \in Seq(Incoming) /\ DOMAIN incoming' = 1 .. (len - k)
          /\ Len(incoming') = len - k
          /\ \A i \in 1 .. (len - k) : incoming'[i] = list[i + k] /\ i + k \in DOMAIN list
      BY <1>3, <2>3
    <2> QED
      BY <2>5, <2>6
  <1> HIDE DEF len, a
  <1>5. k \in Nat /\ k <= len /\ k \in 0 .. len
    BY <1>1 DEF len
  <1>6. \A i, j \in DOMAIN list : i < j => list[i].start < list[j].start
    BY DEF Listed
  <1>7. \A i \in DOMAIN list : list[i] \in S
    BY DEF ToSet
  <1>8. /\ k = 0 => in' = in
        /\ k # 0 => /\ k \in DOMAIN list /\ in' = list[k].start + list[k].count - 1
                    /\ Complete(list[k])
    <2>1. k # 0 => k \in DOMAIN list /\ k \in 1 .. k
      BY <1>1, <1>5
    <2> QED
      BY <1>3, <2>1 DEF End
  <1>9. in' \in Nat /\ in <= in' /\ in' <= h /\ in' \in 0 .. MaxCommands
    <2>1. CASE k = 0
      BY <1>2, <1>8, <2>1
    <2>2. CASE k # 0
      <3> DEFINE s == list[k].start
                 e == list[k].count
      <3>1. s \in Nat /\ e \in Nat /\ e >= 1 /\ in < s /\ s + e - 1 <= h /\ in' = s + e - 1
        BY <1>1, <1>8, <2>2
      <3>2. in \in Nat /\ h <= MaxCommands /\ MaxCommands \in Nat
        BY <1>2
      <3> HIDE DEF s, e
      <3> QED
        BY <3>1, <3>2
    <2> QED
      BY <2>1, <2>2
  <1>10. \A c \in S : c.start > in' \/ c.start + c.count - 1 <= in'
    <2> SUFFICES ASSUME NEW c \in S PROVE c.start > in' \/ c.start + c.count - 1 <= in'
      OBVIOUS
    <2>1. CASE k = 0
      BY <1>8, <2>1
    <2>2. CASE k # 0
      <3>1. Fits(c, list[k]) /\ c.start \in Nat /\ c.count \in Nat /\ c.count >= 1
            /\ list[k].start \in Nat /\ list[k].count \in Nat /\ list[k].count >= 1
            /\ in' = list[k].start + list[k].count - 1
        BY <1>1, <1>7, <1>8, <2>2
      <3> DEFINE s == list[k].start
                 e == list[k].count
                 t == c.start
                 d == c.count
      <3>2. (t = s /\ d = e) \/ t + d <= s \/ s + e <= t
        BY <3>1 DEF Fits
      <3>3. s \in Nat /\ e \in Nat /\ e >= 1 /\ t \in Nat /\ d \in Nat /\ in' = s + e - 1
        BY <3>1
      <3> HIDE DEF s, e, t, d
      <3>4. t > in' \/ t + d - 1 <= in'
        BY <3>2, <3>3
      <3> QED
        BY <3>4 DEF t, d
    <2> QED
      BY <2>1, <2>2
  <1>11. \A i \in 1 .. (len - k) : in' < list[i + k].start
    <2> SUFFICES ASSUME NEW i \in 1 .. (len - k) PROVE in' < list[i + k].start
      OBVIOUS
    <2>1. i + k \in DOMAIN list
      BY <1>4
    <2>2. CASE k = 0
      BY <1>1, <1>8, <2>1, <2>2
    <2>3. CASE k # 0
      <3>1. k < i + k
        BY <1>5
      <3>2. list[k].start < list[i + k].start
        BY <1>6, <1>8, <2>1, <2>3, <3>1
      <3>3. list[i + k].start > in' \/ list[i + k].start + list[i + k].count - 1 <= in'
        BY <1>7, <1>10, <2>1
      <3>4. Fits(list[i + k], list[k])
        BY <1>7, <1>8, <2>1, <2>3
      <3>5. /\ list[k].start \in Nat /\ list[k].count \in Nat /\ list[k].count >= 1
            /\ list[i + k].start \in Nat /\ list[i + k].count \in Nat /\ list[i + k].count >= 1
            /\ in' = list[k].start + list[k].count - 1
        BY <1>1, <1>8, <2>1, <2>3
      <3> DEFINE s == list[k].start
                 e == list[k].count
                 t == list[i + k].start
                 d == list[i + k].count
      <3>6. (t = s /\ d = e) \/ t + d <= s \/ s + e <= t
        BY <3>4 DEF Fits
      <3>7. s \in Nat /\ e \in Nat /\ e >= 1 /\ t \in Nat /\ d \in Nat /\ in' = s + e - 1 /\ s < t
        BY <3>2, <3>5
      <3> HIDE DEF s, e, t, d
      <3>8. in' < t
        BY <3>6, <3>7
      <3> QED
        BY <3>8 DEF t
    <2> QED
      BY <2>2, <2>3
  <1>12. Listed(incoming, h)'
    <2>1. \A i \in DOMAIN incoming' : in' < incoming'[i].start /\ incoming'[i].start + incoming'[i].count - 1 <= out'
      BY <1>4, <1>11 DEF Listed
    <2>2. \A i \in DOMAIN incoming' : incoming'[i].got # {}
             /\ \A g \in incoming'[i].got : g < incoming'[i].count /\ incoming'[i].start + g <= h
      BY <1>4 DEF Listed
    <2>3. \A i, j \in DOMAIN incoming' : i < j => incoming'[i].start < incoming'[j].start
      <3> SUFFICES ASSUME NEW i \in DOMAIN incoming', NEW j \in DOMAIN incoming', i < j
                   PROVE  incoming'[i].start < incoming'[j].start
        OBVIOUS
      <3>1. i + k < j + k
        BY <1>4, <1>5
      <3> QED
        BY <1>4, <1>6, <3>1
    <2> QED
      BY <1>4, <2>1, <2>2, <2>3 DEF Listed
  <1>13. incoming' # <<>> => ~(Complete(incoming'[1]) /\ incoming'[1].start = in' + 1)
    <2> SUFFICES ASSUME incoming' # <<>>, Complete(incoming'[1]), incoming'[1].start = in' + 1
                 PROVE  FALSE
      OBVIOUS
    <2>1. Len(incoming') # 0
      BY <1>4
    <2>2. 1 \in 1 .. (len - k) /\ k < len /\ 1 + k = k + 1
      BY <1>1, <1>4, <1>5, <2>1
    <2>3. incoming'[1] = list[k + 1]
      BY <1>4, <2>2
    <2> QED
      BY <1>3, <2>2, <2>3 DEF len
  <1>14. /\ dispatched' \in Seq(Incoming)
         /\ \A i \in DOMAIN dispatched' : Complete(dispatched'[i])
                                          /\ dispatched'[i].got \subseteq 0 .. dispatched'[i].count - 1
    <2>0. dispatched \in Seq(Incoming) /\ a \in Seq(Incoming)
      BY <1>2, <1>4
    <2>1. /\ dispatched \o a \in Seq(Incoming)
          /\ DOMAIN (dispatched \o a) = 1 .. (Len(dispatched) + Len(a))
          /\ Len(dispatched) \in Nat /\ Len(a) \in Nat
          /\ \A i \in 1 .. Len(dispatched) : (dispatched \o a)[i] = dispatched[i]
          /\ \A i \in 1 .. (Len(dispatched) + Len(a)) : i > Len(dispatched) =>
                 (dispatched \o a)[i] = a[i - Len(dispatched)]
      BY <2>0, Joined
    <2>2. dispatched' = dispatched \o a
      BY <1>3 DEF a
    <2>3. ASSUME NEW i \in DOMAIN dispatched'
          PROVE  Complete(dispatched'[i]) /\ dispatched'[i].got \subseteq 0 .. dispatched'[i].count - 1
      <3>0. i \in 1 .. (Len(dispatched) + Len(a))
        BY <2>1, <2>2
      <3>1. CASE i <= Len(dispatched)
        <4>1. i \in DOMAIN dispatched /\ dispatched'[i] = dispatched[i]
          <5>1. i \in 1 .. Len(dispatched) /\ DOMAIN dispatched = 1 .. Len(dispatched)
            BY <1>2, <2>1, <3>0, <3>1, LenProperties
          <5> QED
            BY <2>1, <2>2, <5>1
        <4> QED
          BY <1>2, <4>1
      <3>2. CASE i > Len(dispatched)
        <4> DEFINE j == i - Len(dispatched)
        <4>1. j \in 1 .. k /\ dispatched'[i] = a[j]
          BY <1>4, <2>1, <2>2, <3>0, <3>2
        <4>2. j \in DOMAIN list
          BY <1>1, <1>5, <4>1
        <4> HIDE DEF j
        <4>3. dispatched'[i] = list[j] /\ Complete(list[j])
          BY <1>3, <1>4, <4>1
        <4> QED
          BY <1>1, <4>2, <4>3
      <3> QED
        BY <2>1, <3>0, <3>1, <3>2
    <2> QED
      BY <2>1, <2>2, <2>3
  <1>15. Receiver(h)'
    <2>1. Start <= in'
      BY <1>2, <1>9
    <2> QED
      BY <1>9, <1>12, <1>13, <1>14, <2>1 DEF Receiver
  <1>16. ToSet(incoming') \subseteq ToSet(list)
    BY <1>4 DEF ToSet
  <1>17. ASSUME NEW n \in Nat,
                n <= in \/ \E i \in DOMAIN list : n >= list[i].start /\ n - list[i].start \in list[i].got
         PROVE  Has(n)'
    <2>1. CASE n <= in
      <3>1. n <= in'
        BY <1>2, <1>9, <2>1
      <3> QED
        BY <3>1 DEF Has
    <2>2. CASE \E i \in DOMAIN list : n >= list[i].start /\ n - list[i].start \in list[i].got
      <3>1. PICK i \in DOMAIN list : n >= list[i].start /\ n - list[i].start \in list[i].got
        BY <2>2
      <3>2. i \in 1 .. len /\ i \in Int
        BY <1>1
      <3>3. CASE i <= k
        <4>1. list[i].start \in Nat /\ list[i].count \in Nat /\ n - list[i].start \in 0 .. list[i].count - 1
          BY <1>1, <3>1
        <4>2. n <= list[i].start + list[i].count - 1 /\ list[i].start <= n
          BY <4>1
        <4>3. list[i].start + list[i].count - 1 <= in'
          <5>1. list[i].start > in' \/ list[i].start + list[i].count - 1 <= in'
            BY <1>7, <1>10
          <5>2. k # 0 /\ list[i].start <= list[k].start
            <6>1. k # 0 /\ k \in DOMAIN list /\ (i = k \/ i < k)
              BY <1>5, <1>8, <3>2, <3>3
            <6>2. i = k \/ list[i].start < list[k].start
              BY <1>6, <6>1
            <6> QED
              BY <1>1, <6>1, <6>2
          <5>3. list[k].start <= in'
            BY <1>1, <1>8, <5>2
          <5>4. list[k].start \in Nat
            BY <1>1, <1>8, <5>2
          <5> QED
            BY <1>9, <4>1, <5>1, <5>2, <5>3, <5>4
        <4>4. n <= in'
          BY <1>9, <4>1, <4>2, <4>3
        <4> QED
          BY <4>4 DEF Has
      <3>4. CASE i > k
        <4>1. i - k \in 1 .. (len - k) /\ (i - k) + k = i
          BY <1>1, <1>5, <3>2, <3>4
        <4>2. i - k \in DOMAIN incoming' /\ incoming'[i - k] = list[i]
          BY <1>4, <4>1
        <4> DEFINE j == i - k
        <4>3. j \in DOMAIN incoming' /\ n >= incoming'[j].start /\ n - incoming'[j].start \in incoming'[j].got
          BY <3>1, <4>2
        <4> HIDE DEF j
        <4> QED
          BY <4>3 DEF Has
      <3> QED
        BY <1>5, <3>2, <3>3, <3>4
    <2> QED
      BY <1>17, <2>1, <2>2
  <1> QED
    BY <1>9, <1>10, <1>15, <1>16, <1>17

-----------------------------------------------------------------------------
(* The steps                                                               *)

\* The receiver stands still while the sender goes on.
LEMMA ReceiverWaits ==
    ASSUME NEW h \in Nat, Inv(h), NEW k \in Nat, h <= k, UNCHANGED receiver, out' \in Nat, out <= out'
    PROVE  Receiver(k)' /\ \A n : Has(n)' <=> Has(n)
  <1>1. UNCHANGED <<in, incoming, dispatched>>
    BY DEF receiver
  <1>2. /\ in \in Nat /\ in <= h /\ out \in Nat
        /\ \A i \in DOMAIN incoming : /\ incoming[i].start \in Nat /\ incoming[i].count \in Nat
                                      /\ incoming[i].got \subseteq Nat
    BY InIs
  <1>3. /\ in \in 0 .. MaxCommands /\ Start <= in
        /\ incoming \in Seq(Incoming)
        /\ \A i \in DOMAIN incoming : in < incoming[i].start /\ incoming[i].start + incoming[i].count - 1 <= out
        /\ \A i \in DOMAIN incoming : incoming[i].got # {}
              /\ \A g \in incoming[i].got : g < incoming[i].count /\ incoming[i].start + g <= h
        /\ \A i, j \in DOMAIN incoming : i < j => incoming[i].start < incoming[j].start
        /\ incoming # <<>> => ~(Complete(incoming[1]) /\ incoming[1].start = in + 1)
        /\ dispatched \in Seq(Incoming)
        /\ \A i \in DOMAIN dispatched : Complete(dispatched[i]) /\ dispatched[i].got \subseteq 0 .. dispatched[i].count - 1
    BY DEF Inv, Receiver, Listed
  <1>4. \A i \in DOMAIN incoming : in < incoming[i].start /\ incoming[i].start + incoming[i].count - 1 <= out'
    <2> SUFFICES ASSUME NEW i \in DOMAIN incoming
                 PROVE  in < incoming[i].start /\ incoming[i].start + incoming[i].count - 1 <= out'
      OBVIOUS
    <2> DEFINE s == incoming[i].start
               c == incoming[i].count
    <2>1. s \in Nat /\ c \in Nat /\ in < s /\ s + c - 1 <= out
      BY <1>2, <1>3
    <2> HIDE DEF s, c
    <2>2. in < s /\ s + c - 1 <= out'
      BY <1>2, <2>1
    <2> QED
      BY <2>2 DEF s, c
  <1>5. \A i \in DOMAIN incoming : incoming[i].got # {}
              /\ \A g \in incoming[i].got : g < incoming[i].count /\ incoming[i].start + g <= k
    <2> SUFFICES ASSUME NEW i \in DOMAIN incoming, NEW g \in incoming[i].got
                 PROVE  incoming[i].start + g <= k
      BY <1>3
    <2>1. incoming[i].start \in Nat /\ g \in Nat /\ incoming[i].start + g <= h
      BY <1>2, <1>3
    <2> QED
      BY <2>1
  <1>6. Listed(incoming, k)'
    BY <1>1, <1>3, <1>4, <1>5, Zenon DEF Listed
  <1>7. Receiver(k)'
    <2>1. in <= k
      BY <1>2
    <2> QED
      BY <1>1, <1>3, <1>6, <2>1, Zenon DEF Receiver, Complete
  <1>8. \A n : Has(n)' <=> Has(n)
    BY <1>1 DEF Has
  <1> QED
    BY <1>7, <1>8

\* Nothing new is known.
LEMMA PacketsKept ==
    ASSUME NEW h \in Nat, Inv(h), Known' \subseteq Known,
           \A c \in Known : c.start > in' \/ c.start + c.count - 1 <= in'
    PROVE  Packets'
  BY DEF Inv, Packets, Fits

\* Nothing that was here goes, and as much is outstanding.
LEMMA AckedKept ==
    ASSUME NEW h \in Nat, Inv(h), out' = out, Outstanding \subseteq Outstanding',
           \A n \in Nat : Has(n) => Has(n)'
    PROVE  AckedIsHeld'
  <1>1. \A n \in 1 .. out : n \in Nat
    BY InIs
  <1> QED
    BY <1>1 DEF Inv, AckedIsHeld

\* enet_peer_send: the commands of one packet, that comes after all known ones.
LEMMA SendSteps ==
    ASSUME NEW h \in Nat, Inv(h), NEW count \in 1 .. MaxFragments, enet_peer_send(count)
    PROVE  Inv(h)'
  <1> DEFINE new == {[n |-> out + i, start |-> out + 1, count |-> count] : i \in 1 .. count}
  <1>1. SInv(h)' /\ out' = out + count /\ Held' = Held \cup new
    BY SendKeeps DEF Inv
  <1>2. UNCHANGED <<net, acks, receiver>>
    BY DEF enet_peer_send
  <1>3. /\ out \in Nat /\ count \in Nat /\ count >= 1 /\ out' \in Nat /\ out <= out' /\ in \in Nat
        /\ in <= out
    <2>1. out \in Nat /\ in \in Nat /\ in <= h /\ h <= out /\ MaxFragments \in Nat
      BY InIs, Bounds
    <2> QED
      BY <1>1, <2>1
  <1>4. Receiver(h)' /\ \A n : Has(n)' <=> Has(n)
    BY <1>2, <1>3, ReceiverWaits
  <1>5. \A c \in new : /\ c.start = out + 1 /\ c.count = count /\ c.n \in out + 1 .. out + count
    <2> SUFFICES ASSUME NEW c \in new
                 PROVE  c.start = out + 1 /\ c.count = count /\ c.n \in out + 1 .. out + count
      OBVIOUS
    <2>1. PICK i \in 1 .. count : c = [n |-> out + i, start |-> out + 1, count |-> count]
      OBVIOUS
    <2>2. c.start = out + 1 /\ c.count = count /\ c.n = out + i
      BY <2>1
    <2>3. out + i \in out + 1 .. out + count
      BY <1>3
    <2> QED
      BY <2>2, <2>3
  <1>6. \A n \in out + 1 .. out + count : \E c \in new : c.n = n
    <2> SUFFICES ASSUME NEW n \in out + 1 .. out + count PROVE \E c \in new : c.n = n
      OBVIOUS
    <2>1. n - out \in 1 .. count /\ out + (n - out) = n
      BY <1>3
    <2>2. [n |-> out + (n - out), start |-> out + 1, count |-> count] \in new
      BY <2>1
    <2> QED
      BY <2>1, <2>2
  <1> HIDE DEF new
  <1>7. \A c \in new : CmdOK(c)'
    BY <1>1, <1>3, <1>5 DEF CmdOK
  <1>8. \A c \in Known : c.start \in Nat /\ c.count \in Nat /\ c.start + c.count - 1 <= out
    BY KnownIs, Bounds
  <1>9. Flight(h)'
    <2>1. \A c \in Held \cup net : CmdOK(c)'
      <3> SUFFICES ASSUME NEW c \in Held \cup net PROVE CmdOK(c)'
        OBVIOUS
      <3>1. CmdOK(c) /\ c \in Known
        BY DEF Inv, Flight, Known
      <3>2. c.start + c.count - 1 <= out'
        BY <1>3, <1>8, <3>1
      <3> QED
        BY <3>1, <3>2 DEF CmdOK
    <2>2. \A c \in net' : c \in Command /\ CmdOK(c)' /\ c.n <= h /\ h < c.n + MaxAge
      BY <1>2, <2>1 DEF Inv, Flight
    <2>3. \A a \in acks' : a \in 1 .. MaxCommands /\ a <= h /\ h < a + MaxAge /\ Has(a)'
      BY <1>2, <1>4 DEF Inv, Flight
    <2>4. \A c \in Held' : CmdOK(c)'
      BY <1>1, <1>7, <2>1
    <2> QED
      BY <2>2, <2>3, <2>4 DEF Flight
  <1>10. Packets'
    <2>1. Known' = Known \cup new
      BY <1>1, <1>2 DEF Known, receiver
    <2>2. \A c, d \in new : Fits(c, d)
      BY <1>5 DEF Fits
    <2>3. \A c \in Known, d \in new : Fits(c, d) /\ Fits(d, c)
      <3> SUFFICES ASSUME NEW c \in Known, NEW d \in new PROVE Fits(c, d) /\ Fits(d, c)
        OBVIOUS
      <3>1. c.start + c.count <= d.start
        BY <1>3, <1>5, <1>8
      <3> QED
        BY <3>1 DEF Fits
    <2>4. \A c, d \in Known : Fits(c, d)
      BY DEF Inv, Packets
    <2>5. \A c, d \in Known' : Fits(c, d)
      BY <2>1, <2>2, <2>3, <2>4
    <2>6. \A c \in Known' : c.start > in' \/ c.start + c.count - 1 <= in'
      <3>1. in' = in
        BY <1>2 DEF receiver
      <3>2. \A c \in new : c.start > in
        BY <1>3, <1>5
      <3> QED
        BY <2>1, <3>1, <3>2 DEF Inv, Packets
    <2> QED
      BY <2>5, <2>6 DEF Packets, Fits
  <1>11. AckedIsHeld'
    <2> SUFFICES ASSUME NEW n \in 1 .. out', n \notin Outstanding' PROVE Has(n)'
      BY DEF AckedIsHeld
    <2>1. Outstanding' = Outstanding \cup {c.n : c \in new}
      BY <1>1 DEF Outstanding
    <2>2. ~(n \in out + 1 .. out + count) /\ n \notin Outstanding
      BY <1>6, <2>1
    <2>3. n \in 1 .. out
      BY <1>1, <1>3, <2>2
    <2> QED
      BY <1>4, <2>2, <2>3 DEF Inv, AckedIsHeld
  <1> QED
    BY <1>1, <1>4, <1>9, <1>10, <1>11 DEF Inv

\* check_timeouts: only the place of what is held changes.
LEMMA TimeoutSteps ==
    ASSUME NEW h \in Nat, Inv(h), NEW late \in SUBSET DOMAIN sent, check_timeouts(late)
    PROVE  Inv(h)'
  <1>1. SInv(h)' /\ out' = out /\ Held' = Held
    BY TimeoutsKeep DEF Inv
  <1>2. UNCHANGED <<net, acks, receiver>>
    BY DEF check_timeouts
  <1>3. Receiver(h)' /\ \A n : Has(n)' <=> Has(n)
    BY <1>1, <1>2, InIs, ReceiverWaits
  <1>4. Flight(h)'
    BY <1>1, <1>2, <1>3 DEF Inv, Flight, CmdOK
  <1>5. Packets'
    <2>1. Known' = Known /\ in' = in
      BY <1>1, <1>2 DEF Known, receiver
    <2> QED
      BY <2>1, PacketsKept DEF Inv, Packets
  <1>6. AckedIsHeld'
    <2>1. Outstanding' = Outstanding
      BY <1>1 DEF Outstanding
    <2> QED
      BY <1>1, <1>3, <2>1, AckedKept
  <1> QED
    BY <1>1, <1>3, <1>4, <1>5, <1>6 DEF Inv

\* check_outgoing_commands: a held command goes into flight, and what is too
\* old is lost.
LEMMA OutgoingSteps ==
    ASSUME NEW h \in Nat, Inv(h), check_outgoing_commands
    PROVE  \E k \in 0 .. MaxCommands : Inv(k)'
  <1>1. PICK k \in {h, h + 1} :
              /\ SInv(k)' /\ k <= out /\ Head(queued).cmd \in Held /\ Head(queued).cmd.n <= k
              /\ out' = out /\ Held' = Held /\ queued # <<>>
    BY OutgoingKeeps DEF Inv
  <1> DEFINE o == Head(queued).cmd
  <1>2. /\ net' \subseteq {d \in net \cup {o} : out - d.n < MaxAge}
        /\ acks' = {a \in acks : out - a < MaxAge} /\ UNCHANGED receiver
    <2>1. Transmit(o) /\ acks' = {a \in acks : out - a < MaxAge} /\ UNCHANGED receiver
      BY DEF check_outgoing_commands
    <2> QED
      BY <2>1 DEF Transmit
  <1>3. k \in Nat /\ h <= k /\ out \in Nat /\ k \in 0 .. MaxCommands /\ MaxAge \in Nat
    <2>1. out \in Nat /\ out <= MaxCommands /\ MaxCommands \in Nat /\ MaxAge \in Nat
      BY InIs, Bounds
    <2> QED
      BY <1>1, <2>1
  <1>4. Receiver(k)' /\ \A n : Has(n)' <=> Has(n)
    BY <1>1, <1>2, <1>3, ReceiverWaits
  <1>5. Flight(k)'
    <2>1. \A c \in Held : CmdOK(c)' /\ c \in Command
      BY <1>1, HeldIs DEF Inv, Flight, CmdOK
    <2>2. ASSUME NEW c \in net' PROVE c \in Command /\ CmdOK(c)' /\ c.n <= k /\ k < c.n + MaxAge
      <3>1. c \in Command /\ CmdOK(c)' /\ c.n <= k /\ out - c.n < MaxAge
        <4>1. CASE c = o
          BY <1>1, <1>2, <2>1, <2>2, <4>1
        <4>2. CASE c \in net
          <5>1. c \in Command /\ CmdOK(c)' /\ c.n <= h /\ c.n \in Nat
            BY <1>1, <4>2, NetIs DEF Inv, Flight, CmdOK
          <5>2. out - c.n < MaxAge
            BY <1>2, <2>2
          <5> QED
            BY <1>3, <5>1, <5>2
        <4> QED
          BY <1>2, <2>2, <4>1, <4>2
      <3>2. c.n \in Nat
        BY <3>1 DEF Command
      <3> QED
        BY <1>1, <1>3, <3>1, <3>2
    <2>3. ASSUME NEW a \in acks' PROVE a \in 1 .. MaxCommands /\ a <= k /\ k < a + MaxAge /\ Has(a)'
      <3>1. a \in 1 .. MaxCommands /\ a <= h /\ Has(a)' /\ out - a < MaxAge
        BY <1>2, <1>4, <2>3 DEF Inv, Flight
      <3> QED
        BY <1>1, <1>3, <3>1, Bounds
    <2> QED
      BY <1>1, <2>1, <2>2, <2>3 DEF Flight
  <1>6. Packets'
    <2>1. Known' \subseteq Known /\ in' = in
      BY <1>1, <1>2 DEF Known, receiver
    <2> QED
      BY <2>1, PacketsKept DEF Inv, Packets
  <1>7. AckedIsHeld'
    <2>1. Outstanding' = Outstanding
      BY <1>1 DEF Outstanding
    <2> QED
      BY <1>1, <1>4, <2>1, AckedKept
  <1>8. Inv(k)'
    BY <1>1, <1>4, <1>5, <1>6, <1>7 DEF Inv
  <1> QED
    BY <1>3, <1>8

\* enet_protocol_handle_acknowledge: what is let go of is at the receiver.
LEMMA AckSteps ==
    ASSUME NEW h \in Nat, Inv(h), NEW a \in acks, ReceiveAck(a)
    PROVE  Inv(h)'
  <1>1. /\ ~sending /\ handle_acknowledge(a) /\ acks' \subseteq acks /\ UNCHANGED <<net, receiver>>
    BY DEF ReceiveAck
  <1>2. a \in Nat /\ a <= h /\ h < a + MaxAge /\ Has(a)
    BY Bounds DEF Inv, Flight
  <1>3. /\ SInv(h)' /\ out' = out
        /\ Held' = Held \/ \E c \in Held : c.n = a /\ Held' = Held \ {c}
    BY <1>1, <1>2, AckKeeps DEF Inv
  <1>4. Held' \subseteq Held /\ Outstanding \subseteq Outstanding' \cup {a}
    BY <1>3 DEF Outstanding
  <1>5. Receiver(h)' /\ \A n : Has(n)' <=> Has(n)
    BY <1>1, <1>3, InIs, ReceiverWaits
  <1>6. Flight(h)'
    BY <1>1, <1>3, <1>4, <1>5 DEF Inv, Flight, CmdOK
  <1>7. Packets'
    <2>1. Known' \subseteq Known /\ in' = in
      BY <1>1, <1>4 DEF Known, receiver
    <2> QED
      BY <2>1, PacketsKept DEF Inv, Packets
  <1>8. AckedIsHeld'
    BY <1>2, <1>3, <1>4, <1>5 DEF Inv, AckedIsHeld
  <1> QED
    BY <1>3, <1>5, <1>6, <1>7, <1>8 DEF Inv

\* enet_peer_receive and the loss of a datagram.
LEMMA OtherSteps ==
    ASSUME NEW h \in Nat, Inv(h), enet_peer_receive \/ Lose
    PROVE  Inv(h)'
  <1>1. UNCHANGED <<sender, in, incoming>> /\ net' \subseteq net /\ acks' \subseteq acks
        /\ (UNCHANGED dispatched \/ (dispatched # <<>> /\ dispatched' = Tail(dispatched)))
    BY DEF enet_peer_receive, Lose, receiver
  <1>2. SInv(h)' /\ out' = out /\ Held' = Held
    BY <1>1, OthersKeep DEF Inv
  <1>3. \A n : Has(n)' <=> Has(n)
    BY <1>1 DEF Has
  <1>4. /\ dispatched' \in Seq(Incoming)
        /\ \A i \in DOMAIN dispatched' : Complete(dispatched'[i]) /\ dispatched'[i].got \subseteq 0 .. dispatched'[i].count - 1
    <2>1. /\ dispatched \in Seq(Incoming)
          /\ \A i \in DOMAIN dispatched : Complete(dispatched[i]) /\ dispatched[i].got \subseteq 0 .. dispatched[i].count - 1
      BY DEF Inv, Receiver
    <2>2. CASE UNCHANGED dispatched
      BY <2>1, <2>2
    <2>3. CASE dispatched # <<>> /\ dispatched' = Tail(dispatched)
      <3>1. /\ dispatched' \in Seq(Incoming) /\ Len(dispatched') = Len(dispatched) - 1
            /\ \A i \in 1 .. Len(dispatched') : dispatched'[i] = dispatched[i + 1]
        BY <2>1, <2>3, HeadTailProperties
      <3>2. /\ DOMAIN dispatched = 1 .. Len(dispatched) /\ Len(dispatched) \in Nat
            /\ DOMAIN dispatched' = 1 .. Len(dispatched')
        BY <2>1, <3>1, LenProperties
      <3>3. \A i \in DOMAIN dispatched' : i + 1 \in DOMAIN dispatched /\ dispatched'[i] = dispatched[i + 1]
        BY <3>1, <3>2
      <3> QED
        BY <2>1, <3>1, <3>3
    <2> QED
      BY <1>1, <2>2, <2>3
  <1>5. Receiver(h)'
    BY <1>1, <1>2, <1>4 DEF Inv, Receiver, Listed, Complete
  <1>6. Flight(h)'
    BY <1>1, <1>2, <1>3 DEF Inv, Flight, CmdOK
  <1>7. Packets'
    <2>1. Known' \subseteq Known /\ in' = in
      BY <1>1, <1>2 DEF Known
    <2> QED
      BY <2>1, PacketsKept DEF Inv, Packets
  <1>8. AckedIsHeld'
    <2>1. Outstanding' = Outstanding
      BY <1>2 DEF Outstanding
    <2> QED
      BY <1>2, <1>3, <2>1, AckedKept
  <1> QED
    BY <1>2, <1>5, <1>6, <1>7, <1>8 DEF Inv

\* What is done with a command keeps the receiver's invariant, and an
\* acknowledgement is owed only for what is here.
LEMMA DiscardIs ==
    ASSUME NEW h \in Nat, Inv(h), NEW c \in net, Discard(c)
    PROVE  Has(c.n) \/ Ahead(in, c.n) = FreeWindows - 1
  <1>1. /\ c.n \in Nat /\ c.start \in Nat /\ c.count \in Nat /\ c.count >= 1
        /\ c.start <= c.n /\ c.n <= c.start + c.count - 1
        /\ c.start > in \/ c.start + c.count - 1 <= in
        /\ in \in Nat /\ c \in Known
    BY NetIs, InIs
  <1>2. CASE c.start <= in
    <2>1. c.n <= in
      BY <1>1, <1>2
    <2> QED
      BY <2>1 DEF Has
  <1>3. CASE c.start > in /\ ~InReach(c.start)
    BY <1>3, ReachIs
  <1>4. CASE c.start > in /\ InReach(c.start)
    <2>1. c.count = 1 /\ (SeqNo(c.start) = SeqNo(in) \/ Places(c) # {})
      BY <1>4 DEF Discard
    <2>2. SeqNo(c.start) # SeqNo(in)
      BY <1>1, <1>4, ReachIs
    <2>3. PICK i \in DOMAIN incoming : SeqNo(incoming[i].start) = SeqNo(c.start)
      BY <2>1, <2>2 DEF Places
    <2>4. incoming[i].start = c.start
      BY <1>4, <2>3, ReachIs
    <2>5. incoming[i].count = 1
      <3>1. Fits(incoming[i], c)
        BY <1>1, InIs DEF Inv, Packets
      <3>2. incoming[i].count \in Nat /\ incoming[i].count >= 1
        BY InIs
      <3> QED
        BY <1>1, <2>1, <2>4, <3>1, <3>2 DEF Fits
    <2>6. 0 \in incoming[i].got
      <3>1. incoming[i].got # {} /\ incoming[i].got \subseteq Nat /\ \A g \in incoming[i].got : g < 1
        BY <2>5, InIs DEF Inv, Receiver, Listed
      <3> QED
        BY <3>1
    <2>7. c.n = c.start /\ c.n - c.start = 0
      BY <1>1, <2>1
    <2>8. c.n >= incoming[i].start /\ c.n - incoming[i].start \in incoming[i].got
      BY <1>1, <2>4, <2>6, <2>7
    <2> QED
      BY <2>8 DEF Has
  <1> QED
    BY <1>1, <1>2, <1>3, <1>4

\* Every packet of X is one of Y.
Alike(X, Y) == \A x \in X : \E y \in Y : y.start = x.start /\ y.count = x.count

\* A list that the receiver may dispatch: its packets are those that are held or
\* wait, it has the fragment m, and it has every fragment the receiver had.
Stores(list, n) == \E i \in DOMAIN list : n >= list[i].start /\ n - list[i].start \in list[i].got
Ready(list, m) ==
    /\ Alike(ToSet(list), Held \cup ToSet(incoming)) /\ Alike(ToSet(incoming), ToSet(list))
    /\ Stores(list, m)
    /\ \A n \in Nat : Has(n) => n <= in \/ Stores(list, n)

\* A command of a packet that is not here is still held: it has not been
\* acknowledged.
LEMMA StillHeld ==
    ASSUME NEW h \in Nat, Inv(h), NEW c \in net, c.start > in,
           \A i \in DOMAIN incoming : incoming[i].start # c.start
    PROVE  \E d \in Held : d.start = c.start /\ d.count = c.count
  <1>1. /\ c \in Known /\ c.n \in Nat /\ c.start \in Nat /\ c.count \in Nat /\ c.count >= 1
        /\ c.start <= c.n /\ c.n <= c.start + c.count - 1 /\ c.n <= h
        /\ c.n \in 1 .. MaxCommands /\ in \in Nat /\ h <= out /\ out \in Nat
    BY NetIs, InIs
  <1>2. \A d \in Known : /\ Fits(c, d) /\ d.start \in Nat /\ d.count \in Nat /\ d.count >= 1
    BY <1>1, KnownIs, Bounds DEF Inv, Packets
  <1>3. ASSUME NEW d \in Known, d.start <= c.n, c.n < d.start + d.count
        PROVE  d.start = c.start /\ d.count = c.count
    <2> DEFINE s == c.start
               k == c.count
               t == d.start
               l == d.count
               n == c.n
    <2>1. s \in Nat /\ k \in Nat /\ t \in Nat /\ l \in Nat /\ n \in Nat
          /\ s <= n /\ n <= s + k - 1 /\ t <= n /\ n < t + l
      BY <1>1, <1>2, <1>3
    <2>2. (s = t /\ k = l) \/ s + k <= t \/ t + l <= s
      BY <1>2 DEF Fits
    <2> HIDE DEF s, k, t, l, n
    <2>3. s = t /\ k = l
      BY <2>1, <2>2
    <2> QED
      BY <2>3 DEF s, k, t, l
  <1>4. ~Has(c.n)
    <2> SUFFICES ASSUME Has(c.n) PROVE FALSE
      OBVIOUS
    <2>1. ~(c.n <= in)
      BY <1>1
    <2>2. PICK i \in DOMAIN incoming : c.n >= incoming[i].start /\ c.n - incoming[i].start \in incoming[i].got
      BY <2>1 DEF Has
    <2>3. /\ incoming[i] \in Known /\ incoming[i].start \in Nat /\ incoming[i].count \in Nat
          /\ c.n - incoming[i].start < incoming[i].count
      <3>1. \A g \in incoming[i].got : g < incoming[i].count
        BY DEF Inv, Receiver, Listed
      <3> QED
        BY <2>2, <3>1, InIs
    <2>4. incoming[i].start <= c.n /\ c.n < incoming[i].start + incoming[i].count
      BY <1>1, <2>2, <2>3
    <2> QED
      BY <1>3, <2>3, <2>4
  <1>5. c.n \in Outstanding
    <2>1. c.n \in 1 .. out
      BY <1>1
    <2> QED
      BY <1>4, <2>1 DEF Inv, AckedIsHeld
  <1>6. PICK d \in Held : d.n = c.n
    BY <1>5 DEF Outstanding
  <1>7. d \in Known /\ d.start <= c.n /\ c.n < d.start + d.count
    BY <1>6 DEF Known, Inv, Flight, CmdOK
  <1> QED
    BY <1>3, <1>7

\* The list with a command put in is in order, and holds it.
LEMMA EnteredList ==
    ASSUME NEW h \in Nat, Inv(h), NEW c \in net, Enter(c)
    PROVE  \E list : dispatch_incoming_reliable_commands(list) /\ Listed(list, h) /\ Ready(list, c.n)
  <1> DEFINE e == [start |-> c.start, count |-> c.count, got |-> {c.n - c.start}]
             list == Inserted(e)
  <1>1. /\ c.n \in Nat /\ c.start \in Nat /\ c.count \in Nat /\ c.count >= 1 /\ c.count <= MaxFragments
        /\ c.start <= c.n /\ c.n <= c.start + c.count - 1 /\ c.n <= h
        /\ c.start > in \/ c.start + c.count - 1 <= in
        /\ c.start + c.count - 1 <= out
        /\ in \in Nat /\ c \in Command
    BY NetIs, InIs
  <1>2. InReach(c.start) /\ Places(c) = {} /\ SeqNo(c.start) # SeqNo(in)
        /\ dispatch_incoming_reliable_commands(list)
    BY DEF Enter
  <1>3. c.start > in
    <2> SUFFICES ASSUME ~(c.start > in) PROVE FALSE
      OBVIOUS
    <2>1. c.start <= in
      BY <1>1
    <2>2. c.start = in
      BY <1>2, <2>1, ReachIs
    <2> QED
      BY <1>2, <2>2
  <1>4. \A i \in DOMAIN incoming : incoming[i].start # c.start
    BY <1>2 DEF Places
  <1>5. e \in Incoming /\ c.n - c.start \in 0 .. c.count - 1
    <2>1. c.n - c.start \in 0 .. c.count - 1 /\ c.n - c.start \in 0 .. MaxFragments - 1
      BY <1>1, Bounds
    <2>2. c.start \in 1 .. MaxCommands /\ c.count \in 1 .. MaxFragments
      BY <1>1 DEF Command
    <2> QED
      BY <2>1, <2>2 DEF Incoming
  <1>6. e.start = c.start /\ e.count = c.count /\ e.got = {c.n - c.start} /\ c.start <= h
    BY <1>1
  <1> HIDE DEF e
  <1>7. /\ list \in Seq(Incoming)
        /\ \A i \in DOMAIN list : list[i] = e \/ list[i] \in ToSet(incoming)
        /\ \E i \in DOMAIN list : list[i] = e
        /\ \A j \in DOMAIN incoming : \E i \in DOMAIN list : list[i] = incoming[j]
        /\ \A i, j \in DOMAIN list : i < j => list[i].start < list[j].start
    <2>1. in < e.start /\ e.start <= h /\ \A i \in DOMAIN incoming : incoming[i].start # e.start
      BY <1>1, <1>3, <1>4, <1>6
    <2> QED
      BY <1>5, <2>1, InsertedIs
  <1> HIDE DEF list
  <1>8. /\ \A x \in ToSet(incoming) : in < x.start /\ x.start + x.count - 1 <= out
        /\ \A x \in ToSet(incoming) : x.got # {} /\ \A g \in x.got : g < x.count /\ x.start + g <= h
    BY DEF Inv, Receiver, Listed, ToSet
  <1>9. /\ in < e.start /\ e.start + e.count - 1 <= out
        /\ e.got # {} /\ \A g \in e.got : g < e.count /\ e.start + g <= h
    BY <1>1, <1>3, <1>6
  <1>10. Listed(list, h)
    <2>1. \A i \in DOMAIN list : in < list[i].start /\ list[i].start + list[i].count - 1 <= out
      BY <1>7, <1>8, <1>9
    <2>2. \A i \in DOMAIN list : list[i].got # {} /\ \A g \in list[i].got : g < list[i].count /\ list[i].start + g <= h
      BY <1>7, <1>8, <1>9
    <2> QED
      BY <1>7, <2>1, <2>2 DEF Listed
  <1>11. \E i \in DOMAIN list : c.n >= list[i].start /\ c.n - list[i].start \in list[i].got
    BY <1>1, <1>6, <1>7
  <1>12. \A n \in Nat : Has(n) => n <= in \/ \E i \in DOMAIN list :
                n >= list[i].start /\ n - list[i].start \in list[i].got
    BY <1>7 DEF Has
  <1>13. \E d \in Held : d.start = c.start /\ d.count = c.count
    BY <1>3, <1>4, StillHeld
  <1>14. Alike(ToSet(list), Held \cup ToSet(incoming))
    <2>1. \A x \in ToSet(list) : x \in ToSet(incoming) \/ x = e
      BY <1>7 DEF ToSet
    <2> QED
      BY <1>6, <1>13, <2>1 DEF Alike
  <1>15. Alike(ToSet(incoming), ToSet(list))
    <2>1. ToSet(incoming) \subseteq ToSet(list)
      BY <1>7 DEF ToSet
    <2> QED
      BY <2>1 DEF Alike
  <1>16. Ready(list, c.n)
    BY <1>11, <1>12, <1>14, <1>15 DEF Ready, Stores
  <1> QED
    BY <1>2, <1>10, <1>16

\* The same for a fragment of a packet that is there.
LEMMA FilledList ==
    ASSUME NEW h \in Nat, Inv(h), NEW c \in net, Fill(c)
    PROVE  \E list : dispatch_incoming_reliable_commands(list) /\ Listed(list, h) /\ Ready(list, c.n)
  <1> DEFINE i == First(Places(c))
             g == c.n - c.start
             list == [incoming EXCEPT ![i].got = @ \cup {g}]
  <1>1. /\ c.n \in Nat /\ c.start \in Nat /\ c.count \in Nat /\ c.count >= 1 /\ c.count <= MaxFragments
        /\ c.start <= c.n /\ c.n <= c.start + c.count - 1 /\ c.n <= h
        /\ c.start > in \/ c.start + c.count - 1 <= in
        /\ in \in Nat /\ c \in Known /\ MaxFragments \in Nat
    BY NetIs, InIs, Bounds
  <1>2. InReach(c.start) /\ c.count > 1 /\ Places(c) # {}
        /\ dispatch_incoming_reliable_commands(list)
    BY DEF Fill
  <1>3. c.start > in
    <2> SUFFICES ASSUME ~(c.start > in) PROVE FALSE
      OBVIOUS
    <2>1. c.start <= in
      BY <1>1
    <2>2. c.count = 1
      BY <1>2, <2>1, ReachIs
    <2> QED
      BY <1>2, <2>2
  <1>4. /\ Len(incoming) \in Nat /\ DOMAIN incoming = 1 .. Len(incoming) /\ incoming \in Seq(Incoming)
    BY InIs
  <1>5. i \in DOMAIN incoming /\ SeqNo(incoming[i].start) = SeqNo(c.start)
    <2>1. Places(c) \in SUBSET Nat
      BY <1>4 DEF Places
    <2>2. i \in Places(c)
      BY <1>2, <2>1, FirstIs
    <2> QED
      BY <2>2 DEF Places
  <1> HIDE DEF i
  <1>6. incoming[i].start = c.start /\ incoming[i].count = c.count /\ incoming[i] \in Incoming
    <2>1. incoming[i].start = c.start
      BY <1>3, <1>5, ReachIs
    <2>2. Fits(incoming[i], c) /\ incoming[i].count \in Nat /\ incoming[i].count >= 1
          /\ incoming[i] \in Incoming
      BY <1>1, <1>5, InIs DEF Inv, Packets
    <2> QED
      BY <1>1, <2>1, <2>2 DEF Fits
  <1>7. g \in Nat /\ g < c.count /\ g \in 0 .. MaxFragments - 1 /\ c.start + g <= h
    BY <1>1
  <1> HIDE DEF g
  <1>8. /\ DOMAIN list = DOMAIN incoming
        /\ \A j \in DOMAIN incoming : j # i => list[j] = incoming[j]
        /\ list[i] = [incoming[i] EXCEPT !.got = incoming[i].got \cup {g}]
    BY <1>4, <1>5
  <1> HIDE DEF list
  <1>9. /\ list[i].start = c.start /\ list[i].count = c.count /\ list[i].got = incoming[i].got \cup {g}
        /\ list[i] \in Incoming
    BY <1>6, <1>7, <1>8 DEF Incoming
  <1>10. list \in Seq(Incoming)
    <2>1. \A j \in 1 .. Len(incoming) : list[j] \in Incoming
      BY <1>4, <1>8, <1>9
    <2>2. list = [j \in 1 .. Len(incoming) |-> list[j]]
      <3>1. incoming = [j \in 1 .. Len(incoming) |-> incoming[j]]
        BY <1>4
      <3>2. list = [j \in DOMAIN incoming |-> list[j]]
        BY <3>1 DEF list
      <3> QED
        BY <1>4, <3>2
    <2> QED
      BY <1>4, <2>1, <2>2
  <1>11. /\ \A j \in DOMAIN incoming : in < incoming[j].start /\ incoming[j].start + incoming[j].count - 1 <= out
         /\ \A j \in DOMAIN incoming : incoming[j].got # {}
               /\ \A x \in incoming[j].got : x < incoming[j].count /\ incoming[j].start + x <= h
         /\ \A j, k \in DOMAIN incoming : j < k => incoming[j].start < incoming[k].start
    BY DEF Inv, Receiver, Listed
  <1>12. \A j \in DOMAIN list : /\ list[j].start = incoming[j].start /\ list[j].count = incoming[j].count
                                /\ incoming[j].got \subseteq list[j].got
                                /\ \A x \in list[j].got : x \in incoming[j].got \/ (x = g /\ j = i)
    <2> SUFFICES ASSUME NEW j \in DOMAIN list
                 PROVE  /\ list[j].start = incoming[j].start /\ list[j].count = incoming[j].count
                        /\ incoming[j].got \subseteq list[j].got
                        /\ \A x \in list[j].got : x \in incoming[j].got \/ (x = g /\ j = i)
      OBVIOUS
    <2>1. CASE j = i
      BY <1>6, <1>9, <2>1
    <2>2. CASE j # i
      BY <1>8, <2>2
    <2> QED
      BY <2>1, <2>2
  <1>13. Listed(list, h)
    <2>1. \A j \in DOMAIN list : in < list[j].start /\ list[j].start + list[j].count - 1 <= out
      BY <1>8, <1>11, <1>12
    <2>2. \A j \in DOMAIN list : list[j].got # {} /\ \A x \in list[j].got : x < list[j].count /\ list[j].start + x <= h
      <3> SUFFICES ASSUME NEW j \in DOMAIN list
                   PROVE  list[j].got # {} /\ \A x \in list[j].got : x < list[j].count /\ list[j].start + x <= h
        OBVIOUS
      <3>1. j \in DOMAIN incoming
        BY <1>8
      <3>2. ASSUME NEW x \in list[j].got PROVE x < list[j].count /\ list[j].start + x <= h
        <4>1. CASE x \in incoming[j].got
          BY <1>11, <1>12, <3>1, <4>1
        <4>2. CASE x = g /\ j = i
          BY <1>7, <1>9, <4>2
        <4> QED
          BY <1>12, <4>1, <4>2
      <3> QED
        BY <1>11, <1>12, <3>1, <3>2
    <2>3. \A j, k \in DOMAIN list : j < k => list[j].start < list[k].start
      BY <1>8, <1>11, <1>12
    <2> QED
      BY <1>10, <2>1, <2>2, <2>3 DEF Listed
  <1>14. \A x \in ToSet(list) : \E y \in ToSet(incoming) : y.start = x.start /\ y.count = x.count
    BY <1>8, <1>12 DEF ToSet
  <1>15. \E j \in DOMAIN list : c.n >= list[j].start /\ c.n - list[j].start \in list[j].got
    <2>1. c.n >= list[i].start /\ c.n - list[i].start \in list[i].got
      BY <1>1, <1>9 DEF g
    <2> QED
      BY <1>5, <1>8, <2>1
  <1>16. \A n \in Nat : Has(n) => n <= in \/ \E j \in DOMAIN list :
                n >= list[j].start /\ n - list[j].start \in list[j].got
    BY <1>8, <1>12 DEF Has
  <1>17. Ready(list, c.n)
    <2>1. Alike(ToSet(list), Held \cup ToSet(incoming))
      BY <1>14 DEF Alike
    <2>2. Alike(ToSet(incoming), ToSet(list))
      BY <1>8, <1>12 DEF Alike, ToSet
    <2> QED
      BY <1>15, <1>16, <2>1, <2>2 DEF Ready, Stores
  <1> QED
    BY <1>2, <1>13, <1>17

\* enet_protocol_handle_incoming_commands, for one command.
LEMMA ReceiveSteps ==
    ASSUME NEW h \in Nat, h <= MaxCommands, Inv(h), NEW c \in net, ReceiveCommand(c)
    PROVE  Inv(h)'
  <1>1. /\ net' \subseteq net /\ UNCHANGED sender
        /\ \/ (Discard(c) \/ Enter(c) \/ Fill(c)) /\ queue_acknowledgement(c.n)
           \/ Refuse(c) /\ UNCHANGED acks
    BY DEF ReceiveCommand
  <1>2. SInv(h)' /\ out' = out /\ Held' = Held
    BY <1>1, OthersKeep DEF Inv
  <1>3. /\ c \in Known /\ c.n \in 1 .. MaxCommands /\ c.n \in Nat /\ c.n <= h /\ h < c.n + MaxAge
        /\ in \in Nat /\ out \in Nat
    BY NetIs, InIs
  <1>4. /\ \A x \in Known : x.start \in Nat /\ x.count \in Nat /\ x.count >= 1
        /\ \A x, y \in Known : Fits(x, y)
        /\ \A x \in Known : x.start > in \/ x.start + x.count - 1 <= in
    <2>1. \A x \in Known : x.start \in Nat /\ x.count \in Nat /\ x.count >= 1
      BY KnownIs, Bounds
    <2> QED
      BY <2>1 DEF Inv, Packets
  <1>5. \A list : dispatch_incoming_reliable_commands(list) /\ Listed(list, h) /\ Ready(list, c.n)
                 => Receiver(h)' /\ Packets' /\ Has(c.n)' /\ \A n \in Nat : Has(n) => Has(n)'
    <2> SUFFICES ASSUME NEW list, dispatch_incoming_reliable_commands(list), Listed(list, h),
                        Ready(list, c.n)
                 PROVE  Receiver(h)' /\ Packets' /\ Has(c.n)' /\ \A n \in Nat : Has(n) => Has(n)'
      OBVIOUS
    <2>0. /\ \A x \in ToSet(list) : \E y \in Known : y.start = x.start /\ y.count = x.count
          /\ Stores(list, c.n)
          /\ \A n \in Nat : Has(n) => n <= in \/ Stores(list, n)
      <3>1. Held \cup ToSet(incoming) \subseteq Known
        BY DEF Known
      <3> QED
        BY <3>1 DEF Ready, Alike
    <2> DEFINE S == Known \cup ToSet(list)
    <2>1. \A x \in S : \E y \in Known : y.start = x.start /\ y.count = x.count
      BY <2>0
    <2>2. /\ \A x \in S : x.start \in Nat /\ x.count \in Nat /\ x.count >= 1
          /\ \A x, y \in S : Fits(x, y)
          /\ \A x \in S : x.start > in \/ x.start + x.count - 1 <= in
      <3> HIDE DEF S
      <3> QED
        BY <1>4, <2>1 DEF Fits
    <2>3. ToSet(list) \subseteq S /\ Known \subseteq S
      OBVIOUS
    <2> HIDE DEF S
    <2>4. /\ Receiver(h)' /\ in <= in' /\ ToSet(incoming') \subseteq ToSet(list)
          /\ \A x \in S : x.start > in' \/ x.start + x.count - 1 <= in'
          /\ \A n \in Nat : n <= in \/ Stores(list, n) => Has(n)'
      BY <1>2, <2>2, <2>3, DispatchKeeps DEF Stores
    <2>5. Known' \subseteq S
      <3>1. Known' = Held' \cup net' \cup ToSet(incoming')
        BY DEF Known, ToSet
      <3>2. Held \subseteq Known /\ net \subseteq Known
        BY DEF Known
      <3> QED
        BY <1>1, <1>2, <2>3, <2>4, <3>1, <3>2
    <2>6. Packets'
      <3>1. \A x, y \in Known' : Fits(x, y)
        BY <2>2, <2>5
      <3>2. \A x \in Known' : x.start > in' \/ x.start + x.count - 1 <= in'
        BY <2>4, <2>5
      <3> QED
        BY <3>1, <3>2 DEF Packets, Fits
    <2>7. Has(c.n)' /\ \A n \in Nat : Has(n) => Has(n)'
      BY <1>3, <2>0, <2>4
    <2> QED
      BY <2>4, <2>6, <2>7
  <1>6. ASSUME UNCHANGED receiver
        PROVE  Receiver(h)' /\ Packets' /\ in' = in /\ \A n \in Nat : Has(n) => Has(n)'
    <2>1. Receiver(h)' /\ \A n : Has(n)' <=> Has(n)
      BY <1>2, <1>3, <1>6, ReceiverWaits
    <2>2. Known' \subseteq Known /\ in' = in
      BY <1>1, <1>2, <1>6 DEF Known, receiver
    <2>3. Packets'
      BY <1>4, <2>2, PacketsKept
    <2> QED
      BY <2>1, <2>2, <2>3
  <1>7. /\ Receiver(h)' /\ Packets' /\ \A n \in Nat : Has(n) => Has(n)'
        /\ \A a \in acks' : a \in acks \/ (a = c.n /\ Has(c.n)')
    <2>0. queue_acknowledgement(c.n) => \A a \in acks' : a \in acks \/ a = c.n
      BY DEF queue_acknowledgement
    <2>1. CASE Discard(c) /\ queue_acknowledgement(c.n)
      <3>1. Receiver(h)' /\ Packets' /\ in' = in /\ \A n \in Nat : Has(n) => Has(n)'
        BY <1>6, <2>1 DEF Discard
      <3>2. CASE Has(c.n)
        BY <1>3, <2>0, <2>1, <3>1, <3>2
      <3>3. CASE ~Has(c.n)
        <4>1. Ahead(in, c.n) = FreeWindows - 1
          BY <2>1, <3>3, DiscardIs
        <4>2. UNCHANGED acks
          BY <2>1, <3>1, <4>1 DEF queue_acknowledgement
        <4> QED
          BY <3>1, <4>2
      <3> QED
        BY <3>2, <3>3
    <2>2. CASE Enter(c) /\ queue_acknowledgement(c.n)
      <3>1. PICK list : dispatch_incoming_reliable_commands(list) /\ Listed(list, h) /\ Ready(list, c.n)
        BY <2>2, EnteredList
      <3>3. Receiver(h)' /\ Packets' /\ Has(c.n)' /\ \A n \in Nat : Has(n) => Has(n)'
        BY <1>5, <3>1
      <3> QED
        BY <2>0, <2>2, <3>3
    <2>3. CASE Fill(c) /\ queue_acknowledgement(c.n)
      <3>1. PICK list : dispatch_incoming_reliable_commands(list) /\ Listed(list, h) /\ Ready(list, c.n)
        BY <2>3, FilledList
      <3>3. Receiver(h)' /\ Packets' /\ Has(c.n)' /\ \A n \in Nat : Has(n) => Has(n)'
        BY <1>5, <3>1
      <3> QED
        BY <2>0, <2>3, <3>3
    <2>4. CASE Refuse(c) /\ UNCHANGED acks
      BY <1>6, <2>4 DEF Refuse
    <2> QED
      BY <1>1, <2>1, <2>2, <2>3, <2>4
  <1>8. Flight(h)'
    <2>1. \A d \in net' : d \in Command /\ CmdOK(d)' /\ d.n <= h /\ h < d.n + MaxAge
      BY <1>1, <1>2 DEF Inv, Flight, CmdOK
    <2>2. \A a \in acks' : a \in 1 .. MaxCommands /\ a <= h /\ h < a + MaxAge /\ Has(a)'
      <3> SUFFICES ASSUME NEW a \in acks'
                   PROVE  a \in 1 .. MaxCommands /\ a <= h /\ h < a + MaxAge /\ Has(a)'
        OBVIOUS
      <3>1. CASE a \in acks
        <4>1. a \in 1 .. MaxCommands /\ a <= h /\ h < a + MaxAge /\ Has(a)
          BY <3>1 DEF Inv, Flight
        <4>2. a \in Nat
          BY <4>1, Bounds
        <4> QED
          BY <1>7, <4>1, <4>2
      <3>2. CASE a = c.n /\ Has(c.n)'
        BY <1>3, <3>2
      <3> QED
        BY <1>7, <3>1, <3>2
    <2>3. \A d \in Held' : CmdOK(d)'
      BY <1>2 DEF Inv, Flight, CmdOK
    <2> QED
      BY <2>1, <2>2, <2>3 DEF Flight
  <1>9. AckedIsHeld'
    <2>1. Outstanding' = Outstanding
      BY <1>2 DEF Outstanding
    <2> QED
      BY <1>2, <1>7, <2>1, AckedKept
  <1> QED
    BY <1>2, <1>7, <1>8, <1>9 DEF Inv

-----------------------------------------------------------------------------
(* The theorems                                                            *)

\* Nothing has been sent: the invariant holds with h = Start.
LEMMA Initially == Init => IInv
  <1> SUFFICES ASSUME Init PROVE Inv(Start) /\ Start \in 0 .. MaxCommands
    BY DEF IInv
  <1>1. /\ Start \in 0 .. MaxCommands /\ Start \in Nat /\ MaxCommands \in Nat /\ DataWindow \in Nat
        /\ Windows \in Nat
    BY Bounds
  <1>2. /\ out = Start /\ queued = <<>> /\ sent = <<>>
        /\ windows = [w \in 0 .. Windows - 1 |-> 0] /\ inTransit = 0 /\ sending = FALSE
        /\ net = {} /\ acks = {}
        /\ in = Start /\ incoming = <<>> /\ dispatched = <<>>
    BY DEF Init
  <1>3. Held = {} /\ Outstanding = {} /\ \A w : InWindow(Start, w) = {}
    BY <1>2 DEF Held, Outstanding, InWindow, InUse
  <1>4. Cardinality({}) = 0
    BY FS_EmptySet
  <1>5. SInv(Start)
    <2>1. SenderTypes
      <3>1. <<>> \in Seq(Outgoing) /\ FALSE \in BOOLEAN /\ 0 \in Nat
        OBVIOUS
      <3>2. [w \in 0 .. Windows - 1 |-> 0] \in [0 .. Windows - 1 -> Nat]
        OBVIOUS
      <3> QED
        BY <1>1, <1>2, <3>1, <3>2 DEF SenderTypes
    <2>2. Queue(Start)
      BY <1>1, <1>2 DEF Queue
    <2>3. Distinct
      BY <1>2 DEF Distinct
    <2>4. Counters(Start)
      BY <1>1, <1>2, <1>3, <1>4 DEF Counters
    <2>5. Flow(Start)
      BY <1>3 DEF Flow, InUse
    <2> QED
      BY <2>1, <2>2, <2>3, <2>4, <2>5 DEF SInv
  <1>6. Flight(Start)
    BY <1>2, <1>3 DEF Flight
  <1>7. Receiver(Start)
    BY <1>1, <1>2 DEF Receiver, Listed
  <1>8. Packets
    BY <1>2, <1>3 DEF Packets, Known, ToSet
  <1>9. AckedIsHeld
    BY <1>1, <1>2 DEF AckedIsHeld, Has
  <1> QED
    BY <1>1, <1>5, <1>6, <1>7, <1>8, <1>9 DEF Inv

\* Every step keeps it.
LEMMA Step == IInv /\ [Next]_vars => IInv'
  <1> SUFFICES ASSUME IInv, [Next]_vars PROVE IInv'
    OBVIOUS
  <1>1. PICK h \in 0 .. MaxCommands : Inv(h)
    BY DEF IInv
  <1>2. h \in Nat /\ h <= MaxCommands
    BY <1>1, Bounds
  <1> SUFFICES \E k \in 0 .. MaxCommands : Inv(k)'
    BY DEF IInv
  <1>3. ASSUME NEW count \in 1 .. MaxFragments, enet_peer_send(count) PROVE Inv(h)'
    BY <1>1, <1>2, <1>3, SendSteps
  <1>4. ASSUME NEW late \in SUBSET DOMAIN sent, check_timeouts(late) PROVE Inv(h)'
    BY <1>1, <1>2, <1>4, TimeoutSteps
  <1>5. ASSUME check_outgoing_commands PROVE \E k \in 0 .. MaxCommands : Inv(k)'
    BY <1>1, <1>2, <1>5, OutgoingSteps
  <1>6. ASSUME NEW a \in acks, ReceiveAck(a) PROVE Inv(h)'
    BY <1>1, <1>2, <1>6, AckSteps
  <1>7. ASSUME NEW c \in net, ReceiveCommand(c) PROVE Inv(h)'
    BY <1>1, <1>2, <1>7, ReceiveSteps
  <1>8. ASSUME enet_peer_receive \/ Lose PROVE Inv(h)'
    BY <1>1, <1>2, <1>8, OtherSteps
  <1>9. ASSUME UNCHANGED vars PROVE Inv(h)'
    <2>1. UNCHANGED <<sender, net, acks, receiver, in, incoming, dispatched>>
      BY <1>9 DEF vars, receiver
    <2>2. SInv(h)' /\ out' = out /\ Held' = Held
      BY <1>1, <1>2, <2>1, OthersKeep DEF Inv
    <2>3. Receiver(h)' /\ \A n : Has(n)' <=> Has(n)
      BY <1>1, <1>2, <2>1, <2>2, InIs, ReceiverWaits
    <2>4. Known' \subseteq Known /\ Outstanding' = Outstanding
      BY <2>1, <2>2 DEF Known, Outstanding
    <2>5. Packets'
      BY <1>1, <1>2, <2>1, <2>4, PacketsKept DEF Inv, Packets
    <2>6. Flight(h)'
      BY <1>1, <2>1, <2>2, <2>3 DEF Inv, Flight, CmdOK
    <2>7. AckedIsHeld'
      BY <1>1, <1>2, <2>2, <2>3, <2>4, AckedKept
    <2> QED
      BY <2>2, <2>3, <2>5, <2>6, <2>7 DEF Inv
  <1> QED
    BY <1>1, <1>3, <1>4, <1>5, <1>6, <1>7, <1>8, <1>9 DEF Next

\* The invariant gives the types.
LEMMA TypesFollow == IInv => TypeOK
  <1> SUFFICES ASSUME NEW h \in 0 .. MaxCommands, Inv(h) PROVE TypeOK
    BY DEF IInv
  <1>1. h \in Nat
    BY Bounds
  <1>2. windows \in [0 .. Windows - 1 -> 0 .. WindowSize]
    BY <1>1, CountersBounded DEF Inv
  <1>3. /\ out \in 0 .. MaxCommands /\ queued \in Seq(Outgoing) /\ sent \in Seq(Outgoing)
        /\ sending \in BOOLEAN
    BY DEF Inv, SInv, SenderTypes
  <1>4. inTransit \in 0 .. DataWindow
    BY Bounds DEF Inv, SInv, SenderTypes, Counters
  <1>5. net \subseteq Command /\ acks \subseteq 1 .. MaxCommands
    BY DEF Inv, Flight
  <1>6. in \in 0 .. MaxCommands /\ incoming \in Seq(Incoming) /\ dispatched \in Seq(Incoming)
    BY DEF Inv, Receiver, Listed
  <1> QED
    BY <1>2, <1>3, <1>4, <1>5, <1>6 DEF TypeOK

\* The invariant holds in every reachable state.
LEMMA AlwaysInv == Spec => []IInv
  BY Initially, Step, PTL DEF Spec

\* Every variable keeps its type, however often the 16-bit numbers have come
\* round: no counter of a window goes above ENET_PEER_RELIABLE_WINDOW_SIZE, and
\* no data in transit above the peer's windowSize, in
\* enet_protocol_check_outgoing_commands.
THEOREM TypesAlwaysHold == Spec => []TypeOK
  BY AlwaysInv, TypesFollow, PTL

\* A command that enet_protocol_remove_sent_reliable_command has let go of is at
\* the receiver: no acknowledgement is owed for data that
\* enet_peer_queue_incoming_command has dropped, and none releases another
\* command that has its sequence number.
THEOREM AckedAlwaysHeld == Spec => []AckedIsHeld
  <1>1. IInv => AckedIsHeld
    BY DEF IInv, Inv
  <1> QED
    BY <1>1, AlwaysInv, PTL

\* reliableDataInTransit and reliableWindows count what has been sent and not
\* acknowledged: time-outs, retransmissions and late acknowledgements never
\* make them drift.
THEOREM WindowsAlwaysExact == Spec => []WindowsExact
  <1>1. IInv => WindowsExact
    <2> SUFFICES ASSUME NEW h \in 0 .. MaxCommands, Inv(h) PROVE WindowsExact
      BY DEF IInv
    <2>1. h \in Nat
      BY Bounds
    <2> QED
      BY <2>1, CountersExact DEF Inv
  <1> QED
    BY <1>1, AlwaysInv, PTL

-----------------------------------------------------------------------------
(* Sets of packets, in the order of their numbers                          *)

\* All numbers of p are below all of q.
Before(p, q) == \A n \in p, m \in q : n < m

\* Finitely many sets of numbers that can be put in a row.
Row(P) ==
    /\ IsFiniteSet(P)
    /\ \A p \in P : p \in SUBSET Nat /\ p # {}
    /\ \A p, q \in P : p = q \/ Before(p, q) \/ Before(q, p)

\* The list that Undelivered chooses.
ListOf(P) == CHOOSE s \in [1 .. Cardinality(P) -> P] : Lists(s, P)

\* A list of a row is as long as the row is large.
LEMMA ListLength ==
    ASSUME NEW P, Row(P), NEW k \in Nat, NEW s \in [1 .. k -> P], Lists(s, P)
    PROVE  /\ Cardinality(P) = k
           /\ \A i, j \in 1 .. k : s[i] = s[j] => i = j
  <1>1. ASSUME NEW i \in 1 .. k, NEW j \in 1 .. k, i < j PROVE s[i] # s[j]
    <2>1. s[i] \in P /\ s[j] \in P /\ Before(s[i], s[j])
      BY <1>1 DEF Lists, Before
    <2>2. PICK n \in s[i] : n \in Nat
      BY <2>1 DEF Row
    <2> QED
      BY <2>1, <2>2 DEF Before
  <1>2. \A i, j \in 1 .. k : s[i] = s[j] => i = j
    <2> SUFFICES ASSUME NEW i \in 1 .. k, NEW j \in 1 .. k, s[i] = s[j], i # j PROVE FALSE
      OBVIOUS
    <2>1. i < j \/ j < i
      OBVIOUS
    <2> QED
      BY <1>1, <2>1
  <1>3. IsFiniteSet(1 .. k) /\ Cardinality(1 .. k) = k
    <2>1. 1 \in Int /\ k \in Int
      OBVIOUS
    <2>2. IsFiniteSet(1 .. k) /\ Cardinality(1 .. k) = IF 1 > k THEN 0 ELSE k - 1 + 1
      BY <2>1, FS_Interval, Zenon
    <2> QED
      BY <2>2
  <1>4. s = [i \in 1 .. k |-> s[i]]
    OBVIOUS
  <1>5. Cardinality({s[i] : i \in 1 .. k}) = Cardinality(1 .. k)
    BY <1>2, <1>3, <1>4, CountOnce
  <1>6. {s[i] : i \in 1 .. k} = P
    BY DEF Lists
  <1> QED
    BY <1>2, <1>3, <1>5, <1>6

\* Two lists of a row are the same: where they differ first, each has an
\* element that the other has later.
LEMMA ListUnique ==
    ASSUME NEW P, Row(P), NEW k \in Nat, NEW s \in [1 .. k -> P], Lists(s, P),
           NEW t \in [1 .. k -> P], Lists(t, P)
    PROVE  s = t
  <1> SUFFICES ASSUME s # t PROVE FALSE
    OBVIOUS
  <1> DEFINE D == {i \in 1 .. k : s[i] # t[i]}
  <1>1. D # {} /\ D \in SUBSET Nat
    OBVIOUS
  <1>2. PICK i \in D : \A j \in D : i <= j
    BY <1>1, NatMin
  <1>3. i \in 1 .. k /\ s[i] # t[i] /\ \A j \in 1 .. k : j < i => s[j] = t[j]
    BY <1>2
  <1> HIDE DEF D
  <1>4. PICK j \in 1 .. k : t[j] = s[i]
    BY <1>3 DEF Lists
  <1>5. PICK m \in 1 .. k : s[m] = t[i]
    BY <1>3 DEF Lists
  <1>6. i < j
    <2>1. ~(j < i)
      BY <1>3, <1>4, ListLength
    <2> QED
      BY <1>3, <1>4, <2>1
  <1>7. i < m
    <2>1. ~(m < i)
      BY <1>3, <1>5, ListLength
    <2> QED
      BY <1>3, <1>5, <2>1
  <1>8. Before(t[i], s[i]) /\ Before(s[i], t[i])
    BY <1>3, <1>4, <1>5, <1>6, <1>7 DEF Lists, Before
  <1>9. PICK n \in s[i] : n \in Nat
    BY <1>3 DEF Row
  <1>10. PICK o \in t[i] : o \in Nat
    BY <1>3 DEF Row
  <1> QED
    BY <1>8, <1>9, <1>10 DEF Before

\* A row has a list: the one in the order of the least numbers.
LEMMA ListExists ==
    ASSUME NEW P, Row(P)
    PROVE  \E s \in [1 .. Cardinality(P) -> P] : Lists(s, P)
  <1> DEFINE least == [p \in P |-> First(p)]
             Q == {least[p] : p \in P}
             rank(i) == Cardinality({j \in Q : j < i}) + 1
  <1>1. \A p \in P : least[p] \in p /\ least[p] \in Nat /\ \A n \in p : least[p] <= n
    BY FirstIs DEF Row
  <1>2. least = [p \in P |-> least[p]]
    OBVIOUS
  <1> HIDE DEF least
  <1>3. \A p, q \in P : Before(p, q) => least[p] < least[q]
    BY <1>1 DEF Before
  <1>4. \A p, q \in P : least[p] = least[q] => p = q
    BY <1>1, <1>3 DEF Row
  <1>5. IsFiniteSet(Q) /\ Cardinality(Q) = Cardinality(P) /\ Q \in SUBSET Nat
    <2>1. IsFiniteSet(P)
      BY DEF Row
    <2> QED
      BY <1>1, <1>2, <1>4, <2>1, CountOnce
  <1>6. \A p \in P : least[p] \in Q
    OBVIOUS
  <1>7. \A i \in Q : \E p \in P : i = least[p]
    OBVIOUS
  <1> HIDE DEF Q
  <1>8. /\ \A n \in 1 .. Cardinality(Q) : \E i \in Q : rank(i) = n
        /\ \A i \in Q : rank(i) \in 1 .. Cardinality(Q)
        /\ \A i, j \in Q : rank(i) = rank(j) => i = j
    BY <1>5, RankExists
  <1>9. ASSUME NEW i \in Q, NEW j \in Q, j <= i PROVE rank(j) <= rank(i)
    <2> DEFINE X == {x \in Q : x < j}
               Y == {x \in Q : x < i}
    <2>1. X \in SUBSET Y /\ IsFiniteSet(Y)
      <3>1. Y \subseteq Q
        OBVIOUS
      <3>2. X \subseteq Y
        <4>1. i \in Nat /\ j \in Nat /\ \A x \in Q : x \in Nat
          BY <1>5
        <4>2. \A x \in Q : x < j => x < i
          BY <1>9, <4>1
        <4> QED
          BY <4>2
      <3> HIDE DEF X, Y
      <3> QED
        BY <1>5, <3>1, <3>2, FS_Subset
    <2> HIDE DEF X, Y
    <2>2. Cardinality(X) <= Cardinality(Y) /\ IsFiniteSet(X)
      BY <2>1, FS_Subset
    <2>3. Cardinality(X) \in Nat /\ Cardinality(Y) \in Nat
      BY <2>1, <2>2, FS_CardinalityType
    <2> QED
      BY <2>2, <2>3 DEF X, Y
  <1> HIDE DEF rank
  <1> DEFINE s == [n \in 1 .. Cardinality(P) |-> CHOOSE p \in P : rank(least[p]) = n]
  <1>10. \A n \in 1 .. Cardinality(P) : s[n] \in P /\ rank(least[s[n]]) = n
    <2> SUFFICES ASSUME NEW n \in 1 .. Cardinality(P) PROVE s[n] \in P /\ rank(least[s[n]]) = n
      OBVIOUS
    <2>1. \E p \in P : rank(least[p]) = n
      BY <1>5, <1>7, <1>8
    <2>2. s[n] = CHOOSE p \in P : rank(least[p]) = n
      OBVIOUS
    <2> HIDE DEF s
    <2> QED
      BY <2>1, <2>2
  <1>11. s \in [1 .. Cardinality(P) -> P] /\ DOMAIN s = 1 .. Cardinality(P)
    BY <1>10
  <1> HIDE DEF s
  <1>12. {s[i] : i \in DOMAIN s} = P
    <2>1. \A p \in P : \E i \in DOMAIN s : s[i] = p
      <3> SUFFICES ASSUME NEW p \in P PROVE \E i \in DOMAIN s : s[i] = p
        OBVIOUS
      <3>1. rank(least[p]) \in 1 .. Cardinality(P)
        BY <1>5, <1>6, <1>8
      <3>2. s[rank(least[p])] \in P /\ rank(least[s[rank(least[p])]]) = rank(least[p])
        BY <1>10, <3>1
      <3>3. least[s[rank(least[p])]] = least[p]
        BY <1>6, <1>8, <3>2
      <3> QED
        BY <1>4, <1>11, <3>1, <3>2, <3>3
    <2> QED
      BY <1>10, <1>11, <2>1
  <1>13. \A i, j \in DOMAIN s : i < j => Before(s[i], s[j])
    <2> SUFFICES ASSUME NEW i \in DOMAIN s, NEW j \in DOMAIN s, i < j, ~Before(s[i], s[j]) PROVE FALSE
      OBVIOUS
    <2>1. s[i] \in P /\ s[j] \in P /\ rank(least[s[i]]) = i /\ rank(least[s[j]]) = j
      BY <1>10, <1>11
    <2>2. s[i] = s[j] \/ Before(s[j], s[i])
      BY <2>1 DEF Row
    <2>3. least[s[j]] <= least[s[i]]
      BY <1>1, <1>3, <2>1, <2>2
    <2>4. j <= i
      BY <1>6, <1>9, <2>1, <2>3
    <2>5. i \in Int /\ j \in Int
      BY <1>11
    <2> QED
      BY <2>4, <2>5
  <1> QED
    BY <1>11, <1>12, <1>13 DEF Lists, Before

\* What Undelivered chooses is the list.
LEMMA ListOfIs ==
    ASSUME NEW P, Row(P)
    PROVE  /\ ListOf(P) \in Seq(P) /\ Lists(ListOf(P), P)
           /\ \A t \in Seq(P) : Lists(t, P) => t = ListOf(P)
  <1> DEFINE k == Cardinality(P)
  <1>1. ListOf(P) \in [1 .. k -> P] /\ Lists(ListOf(P), P)
    BY ListExists DEF ListOf
  <1>2. k \in Nat
    BY FS_CardinalityType DEF Row
  <1> HIDE DEF k
  <1>3. ListOf(P) \in Seq(P)
    BY <1>1, <1>2, SeqDef
  <1>4. ASSUME NEW t \in Seq(P), Lists(t, P) PROVE t = ListOf(P)
    <2>1. Len(t) \in Nat /\ t \in [1 .. Len(t) -> P]
      BY LenProperties
    <2>2. k = Len(t)
      BY <1>4, <2>1, ListLength DEF k
    <2> QED
      BY <1>1, <1>2, <1>4, <2>1, <2>2, ListUnique
  <1> QED
    BY <1>1, <1>3, <1>4

-----------------------------------------------------------------------------
(* The queue that the channel stands for                                   *)

\* What has been dispatched, as packets.
Handed(d) == [i \in DOMAIN d |-> Contents(d[i])]

\* The commands whose packets are pending.
Waiting == {d \in Held \cup ToSet(incoming) : d.start > in}

\* A packet is a set of numbers.
LEMMA WholeIs ==
    ASSUME NEW c, c.start \in Nat, c.count \in Nat, c.count >= 1
    PROVE  /\ Whole(c) \in SUBSET Nat /\ Whole(c) # {} /\ c.start \in Whole(c)
           /\ \A n \in Whole(c) : n \in Nat /\ c.start <= n /\ n <= c.start + c.count - 1
           /\ \A n \in Nat : c.start <= n /\ n <= c.start + c.count - 1 => n \in Whole(c)
  BY DEF Whole

\* A packet that ends at m at the latest is before one that begins behind m.
LEMMA BeforeIs ==
    ASSUME NEW c, c.start \in Nat, c.count \in Nat, c.count >= 1,
           NEW d, d.start \in Nat, d.count \in Nat, d.count >= 1,
           NEW m \in Int, c.start + c.count - 1 <= m, m < d.start
    PROVE  Before(Whole(c), Whole(d))
  <1> DEFINE e == c.start + c.count - 1
             t == d.start
  <1>1. /\ \A n \in Whole(c) : n \in Nat /\ n <= e
        /\ \A n \in Whole(d) : n \in Nat /\ t <= n
    BY WholeIs
  <1>2. e \in Int /\ t \in Int /\ e <= m /\ m < t
    OBVIOUS
  <1> HIDE DEF e, t
  <1>3. \A x \in Whole(c), y \in Whole(d) : x < y
    BY <1>1, <1>2
  <1> QED
    BY <1>3 DEF Before

\* What is dispatched is a sequence of sets of numbers.
LEMMA HandedIs ==
    ASSUME NEW d \in Seq(Incoming)
    PROVE  /\ Handed(d) \in Seq(SUBSET Nat) /\ Len(Handed(d)) = Len(d) /\ Len(d) \in Nat
           /\ \A i \in 1 .. Len(d) : d[i] \in Incoming /\ Handed(d)[i] = Contents(d[i])
  <1>1. /\ Len(d) \in Nat /\ DOMAIN d = 1 .. Len(d)
        /\ \A i \in 1 .. Len(d) : d[i] \in Incoming
    BY LenProperties, ElementOfSeq
  <1>2. Handed(d) = [i \in 1 .. Len(d) |-> Contents(d[i])]
    BY <1>1 DEF Handed
  <1>3. \A i \in 1 .. Len(d) : Contents(d[i]) \in SUBSET Nat
    <2> SUFFICES ASSUME NEW i \in 1 .. Len(d) PROVE Contents(d[i]) \in SUBSET Nat
      OBVIOUS
    <2> DEFINE e == d[i]
    <2>1. e.start \in Nat /\ e.got \subseteq Nat
      BY <1>1, Bounds DEF Incoming
    <2> HIDE DEF e
    <2>2. Contents(e) \in SUBSET Nat
      BY <2>1 DEF Contents
    <2> QED
      BY <2>2 DEF e
  <1>4. Handed(d) \in [1 .. Len(d) -> SUBSET Nat]
    BY <1>2, <1>3
  <1>5. Handed(d) \in Seq(SUBSET Nat)
    BY <1>1, <1>4, SeqDef
  <1>6. Len(Handed(d)) = Len(d)
    BY <1>1, <1>4, <1>5, LenProperties
  <1> QED
    BY <1>1, <1>2, <1>5, <1>6

\* Dispatching one sequence behind another.
LEMMA HandedJoined ==
    ASSUME NEW d \in Seq(Incoming), NEW e \in Seq(Incoming)
    PROVE  Handed(d \o e) = Handed(d) \o Handed(e)
  <1> DEFINE x == Handed(d \o e)
             y == Handed(d) \o Handed(e)
  <1>1. /\ d \o e \in Seq(Incoming) /\ Len(d \o e) = Len(d) + Len(e)
        /\ Len(d) \in Nat /\ Len(e) \in Nat
        /\ \A i \in 1 .. Len(d) : (d \o e)[i] = d[i]
        /\ \A i \in 1 .. (Len(d) + Len(e)) : i > Len(d) => (d \o e)[i] = e[i - Len(d)]
    BY Joined
  <1>2. /\ x \in Seq(SUBSET Nat) /\ Len(x) = Len(d \o e)
        /\ \A i \in 1 .. Len(d \o e) : x[i] = Contents((d \o e)[i])
    BY <1>1, HandedIs
  <1>3. /\ Handed(d) \in Seq(SUBSET Nat) /\ Len(Handed(d)) = Len(d)
        /\ \A i \in 1 .. Len(d) : Handed(d)[i] = Contents(d[i])
        /\ Handed(e) \in Seq(SUBSET Nat) /\ Len(Handed(e)) = Len(e)
        /\ \A i \in 1 .. Len(e) : Handed(e)[i] = Contents(e[i])
    BY HandedIs
  <1>4. /\ y \in Seq(SUBSET Nat) /\ Len(y) = Len(d) + Len(e)
        /\ \A i \in 1 .. Len(d) : y[i] = Handed(d)[i]
        /\ \A i \in 1 .. (Len(d) + Len(e)) : i > Len(d) => y[i] = Handed(e)[i - Len(d)]
    <2>0. Handed(d) \in Seq(SUBSET Nat) /\ Handed(e) \in Seq(SUBSET Nat)
      BY <1>3
    <2>1. /\ y \in Seq(SUBSET Nat) /\ Len(y) = Len(Handed(d)) + Len(Handed(e))
          /\ \A i \in 1 .. Len(Handed(d)) : y[i] = Handed(d)[i]
          /\ \A i \in 1 .. (Len(Handed(d)) + Len(Handed(e))) :
                i > Len(Handed(d)) => y[i] = Handed(e)[i - Len(Handed(d))]
      BY <2>0, Joined
    <2> HIDE DEF y
    <2> QED
      BY <1>3, <2>1
  <1> HIDE DEF x, y
  <1>5. \A i \in 1 .. Len(x) : x[i] = y[i]
    <2> SUFFICES ASSUME NEW i \in 1 .. (Len(d) + Len(e)) PROVE x[i] = y[i]
      BY <1>1, <1>2
    <2>1. CASE i <= Len(d)
      <3>1. i \in 1 .. Len(d)
        BY <1>1, <2>1
      <3> QED
        BY <1>1, <1>2, <1>3, <1>4, <3>1
    <2>2. CASE i > Len(d)
      <3>1. i - Len(d) \in 1 .. Len(e)
        BY <1>1, <2>2
      <3> QED
        BY <1>1, <1>2, <1>3, <1>4, <2>2, <3>1
    <2> QED
      BY <1>1, <2>1, <2>2
  <1>6. x = y
    BY <1>1, <1>2, <1>4, <1>5, SeqEqual
  <1> QED
    BY <1>6 DEF x, y

\* Packets that are the same or apart make a row.
LEMMA RowIs ==
    ASSUME NEW A, NEW m \in Nat,
           \A c \in A : /\ c.start \in Nat /\ c.count \in Nat /\ c.count >= 1
                        /\ c.start + c.count - 1 <= m,
           \A c, d \in A : Fits(c, d)
    PROVE  /\ Row({Whole(c) : c \in A})
           /\ \A p \in {Whole(c) : c \in A} : \A n \in p : n <= m
  <1> DEFINE P == {Whole(c) : c \in A}
  <1>1. \A c \in A : /\ Whole(c) \in SUBSET Nat /\ Whole(c) # {}
                     /\ \A n \in Whole(c) : n \in Nat /\ c.start <= n /\ n <= c.start + c.count - 1
    BY WholeIs
  <1>2. \A c \in A : \A n \in Whole(c) : n <= m
    <2> SUFFICES ASSUME NEW c \in A, NEW n \in Whole(c) PROVE n <= m
      OBVIOUS
    <2> DEFINE s == c.start
               k == c.count
    <2>1. s \in Nat /\ k \in Nat /\ s + k - 1 <= m /\ n \in Nat /\ n <= s + k - 1
      BY <1>1
    <2> HIDE DEF s, k
    <2> QED
      BY <2>1
  <1>3. ASSUME NEW c \in A, NEW d \in A
        PROVE  Whole(c) = Whole(d) \/ Before(Whole(c), Whole(d)) \/ Before(Whole(d), Whole(c))
    <2> DEFINE s == c.start
               k == c.count
               t == d.start
               l == d.count
    <2>1. s \in Nat /\ k \in Nat /\ t \in Nat /\ l \in Nat
      OBVIOUS
    <2>2. /\ \A n \in Whole(c) : n \in Nat /\ s <= n /\ n <= s + k - 1
          /\ \A n \in Whole(d) : n \in Nat /\ t <= n /\ n <= t + l - 1
      BY <1>1
    <2>3. (s = t /\ k = l) \/ s + k <= t \/ t + l <= s
      BY DEF Fits
    <2>4. s = t /\ k = l => Whole(c) = Whole(d)
      BY DEF Whole
    <2> HIDE DEF s, k, t, l
    <2>5. s + k <= t => Before(Whole(c), Whole(d))
      BY <2>1, <2>2 DEF Before
    <2>6. t + l <= s => Before(Whole(d), Whole(c))
      BY <2>1, <2>2 DEF Before
    <2> QED
      BY <2>3, <2>4, <2>5, <2>6
  <1>4. IsFiniteSet(P)
    <2>1. IsFiniteSet(0 .. m)
      BY FS_Interval
    <2>2. IsFiniteSet(SUBSET (0 .. m))
      BY <2>1, FS_SUBSET
    <2>3. P \subseteq SUBSET (0 .. m)
      BY <1>1, <1>2
    <2> HIDE DEF P
    <2> QED
      BY <2>2, <2>3, FS_Subset
  <1>5. \A p \in P : p \in SUBSET Nat /\ p # {}
    BY <1>1
  <1>6. \A p, q \in P : p = q \/ Before(p, q) \/ Before(q, p)
    BY <1>3
  <1> HIDE DEF P
  <1>7. Row(P)
    BY <1>4, <1>5, <1>6 DEF Row
  <1> QED
    BY <1>2, <1>7 DEF P

\* The pending packets make a row, and their list is one of sets of numbers.
LEMMA PendingIs ==
    ASSUME NEW h \in Nat, Inv(h)
    PROVE  /\ Pending = {Whole(c) : c \in Waiting} /\ Row(Pending)
           /\ \A p \in Pending : \A n \in p : n <= out
           /\ ListOf(Pending) \in Seq(SUBSET Nat) /\ ListOf(Pending) \in Seq(Pending)
           /\ Lists(ListOf(Pending), Pending)
           /\ Handed(dispatched) \in Seq(SUBSET Nat) /\ dispatched \in Seq(Incoming)
           /\ Undelivered = Handed(dispatched) \o ListOf(Pending)
  <1>1. Waiting \subseteq Known
    BY DEF Waiting, Known
  <1>2. out \in Nat
    BY InIs
  <1>3. \A c \in Waiting : /\ c.start \in Nat /\ c.count \in Nat /\ c.count >= 1
                           /\ c.start + c.count - 1 <= out
    BY <1>1, KnownIs, Bounds
  <1>4. \A c, d \in Waiting : Fits(c, d)
    BY <1>1 DEF Inv, Packets
  <1>5. Pending = {Whole(c) : c \in Waiting}
    BY DEF Pending, Waiting
  <1>6. Row(Pending) /\ \A p \in Pending : \A n \in p : n <= out
    BY <1>2, <1>3, <1>4, <1>5, RowIs
  <1>7. ListOf(Pending) \in Seq(Pending) /\ Lists(ListOf(Pending), Pending)
    BY <1>6, ListOfIs
  <1>8. Pending \subseteq SUBSET Nat
    BY <1>6 DEF Row
  <1>9. ListOf(Pending) \in Seq(SUBSET Nat)
    BY <1>7, <1>8, SeqMonotonic
  <1>10. dispatched \in Seq(Incoming)
    BY DEF Inv, Receiver
  <1>11. Undelivered = Handed(dispatched) \o ListOf(Pending)
    BY DEF Undelivered, Handed, ListOf
  <1> QED
    BY <1>5, <1>6, <1>7, <1>9, <1>10, <1>11, HandedIs

\* Steps that leave what is held and what is received alone leave the queue.
LEMMA SameQueue ==
    ASSUME Held' = Held, UNCHANGED receiver
    PROVE  UNCHANGED Undelivered
  <1>1. in' = in /\ incoming' = incoming /\ dispatched' = dispatched
    BY DEF receiver
  <1>2. Pending' = Pending
    BY <1>1 DEF Pending, ToSet
  <1> QED
    BY <1>1, <1>2 DEF Undelivered

\* enet_peer_send puts its packet at the end of the queue.
LEMMA SendQueues ==
    ASSUME NEW h \in Nat, Inv(h), NEW count \in 1 .. MaxFragments, enet_peer_send(count)
    PROVE  Fifo!Send
  <1> DEFINE new == {[n |-> out + i, start |-> out + 1, count |-> count] : i \in 1 .. count}
             p == Whole([start |-> out + 1, count |-> count])
             old == ListOf(Pending)
  <1>1. Held' = Held \cup new /\ UNCHANGED receiver
    BY SendKeeps DEF Inv, enet_peer_send
  <1>2. /\ in \in Nat /\ out \in Nat /\ in <= out /\ count \in Nat /\ count >= 1
        /\ out + count <= MaxCommands
    <2>1. out \in Nat /\ in \in Nat /\ in <= h /\ h <= out /\ MaxFragments \in Nat
      BY InIs, Bounds
    <2>2. out + count <= MaxCommands
      BY DEF enet_peer_send
    <2> QED
      BY <2>1, <2>2
  <1>3. p = out + 1 .. out + count
    <2>1. p = out + 1 .. (out + 1) + count - 1
      BY DEF Whole
    <2>2. (out + 1) + count - 1 = out + count
      BY <1>2
    <2> QED
      BY <2>1, <2>2
  <1>4. \A c \in new : c.start = out + 1 /\ c.count = count /\ Whole(c) = p
    BY DEF Whole
  <1>5. \E c \in new : TRUE
    <2>1. 1 \in 1 .. count
      BY <1>2
    <2> QED
      BY <2>1
  <1> HIDE DEF new, p
  <1>6. Pending' = Pending \cup {p}
    <2>1. Pending' = {Whole(c) : c \in {d \in Held' \cup ToSet(incoming)' : d.start > in'}}
      BY DEF Pending
    <2>2. in' = in /\ ToSet(incoming)' = ToSet(incoming)
      BY <1>1 DEF receiver, ToSet
    <2>3. \A c \in new : c.start > in
      BY <1>2, <1>4
    <2>4. Pending' = {Whole(c) : c \in {d \in Held \cup ToSet(incoming) : d.start > in} \cup new}
      BY <1>1, <2>1, <2>2, <2>3
    <2>5. {Whole(c) : c \in new} = {p}
      BY <1>4, <1>5
    <2> QED
      BY <2>4, <2>5 DEF Pending
  <1>7. /\ Row(Pending) /\ \A q \in Pending : \A n \in q : n <= out
        /\ old \in Seq(SUBSET Nat) /\ old \in Seq(Pending) /\ Lists(old, Pending)
        /\ Handed(dispatched) \in Seq(SUBSET Nat)
        /\ Undelivered = Handed(dispatched) \o old
    BY PendingIs
  <1> HIDE DEF old
  <1>8. p \in SUBSET Nat /\ p # {} /\ \A n \in p : n \in Nat /\ n > out
    BY <1>2, <1>3
  <1>9. \A q \in Pending : Before(q, p)
    BY <1>2, <1>7, <1>8 DEF Before, Row
  <1>10. Row(Pending')
    <2>1. IsFiniteSet(Pending \cup {p})
      BY <1>7, FS_AddElement DEF Row
    <2>2. \A q \in Pending' : q \in SUBSET Nat /\ q # {}
      BY <1>6, <1>7, <1>8 DEF Row
    <2>3. \A q, r \in Pending' : q = r \/ Before(q, r) \/ Before(r, q)
      BY <1>6, <1>7, <1>9 DEF Row
    <2> QED
      BY <1>6, <2>1, <2>2, <2>3 DEF Row
  <1> DEFINE all == Append(old, p)
  <1>11. /\ all \in Seq(Pending') /\ all \in Seq(SUBSET Nat) /\ Len(all) = Len(old) + 1 /\ Len(old) \in Nat
         /\ DOMAIN old = 1 .. Len(old) /\ DOMAIN all = 1 .. (Len(old) + 1)
         /\ \A i \in 1 .. Len(old) : all[i] = old[i] /\ old[i] \in Pending
         /\ all[Len(old) + 1] = p
    <2>1. old \in Seq(Pending') /\ p \in Pending'
      <3>1. Pending \subseteq Pending'
        BY <1>6
      <3> QED
        BY <1>6, <1>7, <3>1, SeqMonotonic
    <2>2. /\ all \in Seq(Pending') /\ Len(all) = Len(old) + 1
          /\ \A i \in 1 .. Len(old) : all[i] = old[i]
          /\ all[Len(old) + 1] = p
      BY <2>1, AppendProperties
    <2>3. all \in Seq(SUBSET Nat)
      BY <1>7, <1>8, AppendProperties
    <2>4. Len(old) \in Nat /\ DOMAIN old = 1 .. Len(old) /\ DOMAIN all = 1 .. Len(all)
      BY <1>7, <2>2, LenProperties
    <2>5. \A i \in 1 .. Len(old) : old[i] \in Pending
      BY <1>7, ElementOfSeq
    <2> QED
      BY <2>2, <2>3, <2>4, <2>5
  <1> HIDE DEF all
  <1>12. Lists(all, Pending')
    <2>1. {all[i] : i \in DOMAIN all} = Pending'
      <3>1. \A q \in Pending' : \E i \in DOMAIN all : all[i] = q
        <4>1. \A q \in Pending : \E i \in DOMAIN old : old[i] = q
          BY <1>7 DEF Lists
        <4>2. \A i \in DOMAIN old : i \in DOMAIN all /\ all[i] = old[i]
          BY <1>11
        <4>3. Len(old) + 1 \in DOMAIN all
          BY <1>11
        <4> QED
          BY <1>6, <1>11, <4>1, <4>2, <4>3
      <3>2. \A i \in DOMAIN all : all[i] \in Pending'
        BY <1>6, <1>11
      <3> QED
        BY <3>1, <3>2
    <2>2. \A i, j \in DOMAIN all : i < j => Before(all[i], all[j])
      <3> SUFFICES ASSUME NEW i \in DOMAIN all, NEW j \in DOMAIN all, i < j
                   PROVE  Before(all[i], all[j])
        OBVIOUS
      <3>1. i \in 1 .. Len(old)
        BY <1>11
      <3>2. CASE j \in 1 .. Len(old)
        <4>1. Before(old[i], old[j])
          BY <1>7, <1>11, <3>1, <3>2 DEF Lists, Before
        <4> QED
          BY <1>11, <3>1, <3>2, <4>1
      <3>3. CASE j = Len(old) + 1
        BY <1>9, <1>11, <3>1, <3>3
      <3> QED
        BY <1>11, <3>2, <3>3
    <2> QED
      BY <2>1, <2>2 DEF Lists, Before
  <1>13. all = ListOf(Pending')
    BY <1>10, <1>11, <1>12, ListOfIs
  <1>14. Undelivered' = Append(Undelivered, p)
    <2>1. Undelivered' = Handed(dispatched') \o ListOf(Pending')
      BY DEF Undelivered, Handed, ListOf
    <2>2. dispatched' = dispatched
      BY <1>1 DEF receiver
    <2>3. Undelivered' = Handed(dispatched) \o (old \o <<p>>)
      <3>1. all = old \o <<p>>
        BY <1>7, <1>8, AppendIsConcat DEF all
      <3> QED
        BY <1>13, <2>1, <2>2, <3>1
    <2>4. <<p>> \in Seq(SUBSET Nat)
      BY <1>8
    <2>5. Undelivered' = Undelivered \o <<p>> /\ Undelivered \in Seq(SUBSET Nat)
      BY <1>7, <2>3, <2>4, ConcatAssociative, ConcatProperties
    <2> QED
      BY <1>8, <2>5, AppendIsConcat
  <1>15. p \in {Whole([start |-> s, count |-> k]) : s \in 1 .. MaxCommands, k \in 1 .. MaxFragments}
    <2>1. out + 1 \in 1 .. MaxCommands
      BY <1>2, Bounds
    <2> QED
      BY <2>1 DEF p
  <1> QED
    BY <1>14, <1>15 DEF Fifo!Send

\* An acknowledgement takes no packet out of the queue: the receiver has one
\* that is not done with.
LEMMA AckQueues ==
    ASSUME NEW h \in Nat, Inv(h), NEW a \in acks, ReceiveAck(a)
    PROVE  UNCHANGED Undelivered
  <1>1. ~sending /\ handle_acknowledge(a) /\ UNCHANGED receiver
    BY DEF ReceiveAck
  <1>2. a \in Nat /\ a <= h /\ h < a + MaxAge /\ Has(a)
    BY Bounds DEF Inv, Flight
  <1>3. Held' = Held \/ \E c \in Held : c.n = a /\ Held' = Held \ {c}
    BY <1>1, <1>2, AckKeeps DEF Inv
  <1>4. CASE Held' = Held
    BY <1>1, <1>4, SameQueue
  <1>5. CASE \E c \in Held : c.n = a /\ Held' = Held \ {c}
    <2>1. PICK c \in Held : c.n = a /\ Held' = Held \ {c}
      BY <1>5
    <2>2. in' = in /\ ToSet(incoming)' = ToSet(incoming) /\ dispatched' = dispatched
      BY <1>1 DEF receiver, ToSet
    <2>3. c \in Known /\ CmdOK(c) /\ c.start \in Nat /\ c.count \in Nat /\ c.count >= 1 /\ in \in Nat
      <3>1. c \in Known /\ CmdOK(c)
        BY DEF Known, Inv, Flight
      <3> QED
        BY <3>1, KnownIs, Bounds, InIs
    <2>4. c.start > in => \E x \in ToSet(incoming) : x.start > in /\ Whole(x) = Whole(c)
      <3> SUFFICES ASSUME c.start > in
                   PROVE  \E x \in ToSet(incoming) : x.start > in /\ Whole(x) = Whole(c)
        OBVIOUS
      <3>1. c.start <= a /\ a < c.start + c.count
        BY <2>1, <2>3 DEF CmdOK
      <3>2. ~(a <= in)
        BY <1>2, <2>3, <3>1
      <3>3. PICK i \in DOMAIN incoming : a >= incoming[i].start /\ a - incoming[i].start \in incoming[i].got
        BY <1>2, <3>2 DEF Has
      <3>4. /\ incoming[i] \in Known /\ incoming[i].start \in Nat /\ incoming[i].count \in Nat
            /\ a - incoming[i].start < incoming[i].count /\ in < incoming[i].start
        <4>1. \A g \in incoming[i].got : g < incoming[i].count
          BY DEF Inv, Receiver, Listed
        <4> QED
          BY <3>3, <4>1, InIs
      <3>5. Fits(incoming[i], c)
        BY <2>3, <3>4 DEF Inv, Packets
      <3> DEFINE s == incoming[i].start
                 k == incoming[i].count
                 t == c.start
                 l == c.count
      <3>6. (s = t /\ k = l) \/ s + k <= t \/ t + l <= s
        BY <3>5 DEF Fits
      <3>7. s \in Nat /\ k \in Nat /\ t \in Nat /\ l \in Nat /\ a - s < k /\ s <= a /\ t <= a /\ a < t + l
        BY <2>3, <3>1, <3>3, <3>4
      <3> HIDE DEF s, k, t, l
      <3>8. s = t /\ k = l
        BY <1>2, <3>6, <3>7
      <3>9. Whole(incoming[i]) = Whole(c)
        BY <3>8 DEF s, k, t, l, Whole
      <3>10. incoming[i].start > in /\ incoming[i] \in ToSet(incoming)
        BY <2>3, <3>4 DEF ToSet
      <3> QED
        BY <3>9, <3>10
    <2>5. Pending' = Pending
      <3> DEFINE A == {d \in Held \cup ToSet(incoming) : d.start > in}
                 B == {d \in (Held \ {c}) \cup ToSet(incoming) : d.start > in}
      <3>1. Pending = {Whole(d) : d \in A} /\ Pending' = {Whole(d) : d \in B}
        BY <2>1, <2>2 DEF Pending
      <3>2. B \subseteq A
        OBVIOUS
      <3>3. \A d \in A : \E x \in B : Whole(x) = Whole(d)
        BY <2>4
      <3> HIDE DEF A, B
      <3> QED
        BY <3>1, <3>2, <3>3
    <2> QED
      BY <2>2, <2>5 DEF Undelivered
  <1> QED
    BY <1>3, <1>4, <1>5

\* Three lists of packets can be joined in either order.
LEMMA Regroup ==
    ASSUME NEW a \in Seq(SUBSET Nat), NEW b \in Seq(SUBSET Nat), NEW c \in Seq(SUBSET Nat)
    PROVE  (a \o b) \o c = a \o (b \o c)
  <1> DEFINE S == SUBSET Nat
  <1>1. a \in Seq(S) /\ b \in Seq(S) /\ c \in Seq(S)
    OBVIOUS
  <1> HIDE DEF S
  <1> QED
    BY <1>1, ConcatAssociative

\* enet_peer_receive takes the first packet.
LEMMA ReceiveQueues ==
    ASSUME NEW h \in Nat, Inv(h), enet_peer_receive
    PROVE  Fifo!Receive
  <1> DEFINE d == dispatched
             l == ListOf(Pending)
  <1>1. d # <<>> /\ dispatched' = Tail(d) /\ UNCHANGED <<sender, in, incoming>>
    BY DEF enet_peer_receive
  <1>2. Held' = Held /\ ToSet(incoming)' = ToSet(incoming) /\ in' = in
    BY <1>1, OthersKeep DEF Inv, ToSet
  <1>3. Pending' = Pending
    BY <1>2 DEF Pending
  <1>4. /\ l \in Seq(SUBSET Nat) /\ d \in Seq(Incoming)
        /\ Undelivered = Handed(d) \o l
    BY PendingIs
  <1>5. Undelivered' = Handed(Tail(d)) \o l
    BY <1>1, <1>3 DEF Undelivered, Handed, ListOf
  <1> HIDE DEF d, l
  <1>6. Head(d) \in Incoming /\ Tail(d) \in Seq(Incoming) /\ d = <<Head(d)>> \o Tail(d)
    <2>1. Head(d) \in Incoming /\ Tail(d) \in Seq(Incoming)
      BY <1>1, <1>4, HeadTailProperties
    <2>2. d = <<Head(d)>> \o Tail(d)
      BY <1>1, <1>4
    <2> QED
      BY <2>1, <2>2
  <1>7. <<Head(d)>> \in Seq(Incoming) /\ Handed(<<Head(d)>>) = <<Contents(Head(d))>>
    BY <1>6 DEF Handed
  <1> DEFINE f == Handed(<<Head(d)>>)
             r == Handed(Tail(d))
  <1>8. Handed(d) = f \o r /\ f \in Seq(SUBSET Nat) /\ r \in Seq(SUBSET Nat)
    BY <1>6, <1>7, HandedJoined, HandedIs
  <1>9. f = <<Contents(Head(d))>>
    BY <1>7
  <1> HIDE DEF f, r
  <1>10. Undelivered = f \o (r \o l) /\ r \o l \in Seq(SUBSET Nat)
    <2>1. Undelivered = (f \o r) \o l
      BY <1>4, <1>8
    <2>2. f \in Seq(SUBSET Nat) /\ r \in Seq(SUBSET Nat) /\ l \in Seq(SUBSET Nat)
      BY <1>4, <1>8
    <2>3. (f \o r) \o l = f \o (r \o l)
      BY <2>2, Regroup, Zenon
    <2>4. r \o l \in Seq(SUBSET Nat)
      BY <2>2, ConcatProperties
    <2> QED
      BY <2>1, <2>3, <2>4
  <1>11. Undelivered # <<>> /\ Tail(Undelivered) = r \o l
    BY <1>9, <1>10
  <1> QED
    BY <1>5, <1>11 DEF Fifo!Receive, r

\* The first k packets of list are those that are dispatched: by the test of
\* the code, they follow each other.
Chain(m, list, k) ==
    \A j \in 1 .. k : Complete(list[j]) /\ SeqNo(list[j].start) = SeqNo(End(m, list, j - 1) + 1)

\* They do follow each other.
Gapless(m, list, k) ==
    \A j \in 1 .. k : End(m, list, j - 1) \in Nat /\ list[j].start = End(m, list, j - 1) + 1

\* A packet that begins behind m and not behind n.
Begins(c, m, n) == c.start \in Nat /\ c.count \in Nat /\ c.count >= 1 /\ m < c.start /\ c.start <= n

\* The packets dispatched at once follow each other without a gap.
LEMMA Chained ==
    ASSUME NEW h \in Nat, Inv(h), NEW list, Listed(list, h), NEW k \in 0 .. Len(list),
           Chain(in, list, k)
    PROVE  Gapless(in, list, k)
  <1> SUFFICES ASSUME NEW j \in 1 .. k
               PROVE  End(in, list, j - 1) \in Nat /\ list[j].start = End(in, list, j - 1) + 1
    BY DEF Gapless
  <1>1. in \in Nat /\ in <= h
    BY InIs
  <1>2. /\ Len(list) \in Nat /\ DOMAIN list = 1 .. Len(list)
        /\ \A i \in DOMAIN list :
             /\ list[i].start \in Nat /\ list[i].count \in Nat /\ list[i].count >= 1
             /\ in < list[i].start /\ list[i].start <= h
             /\ Complete(list[i]) => list[i].start + list[i].count - 1 <= h
    BY <1>1, ListedIs
  <1>3. j \in DOMAIN list /\ list[j].start \in Nat /\ in < list[j].start /\ list[j].start <= h
    <2>1. j \in 1 .. Len(list)
      BY <1>2
    <2> QED
      BY <1>2, <2>1
  <1>4. End(in, list, j - 1) \in Nat /\ in <= End(in, list, j - 1) /\ End(in, list, j - 1) <= h
    <2>1. CASE j = 1
      BY <1>1, <2>1 DEF End
    <2>2. CASE j # 1
      <3> DEFINE i == j - 1
                 s == list[i].start
                 c == list[i].count
      <3>1. i \in 1 .. k /\ i \in 1 .. Len(list) /\ i # 0
        BY <1>2, <2>2
      <3>2. s \in Nat /\ c \in Nat /\ c >= 1 /\ in < s /\ s + c - 1 <= h
        BY <1>2, <3>1 DEF Chain
      <3>3. End(in, list, i) = s + c - 1
        BY <3>1 DEF End
      <3> HIDE DEF s, c
      <3>4. End(in, list, i) \in Nat /\ in <= End(in, list, i) /\ End(in, list, i) <= h
        BY <1>1, <3>2, <3>3
      <3> QED
        BY <3>4
    <2> QED
      BY <2>1, <2>2
  <1>5. h - in < FreeWindows * WindowSize /\ FreeWindows * WindowSize < Modulus
        /\ Modulus \in Nat /\ FreeWindows * WindowSize \in Nat
    BY Reach, AgeIsLess, Bounds
  <1> DEFINE n == list[j].start
             m == End(in, list, j - 1) + 1
             free == FreeWindows * WindowSize
  <1>6. n \in Nat /\ m \in Nat /\ in < n /\ n <= h /\ in < m /\ m <= h + 1 /\ h - in < free
        /\ free < Modulus /\ free \in Nat /\ SeqNo(n) = SeqNo(m)
    <2>1. SeqNo(n) = SeqNo(m)
      BY <1>1 DEF Chain
    <2> DEFINE e == End(in, list, j - 1)
    <2>2. e \in Nat /\ in <= e /\ e <= h /\ n \in Nat /\ in < n /\ n <= h
      BY <1>3, <1>4
    <2>3. h - in < free /\ free < Modulus /\ free \in Nat
      BY <1>5
    <2>4. m = e + 1
      OBVIOUS
    <2> HIDE DEF n, e, m, free
    <2> QED
      BY <1>1, <2>1, <2>2, <2>3, <2>4
  <1> HIDE DEF n, m, free
  <1>7. n - m < Modulus /\ m - n < Modulus
    BY <1>1, <1>5, <1>6
  <1>8. n = m
    BY <1>6, <1>7, NearSame
  <1> QED
    BY <1>4, <1>8 DEF n, m

\* A packet that begins among those dispatched at once is one of them.
LEMMA Passed ==
    ASSUME NEW h \in Nat, Inv(h), NEW list, Listed(list, h), NEW k \in 1 .. Len(list),
           Gapless(in, list, k), NEW c, Begins(c, in, End(in, list, k)),
           \A j \in 1 .. k : Fits(c, list[j])
    PROVE  \E j \in 1 .. k : Whole(c) = Whole(list[j])
  <1>0. /\ \A j \in 1 .. k : End(in, list, j - 1) \in Nat /\ list[j].start = End(in, list, j - 1) + 1
        /\ c.start \in Nat /\ c.count \in Nat /\ c.count >= 1
        /\ c.start > in /\ c.start <= End(in, list, k)
    BY DEF Gapless, Begins
  <1>1. in \in Nat
    BY InIs
  <1>2. /\ Len(list) \in Nat /\ DOMAIN list = 1 .. Len(list)
        /\ \A i \in DOMAIN list :
             /\ list[i].start \in Nat /\ list[i].count \in Nat /\ list[i].count >= 1
    BY <1>1, ListedIs
  <1> DEFINE D == {j \in 1 .. k : c.start <= End(in, list, j)}
  <1>3. D \in SUBSET Nat /\ D # {}
    <2>1. k \in 1 .. k
      BY <1>2
    <2>2. k \in D
      BY <1>0, <2>1
    <2>3. D \subseteq 1 .. k
      OBVIOUS
    <2> HIDE DEF D
    <2>4. D \in SUBSET Nat
      BY <1>2, <2>3
    <2> QED
      BY <2>2, <2>4
  <1>4. PICK j \in D : \A i \in D : j <= i
    BY <1>3, NatMin
  <1>5. /\ j \in 1 .. k /\ c.start <= End(in, list, j) /\ j \in DOMAIN list
        /\ \A i \in 1 .. k : i < j => ~(c.start <= End(in, list, i))
    BY <1>2, <1>4
  <1> HIDE DEF D
  <1>6. End(in, list, j - 1) < c.start
    <2>1. CASE j = 1
      BY <1>0, <2>1 DEF End
    <2>2. CASE j # 1
      <3>1. j - 1 \in 1 .. k /\ j - 1 < j
        BY <1>5, <2>2
      <3>2. ~(c.start <= End(in, list, j - 1)) /\ End(in, list, j - 1) \in Nat
        BY <1>0, <1>5, <3>1
      <3> QED
        BY <1>0, <3>2
    <2> QED
      BY <2>1, <2>2
  <1> DEFINE s == list[j].start
             d == list[j].count
             t == c.start
             e == c.count
             p == End(in, list, j - 1)
  <1>7. s \in Nat /\ d \in Nat /\ d >= 1 /\ s = p + 1 /\ p \in Nat /\ p < t /\ t \in Nat /\ e \in Nat /\ e >= 1
    BY <1>0, <1>2, <1>5, <1>6
  <1>8. t <= s + d - 1
    <2>1. j # 0
      BY <1>5
    <2> QED
      BY <1>5, <2>1 DEF End
  <1>9. (t = s /\ e = d) \/ t + e <= s \/ s + d <= t
    BY <1>5 DEF Fits
  <1> HIDE DEF s, d, t, e, p
  <1>10. t = s /\ e = d
    BY <1>7, <1>8, <1>9
  <1> QED
    BY <1>5, <1>10 DEF s, d, t, e, Whole

\* enet_peer_dispatch_incoming_reliable_commands moves packets from what is
\* pending to what is dispatched, and leaves the queue as it was.
LEMMA DispatchQueues ==
    ASSUME NEW h \in Nat, h <= MaxCommands, Inv(h), Inv(h)', UNCHANGED sender,
           NEW list, Listed(list, h), dispatch_incoming_reliable_commands(list),
           Alike(ToSet(incoming), ToSet(list)), Alike(ToSet(list), Held \cup ToSet(incoming))
    PROVE  UNCHANGED Undelivered
  <1> DEFINE V == Held \cup ToSet(list)
             A == {c \in V : c.start > in}
             P == {Whole(c) : c \in A}
  <1>1. /\ in \in Nat /\ in <= h /\ out \in Nat /\ out' = out /\ Held' = Held
    BY InIs, OthersKeep DEF Inv
  <1>2. /\ Len(list) \in Nat /\ DOMAIN list = 1 .. Len(list) /\ list \in Seq(Incoming)
        /\ \A i \in DOMAIN list :
             /\ list[i] \in Incoming /\ list[i].start \in Nat /\ list[i].count \in Nat
             /\ list[i].count >= 1
             /\ in < list[i].start
             /\ Complete(list[i]) => list[i].got = 0 .. list[i].count - 1
    BY <1>1, ListedIs
  <1>3. \A x, y : x.start = y.start /\ x.count = y.count => Whole(x) = Whole(y)
    BY DEF Whole
  <1>4. \A x \in V : \E y \in Known : y.start = x.start /\ y.count = x.count
    <2>1. Held \subseteq Known /\ ToSet(incoming) \subseteq Known
      BY DEF Known
    <2> QED
      BY <2>1 DEF Alike
  <1>5. /\ \A x \in V : /\ x.start \in Nat /\ x.count \in Nat /\ x.count >= 1
                        /\ x.start + x.count - 1 <= out
        /\ \A x, y \in V : Fits(x, y)
        /\ \A x \in V : x.start > in \/ x.start + x.count - 1 <= in
    <2>1. \A x \in Known : /\ x.start \in Nat /\ x.count \in Nat /\ x.count >= 1
                           /\ x.start + x.count - 1 <= out
      BY KnownIs, Bounds
    <2>2. /\ \A x, y \in Known : Fits(x, y)
          /\ \A x \in Known : x.start > in \/ x.start + x.count - 1 <= in
      BY DEF Inv, Packets
    <2> HIDE DEF V
    <2>3. \A x \in V : /\ x.start \in Nat /\ x.count \in Nat /\ x.count >= 1
                       /\ x.start + x.count - 1 <= out
                       /\ x.start > in \/ x.start + x.count - 1 <= in
      BY <1>4, <2>1, <2>2
    <2>4. \A x, y \in V : Fits(x, y)
      BY <1>4, <2>2 DEF Fits
    <2> QED
      BY <2>3, <2>4
  <1>6. Pending = P
    <2> DEFINE B == {d \in Held \cup ToSet(incoming) : d.start > in}
    <2>1. Pending = {Whole(d) : d \in B}
      BY DEF Pending
    <2>2. \A x \in A : \E y \in B : y.start = x.start /\ y.count = x.count
      BY DEF Alike
    <2>3. \A x \in B : \E y \in A : y.start = x.start /\ y.count = x.count
      BY DEF Alike
    <2> HIDE DEF A, B
    <2> QED
      BY <1>3, <2>1, <2>2, <2>3
  <1>7. PICK k \in 0 .. Len(list) :
              /\ in' = End(in, list, k)
              /\ incoming' = SubSeq(list, k + 1, Len(list))
              /\ dispatched' = dispatched \o SubSeq(list, 1, k)
              /\ \A j \in 1 .. k : /\ Complete(list[j])
                                   /\ SeqNo(list[j].start) = SeqNo(End(in, list, j - 1) + 1)
    BY <1>2, DispatchTakes
  <1> DEFINE a == SubSeq(list, 1, k)
  <1>8. /\ a \in Seq(Incoming) /\ Len(a) = k /\ \A i \in 1 .. k : a[i] = list[i]
    BY <1>2, TwoParts
  <1>9. /\ DOMAIN incoming' = 1 .. (Len(list) - k)
        /\ \A i \in 1 .. (Len(list) - k) : incoming'[i] = list[i + k] /\ i + k \in DOMAIN list
    <2>1. /\ DOMAIN SubSeq(list, k + 1, Len(list)) = 1 .. (Len(list) - k)
          /\ \A i \in 1 .. (Len(list) - k) :
                SubSeq(list, k + 1, Len(list))[i] = list[i + k] /\ i + k \in DOMAIN list
      <3>1. list \in Seq(Incoming)
        BY <1>2
      <3> QED
        BY <3>1, TwoParts
    <2> QED
      BY <1>7, <2>1
  <1>10. dispatched' = dispatched \o a
    BY <1>7
  <1> HIDE DEF a
  <1>11. Gapless(in, list, k)
    <2>1. Chain(in, list, k)
      BY <1>7 DEF Chain
    <2> HIDE DEF V, A, P
    <2> QED
      BY <2>1, Chained
  <1>12. \A j \in 1 .. k : j \in DOMAIN list /\ list[j] \in V
    <2>1. \A j \in 1 .. k : j \in 1 .. Len(list)
      BY <1>2
    <2>2. \A j \in DOMAIN list : list[j] \in ToSet(list)
      BY DEF ToSet
    <2> QED
      BY <1>2, <2>1, <2>2
  <1>13. in <= in' /\ in' \in Nat /\ \A c \in V : c.start > in' \/ c.start + c.count - 1 <= in'
    <2>1. UNCHANGED out /\ ToSet(list) \subseteq V
      BY <1>1
    <2>2. \A c \in V : c.start \in Nat /\ c.count \in Nat /\ c.count >= 1
      BY <1>5
    <2> HIDE DEF V
    <2>3. in <= in' /\ \A c \in V : c.start > in' \/ c.start + c.count - 1 <= in'
      BY <1>5, <2>1, <2>2, DispatchKeeps
    <2>4. in' \in Nat
      BY Bounds DEF Inv, Receiver
    <2> QED
      BY <2>3, <2>4
  <1> DEFINE B == {d \in Held \cup ToSet(incoming)' : d.start > in'}
             R == {Whole(c) : c \in B}
             T == ListOf(R)
             D == Handed(a)
             s == D \o T
  <1>14. Pending' = R
    <2>1. Pending' = {Whole(c) : c \in {d \in Held' \cup ToSet(incoming)' : d.start > in'}}
      BY DEF Pending
    <2> QED
      BY <1>1, <2>1
  <1>15. ToSet(incoming)' \subseteq ToSet(list)
    BY <1>9 DEF ToSet
  <1>16. B \subseteq A
    BY <1>1, <1>5, <1>13, <1>15
  <1>17. Row(P) /\ Row(R)
    <2>1. \A c \in A : c \in V
      OBVIOUS
    <2> HIDE DEF A, B, V
    <2>2. Row(P)
      BY <1>1, <1>5, <2>1, RowIs
    <2>3. Row(R)
      BY <1>1, <1>5, <1>16, <2>1, RowIs
    <2> QED
      BY <2>2, <2>3
  <1>18. R \subseteq P
    <2> HIDE DEF A, B
    <2> QED
      BY <1>16
  <1>19. P \subseteq SUBSET Nat
    <2> HIDE DEF P
    <2> QED
      BY <1>17 DEF Row
  <1>20. /\ T \in Seq(R) /\ T \in Seq(P) /\ T \in Seq(SUBSET Nat) /\ Lists(T, R)
         /\ Len(T) \in Nat /\ DOMAIN T = 1 .. Len(T)
    <2> HIDE DEF R, P, T
    <2>1. T \in Seq(R) /\ Lists(T, R)
      BY <1>17, ListOfIs DEF T
    <2> QED
      BY <1>18, <1>19, <2>1, SeqMonotonic, LenProperties
  <1>21. \A j \in 1 .. k : D[j] = Whole(list[j])
    <2> SUFFICES ASSUME NEW j \in 1 .. k PROVE D[j] = Whole(list[j])
      OBVIOUS
    <2> DEFINE e == list[j]
    <2>1. D[j] = Contents(e)
      BY <1>8, HandedIs
    <2>2. e.start \in Nat /\ e.count \in Nat /\ e.got = 0 .. e.count - 1
      BY <1>2, <1>7, <1>12
    <2> HIDE DEF e
    <2>3. Contents(e) = Whole(e)
      <3>1. \A n \in Whole(e) : n - e.start \in e.got /\ e.start + (n - e.start) = n
        BY <2>2 DEF Whole
      <3>2. \A i \in e.got : e.start + i \in Whole(e)
        BY <2>2 DEF Whole
      <3> QED
        BY <3>1, <3>2 DEF Contents
    <2> QED
      BY <2>1, <2>3 DEF e
  <1>22. D \in Seq(SUBSET Nat) /\ Len(D) = k
    BY <1>8, HandedIs
  <1>23. \A j \in 1 .. k : Whole(list[j]) \in P
    <2>1. \A j \in 1 .. k : list[j] \in A
      BY <1>2, <1>12
    <2> QED
      BY <2>1
  <1>24. /\ s \in Seq(SUBSET Nat) /\ DOMAIN s = 1 .. (k + Len(T)) /\ k \in Nat
         /\ \A i \in 1 .. k : s[i] = Whole(list[i])
         /\ \A i \in 1 .. Len(T) : s[k + i] = T[i]
         /\ \A i \in 1 .. (k + Len(T)) : i > k => s[i] = T[i - k]
    <2> HIDE DEF D, T
    <2>1. D \in Seq(SUBSET Nat) /\ T \in Seq(SUBSET Nat)
      BY <1>20, <1>22
    <2>2. /\ s \in Seq(SUBSET Nat) /\ DOMAIN s = 1 .. (Len(D) + Len(T))
          /\ \A i \in 1 .. Len(D) : s[i] = D[i]
          /\ \A i \in 1 .. Len(T) : s[Len(D) + i] = T[i]
          /\ \A i \in 1 .. (Len(D) + Len(T)) : i > Len(D) => s[i] = T[i - Len(D)]
      BY <2>1, Joined
    <2> HIDE DEF s
    <2> QED
      BY <1>21, <1>22, <2>2
  <1> HIDE DEF s, T, D
  <1>25. \A c \in A : \/ \E j \in 1 .. k : Whole(c) = Whole(list[j])
                      \/ Whole(c) \in R
    <2> SUFFICES ASSUME NEW c \in A
                 PROVE  (\E j \in 1 .. k : Whole(c) = Whole(list[j])) \/ Whole(c) \in R
      OBVIOUS
    <2>0. c \in V /\ c.start > in
      OBVIOUS
    <2>1. CASE c.start > in'
      <3>1. CASE c \in Held
        BY <2>1, <3>1
      <3>2. CASE c \in ToSet(list)
        <4>1. PICK j \in DOMAIN list : c = list[j]
          BY <3>2 DEF ToSet
        <4>2. j \in 1 .. Len(list)
          BY <1>2
        <4>3. CASE j <= k
          <5>1. j \in 1 .. k
            BY <4>2, <4>3
          <5> QED
            BY <4>1, <5>1
        <4>4. CASE j > k
          <5>1. j - k \in 1 .. (Len(list) - k) /\ (j - k) + k = j
            BY <1>2, <4>2, <4>4
          <5>2. incoming'[j - k] = c /\ j - k \in DOMAIN incoming'
            BY <1>9, <4>1, <5>1
          <5>3. c \in ToSet(incoming)'
            BY <5>2 DEF ToSet
          <5> QED
            BY <2>1, <5>3
        <4> QED
          BY <1>24, <4>2, <4>3, <4>4
      <3> QED
        BY <2>0, <3>1, <3>2
    <2>2. CASE ~(c.start > in')
      <3>1. c.start \in Nat /\ c.count \in Nat /\ c.count >= 1 /\ c.start <= in'
        BY <1>5, <1>13, <2>0, <2>2
      <3>2. k # 0
        BY <1>1, <1>7, <2>0, <3>1 DEF End
      <3>3. k \in 1 .. Len(list) /\ c.start <= End(in, list, k)
        BY <1>7, <3>1, <3>2
      <3>4. \A j \in 1 .. k : Fits(c, list[j])
        BY <1>5, <1>12, <2>0
      <3>5. Begins(c, in, End(in, list, k))
        BY <2>0, <3>1, <3>3 DEF Begins
      <3> HIDE DEF A, B, V
      <3> QED
        BY <1>11, <3>3, <3>4, <3>5, Passed
    <2> QED
      BY <2>1, <2>2
  <1>26. {s[i] : i \in DOMAIN s} = P
    <2>1. \A i \in DOMAIN s : s[i] \in P
      <3> SUFFICES ASSUME NEW i \in 1 .. (k + Len(T)) PROVE s[i] \in P
        BY <1>24
      <3>1. CASE i <= k
        BY <1>23, <1>24, <3>1
      <3>2. CASE i > k
        <4>1. i - k \in 1 .. Len(T)
          BY <1>20, <1>24, <3>2
        <4>2. T[i - k] \in P
          BY <1>20, <4>1, ElementOfSeq
        <4> QED
          BY <1>24, <3>2, <4>2
      <3> QED
        BY <1>24, <3>1, <3>2
    <2>2. \A j \in 1 .. k : j \in DOMAIN s /\ s[j] = Whole(list[j])
      BY <1>20, <1>24
    <2>3. \A q \in R : \E i \in DOMAIN s : s[i] = q
      <3> SUFFICES ASSUME NEW q \in R PROVE \E i \in DOMAIN s : s[i] = q
        OBVIOUS
      <3>1. PICK i \in DOMAIN T : T[i] = q
        BY <1>20 DEF Lists
      <3>2. i \in 1 .. Len(T) /\ k + i \in 1 .. (k + Len(T))
        BY <1>20, <1>24
      <3> QED
        BY <1>24, <3>1, <3>2
    <2>4. \A q \in P : \E i \in DOMAIN s : s[i] = q
      <3> SUFFICES ASSUME NEW q \in P PROVE \E i \in DOMAIN s : s[i] = q
        OBVIOUS
      <3>1. PICK c \in A : q = Whole(c)
        OBVIOUS
      <3> HIDE DEF A, R
      <3>2. (\E j \in 1 .. k : q = Whole(list[j])) \/ q \in R
        BY <1>25, <3>1
      <3> QED
        BY <2>2, <2>3, <3>2
    <2> HIDE DEF P
    <2> QED
      BY <2>1, <2>4
  <1>27. \A i, j \in DOMAIN s : i < j => Before(s[i], s[j])
    <2> SUFFICES ASSUME NEW i \in 1 .. (k + Len(T)), NEW j \in 1 .. (k + Len(T)), i < j
                 PROVE  Before(s[i], s[j])
      BY <1>24
    <2>1. CASE j <= k
      <3>1. i \in 1 .. k /\ j \in 1 .. k
        BY <1>24, <2>1
      <3>2. s[i] = Whole(list[i]) /\ s[j] = Whole(list[j])
        BY <1>24, <3>1
      <3>3. /\ list[i].start < list[j].start /\ Fits(list[i], list[j])
            /\ list[i].start \in Nat /\ list[i].count \in Nat /\ list[i].count >= 1
            /\ list[j].start \in Nat /\ list[j].count \in Nat /\ list[j].count >= 1
        BY <1>2, <1>5, <1>12, <3>1 DEF Listed
      <3> DEFINE x == list[i]
                 y == list[j]
      <3>4. x.start < y.start /\ Fits(x, y) /\ x.start \in Nat /\ x.count \in Nat /\ x.count >= 1
            /\ y.start \in Nat /\ y.count \in Nat /\ y.count >= 1
        BY <3>3
      <3> HIDE DEF x, y
      <3>5. x.start + x.count - 1 < y.start /\ x.start + x.count - 1 \in Int
        <4> DEFINE f == x.start
                   l == x.count
                   g == y.start
                   m == y.count
        <4>1. f < g /\ f \in Nat /\ l \in Nat /\ g \in Nat /\ m \in Nat /\ l >= 1 /\ m >= 1
          BY <3>4
        <4>2. (f = g /\ l = m) \/ f + l <= g \/ g + m <= f
          BY <3>4 DEF Fits
        <4> HIDE DEF f, l, g, m
        <4>3. f + l - 1 < g /\ f + l - 1 \in Int
          BY <4>1, <4>2
        <4> QED
          BY <4>3 DEF f, l, g
      <3>6. x.start \in Nat /\ x.count \in Nat /\ x.count >= 1
            /\ y.start \in Nat /\ y.count \in Nat /\ y.count >= 1
        BY <3>4
      <3> DEFINE m == x.start + x.count - 1
      <3>7. Before(Whole(x), Whole(y))
        <4>1. m \in Int /\ m < y.start /\ x.start + x.count - 1 <= m
          BY <3>5
        <4> HIDE DEF m
        <4> QED
          BY <3>6, <4>1, BeforeIs
      <3> QED
        BY <3>2, <3>7 DEF x, y
    <2>2. CASE i <= k /\ j > k
      <3>1. i \in 1 .. k /\ j - k \in 1 .. Len(T)
        BY <1>20, <1>24, <2>2
      <3>2. s[i] = Whole(list[i]) /\ s[j] = T[j - k] /\ T[j - k] \in R
        BY <1>20, <1>24, <2>2, <3>1, ElementOfSeq
      <3>3. PICK c \in B : s[j] = Whole(c)
        BY <3>2
      <3>4. c.start > in' /\ c \in V
        BY <1>16
      <3>5. list[i].start + list[i].count - 1 <= in'
        <4>1. list[i] \in V /\ list[i].start \in Nat /\ list[i].count \in Nat
          BY <1>2, <1>12, <3>1
        <4>2. k \in 1 .. k /\ k # 0
          BY <1>24, <3>1
        <4>3. list[k].start <= in'
          <5>1. /\ in' = list[k].start + list[k].count - 1 /\ list[k].start \in Nat
                /\ list[k].count \in Nat /\ list[k].count >= 1
            BY <1>2, <1>7, <1>12, <4>2 DEF End
          <5> DEFINE f == list[k].start
                     l == list[k].count
          <5>2. in' = f + l - 1 /\ f \in Nat /\ l \in Nat /\ l >= 1
            BY <5>1
          <5> HIDE DEF f, l
          <5>3. f <= in'
            BY <5>2
          <5> QED
            BY <5>3 DEF f
        <4>4. list[i].start <= list[k].start
          <5>1. i = k \/ i < k
            BY <1>24, <2>2
          <5>2. i < k => list[i].start < list[k].start
            BY <1>12, <3>1, <4>2 DEF Listed
          <5>3. list[i].start \in Nat /\ list[k].start \in Nat
            BY <1>2, <1>12, <3>1, <4>2
          <5> DEFINE f == list[i].start
                     g == list[k].start
          <5>4. (i = k \/ f < g) /\ (i = k => f = g) /\ f \in Nat /\ g \in Nat
            BY <5>1, <5>2, <5>3
          <5> HIDE DEF f, g
          <5>5. f <= g
            BY <5>4
          <5> QED
            BY <5>5 DEF f, g
        <4>5. list[i].start > in' \/ list[i].start + list[i].count - 1 <= in'
          BY <1>13, <4>1
        <4>6. list[k].start \in Nat
          BY <1>2, <1>12, <4>2
        <4> DEFINE f == list[i].start
                   l == list[i].start + list[i].count - 1
                   g == list[k].start
        <4>7. /\ f \in Nat /\ g \in Nat /\ f <= g /\ g <= in' /\ in' \in Int
              /\ f > in' \/ l <= in'
          BY <1>13, <4>1, <4>3, <4>4, <4>5, <4>6
        <4> HIDE DEF f, l, g, V
        <4>8. l <= in'
          BY <4>7
        <4> QED
          BY <4>8 DEF l
      <3>6. /\ list[i].start \in Nat /\ list[i].count \in Nat /\ list[i].count >= 1
            /\ c.start \in Nat /\ c.count \in Nat /\ c.count >= 1
        BY <1>2, <1>5, <1>12, <3>1, <3>4
      <3> DEFINE x == list[i]
      <3>7. x.start \in Nat /\ x.count \in Nat /\ x.count >= 1 /\ x.start + x.count - 1 <= in'
        BY <3>5, <3>6
      <3> HIDE DEF x, B, V
      <3>8. in' \in Int /\ in' < c.start
        BY <1>13, <3>4, <3>6
      <3>9. Before(Whole(x), Whole(c))
        BY <3>6, <3>7, <3>8, BeforeIs
      <3> QED
        BY <3>2, <3>3, <3>9 DEF x
    <2>3. CASE i > k
      <3>1. i - k \in 1 .. Len(T) /\ j - k \in 1 .. Len(T) /\ i - k < j - k /\ j > k
        BY <1>20, <1>24, <2>3
      <3>2. s[i] = T[i - k] /\ s[j] = T[j - k]
        BY <1>24, <2>3, <3>1
      <3>3. Before(T[i - k], T[j - k])
        BY <1>20, <3>1 DEF Lists, Before
      <3> QED
        BY <3>2, <3>3
    <2> QED
      BY <1>24, <2>1, <2>2, <2>3
  <1>28. s \in Seq(P)
    <2>1. \A i \in DOMAIN s : s[i] \in P
      BY <1>26
    <2> HIDE DEF P
    <2>2. Len(s) \in Nat /\ s \in [1 .. Len(s) -> SUBSET Nat] /\ DOMAIN s = 1 .. Len(s)
      BY <1>24, LenProperties
    <2>3. s \in [1 .. Len(s) -> P]
      BY <2>1, <2>2
    <2> QED
      BY <2>2, <2>3, SeqDef
  <1>29. s = ListOf(Pending)
    <2>1. Lists(s, P)
      BY <1>26, <1>27 DEF Lists, Before
    <2> HIDE DEF P
    <2> QED
      BY <1>6, <1>17, <1>28, <2>1, ListOfIs
  <1>30. /\ Handed(dispatched) \in Seq(SUBSET Nat) /\ dispatched \in Seq(Incoming)
         /\ Undelivered = Handed(dispatched) \o ListOf(Pending)
    BY PendingIs
  <1>31. Undelivered' = Handed(dispatched') \o ListOf(Pending')
    BY DEF Undelivered, Handed, ListOf
  <1>32. Handed(dispatched') = Handed(dispatched) \o D
    BY <1>8, <1>10, <1>30, HandedJoined DEF D
  <1>33. Undelivered' = (Handed(dispatched) \o D) \o T
    BY <1>14, <1>31, <1>32 DEF T
  <1>34. (Handed(dispatched) \o D) \o T = Handed(dispatched) \o s
    <2>1. Handed(dispatched) \in Seq(SUBSET Nat) /\ D \in Seq(SUBSET Nat) /\ T \in Seq(SUBSET Nat)
      BY <1>20, <1>22, <1>30
    <2>2. (Handed(dispatched) \o D) \o T = Handed(dispatched) \o (D \o T)
      BY <2>1, Regroup, Zenon
    <2> QED
      BY <2>2 DEF s
  <1> QED
    BY <1>29, <1>30, <1>33, <1>34

\* A command that arrives leaves the queue as it is.
LEMMA CommandQueues ==
    ASSUME NEW h \in Nat, h <= MaxCommands, Inv(h), NEW c \in net, ReceiveCommand(c)
    PROVE  UNCHANGED Undelivered
  <1>1. /\ UNCHANGED sender
        /\ Discard(c) \/ Enter(c) \/ Fill(c) \/ Refuse(c)
    BY DEF ReceiveCommand
  <1>2. Held' = Held
    BY <1>1, OthersKeep DEF Inv
  <1>3. CASE Discard(c) \/ Refuse(c)
    <2>1. UNCHANGED receiver
      BY <1>3 DEF Discard, Refuse
    <2> QED
      BY <1>2, <2>1, SameQueue
  <1>4. CASE Enter(c) \/ Fill(c)
    <2>1. PICK list : dispatch_incoming_reliable_commands(list) /\ Listed(list, h) /\ Ready(list, c.n)
      BY <1>4, EnteredList, FilledList
    <2>2. Alike(ToSet(incoming), ToSet(list)) /\ Alike(ToSet(list), Held \cup ToSet(incoming))
      BY <2>1 DEF Ready
    <2>3. Inv(h)'
      BY ReceiveSteps
    <2> QED
      BY <1>1, <2>1, <2>2, <2>3, DispatchQueues
  <1> QED
    BY <1>1, <1>3, <1>4

\* The queue is empty at first.
LEMMA QueueInit == Init => Fifo!Init
  <1> SUFFICES ASSUME Init PROVE Undelivered = <<>>
    BY DEF Fifo!Init
  <1>1. queued = <<>> /\ sent = <<>> /\ incoming = <<>> /\ dispatched = <<>>
    BY DEF Init
  <1>2. Pending = {}
    <2>1. Held = {} /\ ToSet(incoming) = {}
      BY <1>1 DEF Held, ToSet
    <2> QED
      BY <2>1 DEF Pending
  <1>3. Row({})
    BY FS_EmptySet DEF Row
  <1>4. ListOf({}) = <<>>
    <2>1. ListOf({}) \in Seq({})
      BY <1>3, ListOfIs
    <2>2. Len(ListOf({})) = 0
      <3>1. Len(ListOf({})) \in Nat
        BY <2>1, LenProperties
      <3>2. ~(1 \in 1 .. Len(ListOf({})))
        BY <2>1, ElementOfSeq
      <3> QED
        BY <3>1, <3>2
    <2> QED
      BY <2>1, <2>2, EmptySeq
  <1>5. Handed(<<>>) = <<>>
    <2>1. <<>> \in Seq(Incoming) /\ Len(<<>>) = 0
      BY EmptySeq
    <2>2. Handed(<<>>) \in Seq(SUBSET Nat) /\ Len(Handed(<<>>)) = 0
      BY <2>1, HandedIs
    <2> QED
      BY <2>2, EmptySeq
  <1>6. Undelivered = Handed(<<>>) \o ListOf({})
    BY <1>1, <1>2 DEF Undelivered, Handed, ListOf
  <1> QED
    BY <1>4, <1>5, <1>6

\* Every step is one of the queue, or leaves it as it is.
LEMMA QueueStep == IInv /\ [Next]_vars => [Fifo!Next]_Undelivered
  <1> SUFFICES ASSUME IInv, [Next]_vars PROVE Fifo!Next \/ UNCHANGED Undelivered
    OBVIOUS
  <1>1. PICK h \in 0 .. MaxCommands : Inv(h)
    BY DEF IInv
  <1>2. h \in Nat /\ h <= MaxCommands
    BY <1>1, Bounds
  <1>3. ASSUME NEW count \in 1 .. MaxFragments, enet_peer_send(count) PROVE Fifo!Next
    BY <1>1, <1>2, <1>3, SendQueues DEF Fifo!Next
  <1>4. ASSUME NEW late \in SUBSET DOMAIN sent, check_timeouts(late) PROVE UNCHANGED Undelivered
    <2>1. Held' = Held
      BY <1>1, <1>2, <1>4, TimeoutsKeep DEF Inv
    <2>2. UNCHANGED receiver
      BY <1>4 DEF check_timeouts
    <2> QED
      BY <2>1, <2>2, SameQueue
  <1>5. ASSUME check_outgoing_commands PROVE UNCHANGED Undelivered
    <2>1. Held' = Held
      BY <1>1, <1>2, <1>5, OutgoingKeeps DEF Inv
    <2>2. UNCHANGED receiver
      BY <1>5 DEF check_outgoing_commands
    <2> QED
      BY <2>1, <2>2, SameQueue
  <1>6. ASSUME NEW a \in acks, ReceiveAck(a) PROVE UNCHANGED Undelivered
    BY <1>1, <1>2, <1>6, AckQueues
  <1>7. ASSUME NEW c \in net, ReceiveCommand(c) PROVE UNCHANGED Undelivered
    BY <1>1, <1>2, <1>7, CommandQueues
  <1>8. ASSUME enet_peer_receive PROVE Fifo!Next
    BY <1>1, <1>2, <1>8, ReceiveQueues DEF Fifo!Next
  <1>9. ASSUME Lose PROVE UNCHANGED Undelivered
    <2>1. UNCHANGED <<sender, receiver>>
      BY <1>9 DEF Lose
    <2>2. Held' = Held
      BY <1>1, <1>2, <2>1, OthersKeep DEF Inv
    <2> QED
      BY <2>1, <2>2, SameQueue
  <1>10. ASSUME UNCHANGED vars PROVE UNCHANGED Undelivered
    <2>1. UNCHANGED sender /\ UNCHANGED receiver
      BY <1>10 DEF vars
    <2>2. Held' = Held
      BY <1>1, <1>2, <2>1, OthersKeep DEF Inv
    <2> QED
      BY <2>1, <2>2, SameQueue
  <1> QED
    BY <1>3, <1>4, <1>5, <1>6, <1>7, <1>8, <1>9, <1>10 DEF Next

\* The channel is a queue: whatever the network does to fragments and
\* acknowledgements, each packet given to enet_peer_send comes out of
\* enet_peer_receive at most once, whole, and in the order of sending.
THEOREM ImplementsQueue == Spec => Fifo!Spec
  BY QueueInit, QueueStep, AlwaysInv, PTL DEF Spec, Fifo!Spec
=============================================================================
