----------------------- MODULE ServerDriverKexProofs -----------------------
(***************************************************************************)
(* Proofs about ServerDriver's run_stream loop for every value of its     *)
(* constants: a conforming client never drives reply into Error::Kex      *)
(* (NoKexError), with or without rekeys started by the server's flush,   *)
(* and the idle timeout never fires early (NoEarlyTimeout).               *)
(***************************************************************************)
EXTENDS ServerDriverProofs

-----------------------------------------------------------------------------
(* The kex chain.                                                          *)
(*                                                                         *)
(* A conforming client follows each KEXINIT with KEXDH_INIT and each      *)
(* KEXDH_INIT with NEWKEYS, with only IGNORE or DISCONNECT between, and   *)
(* sends nothing but KEXINIT before its first key exchange.  The server's *)
(* kex slot says which packet it took last, as far as that constrains the *)
(* next one: KexDh took a KEXINIT, NewKeys a KEXDH_INIT, and the first    *)
(* KexInit, before any keys, stands at the start of the connection.       *)
(* The client's phase says what it sends next.  The invariant is that the *)
(* server's position, the packets in flight and the client's next packet  *)
(* form a chain in which every constrained packet is followed by the one  *)
(* it requires.                                                            *)

Noise == {"IGNORE", "DISCONNECT"}

Tokens == Packets \cup {"START"}

(* The packet each constrained position must be followed by. *)
Succ == [t \in {"START", "KEXINIT", "KEXDH_INIT"} |->
            IF t = "START" THEN "KEXINIT"
            ELSE IF t = "KEXINIT" THEN "KEXDH_INIT"
            ELSE "NEWKEYS"]

Follows(a, b) == a \in DOMAIN Succ => b = Succ[a]

(* Positions i < j of w hold packets that matter and only noise between. *)
Linked(w, i, j) ==
    /\ i < j
    /\ w[i] \notin Noise
    /\ w[j] \notin Noise
    /\ \A k \in i + 1 .. j - 1 : w[k] \in Noise

Chain(w) == \A i, j \in 1 .. Len(w) : Linked(w, i, j) => Follows(w[i], w[j])

(* What the server's kex slot k last took, on a session whose encrypted *)
(* flag is e.                                                             *)
SrvPosition(k, e) ==
    IF k = "KexDh" THEN "KEXINIT"
    ELSE IF k = "NewKeys" THEN "KEXDH_INIT"
    ELSE IF k = "KexInit" /\ ~e THEN "START"
    ELSE "DATA"

SrvPrev == SrvPosition(kex, encrypted)

(* What the client in phase ph, with keys or not (ce), sends next, noise *)
(* aside.                                                                 *)
CliPosition(ph, ce) ==
    IF ph = "SentKexinit" THEN "KEXDH_INIT"
    ELSE IF ph = "SentDh" THEN "NEWKEYS"
    ELSE IF ce THEN "DATA"
    ELSE "KEXINIT"

CliNext == CliPosition(pk, cEncrypted)

Cat(a, s, c) == <<a>> \o s \o <<c>>

KexChain == Chain(Cat(SrvPrev, toServer, CliNext))

-----------------------------------------------------------------------------
(* The chain on sequences.                                                 *)

LEMMA CatFacts ==
    ASSUME NEW s \in Seq(Tokens), NEW a, NEW c
    PROVE  /\ Len(Cat(a, s, c)) = Len(s) + 2
           /\ Cat(a, s, c)[1] = a
           /\ \A i \in 2 .. Len(s) + 1 : Cat(a, s, c)[i] = s[i - 1]
           /\ Cat(a, s, c)[Len(s) + 2] = c
BY DEF Cat

(* Appending x to the packets in flight, with the client's next packet   *)
(* d in place of c: the chain grows by one position before its end.       *)
LEMMA CatAppend ==
    ASSUME NEW s \in Seq(Tokens), NEW x \in Tokens, NEW a, NEW c, NEW d
    PROVE  /\ Len(Cat(a, s, c)) = Len(s) + 2
           /\ Len(Cat(a, Append(s, x), d)) = Len(s) + 3
           /\ \A i \in 1 .. Len(s) + 1 : Cat(a, Append(s, x), d)[i] = Cat(a, s, c)[i]
           /\ Cat(a, Append(s, x), d)[Len(s) + 2] = x
           /\ Cat(a, Append(s, x), d)[Len(s) + 3] = d
           /\ Cat(a, s, c)[Len(s) + 2] = c
<1> DEFINE t == Append(s, x)
<1> HIDE DEF t
<1>1. /\ t \in Seq(Tokens) /\ Len(t) = Len(s) + 1 /\ Len(s) \in Nat
      /\ \A i \in 1 .. Len(s) : t[i] = s[i]
      /\ t[Len(s) + 1] = x
    BY DEF t
<1>2. /\ Len(Cat(a, t, d)) = Len(t) + 2
      /\ Cat(a, t, d)[1] = a
      /\ \A i \in 2 .. Len(t) + 1 : Cat(a, t, d)[i] = t[i - 1]
      /\ Cat(a, t, d)[Len(t) + 2] = d
    BY <1>1, CatFacts
<1>3. /\ Len(Cat(a, s, c)) = Len(s) + 2
      /\ Cat(a, s, c)[1] = a
      /\ \A i \in 2 .. Len(s) + 1 : Cat(a, s, c)[i] = s[i - 1]
      /\ Cat(a, s, c)[Len(s) + 2] = c
    BY CatFacts
<1>4. QED
    BY <1>1, <1>2, <1>3 DEF t

(* Taking the first packet in flight, with b in place of the server's    *)
(* position a: the chain loses its second position.                      *)
LEMMA CatTail ==
    ASSUME NEW s \in Seq(Tokens), s # << >>, NEW a, NEW b, NEW c
    PROVE  /\ Len(Cat(a, s, c)) = Len(s) + 2
           /\ Len(Cat(b, Tail(s), c)) = Len(s) + 1
           /\ Cat(a, s, c)[1] = a
           /\ Cat(b, Tail(s), c)[1] = b
           /\ Cat(a, s, c)[2] = Head(s)
           /\ \A i \in 2 .. Len(s) + 1 : Cat(b, Tail(s), c)[i] = Cat(a, s, c)[i + 1]
<1> DEFINE t == Tail(s)
<1> HIDE DEF t
<1>1. /\ t \in Seq(Tokens) /\ Len(t) = Len(s) - 1 /\ Len(s) \in Nat /\ Len(s) >= 1
      /\ \A i \in 1 .. Len(s) - 1 : t[i] = s[i + 1]
      /\ Head(s) = s[1]
    BY DEF t
<1>2. /\ Len(Cat(b, t, c)) = Len(t) + 2
      /\ Cat(b, t, c)[1] = b
      /\ \A i \in 2 .. Len(t) + 1 : Cat(b, t, c)[i] = t[i - 1]
      /\ Cat(b, t, c)[Len(t) + 2] = c
    BY <1>1, CatFacts
<1>3. /\ Len(Cat(a, s, c)) = Len(s) + 2
      /\ Cat(a, s, c)[1] = a
      /\ \A i \in 2 .. Len(s) + 1 : Cat(a, s, c)[i] = s[i - 1]
      /\ Cat(a, s, c)[Len(s) + 2] = c
    BY CatFacts
<1>4. QED
    BY <1>1, <1>2, <1>3 DEF t

(* Noise the client sends keeps the chain: it sits before the client's   *)
(* next packet and links nothing.                                         *)
LEMMA NoiseAppended ==
    ASSUME NEW s \in Seq(Tokens), NEW a, NEW c, NEW x \in Noise,
           Chain(Cat(a, s, c))
    PROVE  Chain(Cat(a, Append(s, x), c))
<1> DEFINE w == Cat(a, s, c)
           v == Cat(a, Append(s, x), c)
           n == Len(s) + 2
<1> HIDE DEF w, v
<1>1. Len(s) \in Nat /\ x \in Tokens
    BY DEF Noise, Tokens, Packets
<1>2. /\ Len(w) = n /\ Len(v) = n + 1
      /\ \A i \in 1 .. n - 1 : v[i] = w[i]
      /\ v[n] = x /\ v[n + 1] = c /\ w[n] = c
    BY <1>1, CatAppend DEF w, v
<1> SUFFICES ASSUME NEW i \in 1 .. n + 1, NEW j \in 1 .. n + 1, Linked(v, i, j)
             PROVE  Follows(v[i], v[j])
    BY <1>2 DEF Chain, v
<1>3. CASE j <= n - 1
    <2>0. /\ i \in 1 .. n - 1 /\ j \in 1 .. n - 1
          /\ v[i] = w[i] /\ v[j] = w[j]
          /\ \A k \in i + 1 .. j - 1 : v[k] = w[k]
        BY <1>1, <1>2, <1>3 DEF Linked
    <2>1. Linked(w, i, j)
        BY <2>0 DEF Linked
    <2>2. QED
        BY <1>1, <1>2, <1>3, <2>1 DEF Chain, Linked, w
<1>4. CASE j = n
    BY <1>2, <1>4 DEF Linked, Noise
<1>5. CASE j = n + 1
    <2>1. i <= n - 1
        BY <1>1, <1>2, <1>5 DEF Linked, Noise
    <2>2. Linked(w, i, n)
        BY <1>1, <1>2, <1>5, <2>1 DEF Linked
    <2>3. QED
        BY <1>1, <1>2, <1>5, <2>1, <2>2 DEF Chain, w
<1>6. QED
    BY <1>1, <1>3, <1>4, <1>5

(* A packet the client sends in place of its announced next one c, when  *)
(* every position that c may follow may also be followed by x, keeps the  *)
(* chain, and x is then followed by the client's new next packet d.       *)
LEMMA PushLast ==
    ASSUME NEW s \in Seq(Tokens), NEW a, NEW c, NEW x \in Tokens \ Noise, NEW d,
           c \notin Noise,
           \A y : Follows(y, c) => Follows(y, x),
           Follows(x, d),
           Chain(Cat(a, s, c))
    PROVE  Chain(Cat(a, Append(s, x), d))
<1> DEFINE w == Cat(a, s, c)
           v == Cat(a, Append(s, x), d)
           n == Len(s) + 2
<1> HIDE DEF w, v
<1>1. Len(s) \in Nat
    OBVIOUS
<1>2. /\ Len(w) = n /\ Len(v) = n + 1
      /\ \A i \in 1 .. n - 1 : v[i] = w[i]
      /\ v[n] = x /\ v[n + 1] = d /\ w[n] = c
    BY <1>1, CatAppend DEF w, v
<1> SUFFICES ASSUME NEW i \in 1 .. n + 1, NEW j \in 1 .. n + 1, Linked(v, i, j)
             PROVE  Follows(v[i], v[j])
    BY <1>2 DEF Chain, v
<1>3. CASE j <= n - 1
    <2>0. /\ i \in 1 .. n - 1 /\ j \in 1 .. n - 1
          /\ v[i] = w[i] /\ v[j] = w[j]
          /\ \A k \in i + 1 .. j - 1 : v[k] = w[k]
        BY <1>1, <1>2, <1>3 DEF Linked
    <2>1. Linked(w, i, j)
        BY <2>0 DEF Linked
    <2>2. QED
        BY <1>1, <1>2, <1>3, <2>1 DEF Chain, Linked, w
<1>4. CASE j = n
    <2>1. Linked(w, i, n)
        BY <1>1, <1>2, <1>4 DEF Linked
    <2>2. Follows(w[i], c)
        BY <1>1, <1>2, <1>4, <2>1 DEF Chain, Linked, w
    <2>3. i <= n - 1 /\ v[i] = w[i] /\ v[j] = x
        BY <1>1, <1>2, <1>4 DEF Linked
    <2>4. QED
        BY <2>2, <2>3, Zenon
<1>5. CASE j = n + 1
    <2>1. i = n
        BY <1>1, <1>2, <1>5 DEF Linked
    <2>2. QED
        BY <1>2, <1>5, <2>1
<1>6. QED
    BY <1>1, <1>3, <1>4, <1>5

(* The server reads noise at the head of the packets in flight: its      *)
(* position is unchanged and the chain closes over the gap.              *)
LEMMA DropNoise ==
    ASSUME NEW s \in Seq(Tokens), s # << >>, Head(s) \in Noise, NEW a, NEW c,
           Chain(Cat(a, s, c))
    PROVE  Chain(Cat(a, Tail(s), c))
<1> DEFINE w == Cat(a, s, c)
           v == Cat(a, Tail(s), c)
           n == Len(s) + 2
<1> HIDE DEF w, v
<1>1. Len(s) \in Nat
    OBVIOUS
<1>2. /\ Len(w) = n /\ Len(v) = n - 1
      /\ w[1] = a /\ v[1] = a /\ w[2] \in Noise
      /\ \A i \in 2 .. n - 1 : v[i] = w[i + 1]
    <2>1. /\ Len(Cat(a, s, c)) = Len(s) + 2
          /\ Len(Cat(a, Tail(s), c)) = Len(s) + 1
          /\ Cat(a, s, c)[1] = a
          /\ Cat(a, Tail(s), c)[1] = a
          /\ Cat(a, s, c)[2] = Head(s)
          /\ \A i \in 2 .. Len(s) + 1 : Cat(a, Tail(s), c)[i] = Cat(a, s, c)[i + 1]
        BY CatTail
    <2>2. QED
        BY <1>1, <2>1 DEF w, v
<1> SUFFICES ASSUME NEW i \in 1 .. n - 1, NEW j \in 1 .. n - 1, Linked(v, i, j)
             PROVE  Follows(v[i], v[j])
    BY <1>2 DEF Chain, v
<1>3. CASE i = 1
    <2>1. Linked(w, 1, j + 1)
        <3>1. 1 < j /\ v[1] \notin Noise /\ v[j] \notin Noise
            BY <1>3 DEF Linked
        <3>2. j \in 2 .. n - 1
            BY <1>1, <3>1
        <3>3. w[1] = v[1] /\ w[j + 1] = v[j]
            BY <1>2, <3>2
        <3>4. ASSUME NEW k \in 2 .. j PROVE w[k] \in Noise
            <4>1. CASE k = 2
                BY <1>2, <4>1
            <4>2. CASE k \in 3 .. j
                <5>1. k - 1 \in 2 .. j - 1 /\ k - 1 \in 2 .. n - 1
                    BY <1>1, <3>2, <4>2
                <5>2. v[k - 1] \in Noise
                    BY <1>3, <5>1 DEF Linked
                <5>3. w[k] = v[k - 1]
                    BY <1>1, <1>2, <5>1
                <5>4. QED
                    BY <5>2, <5>3
            <4>3. QED
                BY <4>1, <4>2
        <3>5. QED
            BY <3>1, <3>3, <3>4 DEF Linked
    <2>2. QED
        BY <1>1, <1>2, <1>3, <2>1 DEF Chain, Linked, w
<1>4. CASE i >= 2
    <2>1. Linked(w, i + 1, j + 1)
        <3>1. i < j /\ v[i] \notin Noise /\ v[j] \notin Noise
            BY DEF Linked
        <3>2. i \in 2 .. n - 1 /\ j \in 2 .. n - 1
            BY <1>1, <1>4, <3>1
        <3>3. w[i + 1] = v[i] /\ w[j + 1] = v[j]
            BY <1>2, <3>2
        <3>4. ASSUME NEW k \in i + 2 .. j PROVE w[k] \in Noise
            <4>1. k - 1 \in i + 1 .. j - 1 /\ k - 1 \in 2 .. n - 1
                BY <1>1, <3>2
            <4>2. v[k - 1] \in Noise
                BY <4>1 DEF Linked
            <4>3. w[k] = v[k - 1]
                BY <1>1, <1>2, <4>1
            <4>4. QED
                BY <4>2, <4>3
        <3>5. QED
            BY <3>1, <3>3, <3>4 DEF Linked
    <2>2. QED
        BY <1>1, <1>2, <1>4, <2>1 DEF Chain, Linked, w
<1>5. QED
    BY <1>1, <1>3, <1>4

(* The server takes a packet that matters from the head: its new         *)
(* position b is that packet, or one that constrains nothing.             *)
LEMMA TakeHead ==
    ASSUME NEW s \in Seq(Tokens), s # << >>, Head(s) \notin Noise, NEW a, NEW b, NEW c,
           b = Head(s) \/ b \notin DOMAIN Succ,
           Chain(Cat(a, s, c))
    PROVE  Chain(Cat(b, Tail(s), c))
<1> DEFINE w == Cat(a, s, c)
           v == Cat(b, Tail(s), c)
           n == Len(s) + 2
<1> HIDE DEF w, v
<1>1. Len(s) \in Nat
    OBVIOUS
<1>2. /\ Len(w) = n /\ Len(v) = n - 1
      /\ v[1] = b /\ w[2] = Head(s)
      /\ \A i \in 2 .. n - 1 : v[i] = w[i + 1]
    BY <1>1, CatTail DEF w, v
<1> SUFFICES ASSUME NEW i \in 1 .. n - 1, NEW j \in 1 .. n - 1, Linked(v, i, j)
             PROVE  Follows(v[i], v[j])
    BY <1>2 DEF Chain, v
<1>3. CASE i = 1 /\ b \notin DOMAIN Succ
    BY <1>2, <1>3 DEF Follows
<1>4. CASE i = 1 /\ b = Head(s)
    <2>1. Linked(w, 2, j + 1)
        <3>1. 1 < j /\ v[1] \notin Noise /\ v[j] \notin Noise
            BY <1>4 DEF Linked
        <3>2. j \in 2 .. n - 1
            BY <1>1, <3>1
        <3>3. w[2] = v[1] /\ w[j + 1] = v[j]
            BY <1>2, <1>4, <3>2
        <3>4. ASSUME NEW k \in 3 .. j PROVE w[k] \in Noise
            <4>1. k - 1 \in 2 .. j - 1 /\ k - 1 \in 2 .. n - 1
                BY <1>1, <3>2
            <4>2. v[k - 1] \in Noise
                BY <1>4, <4>1 DEF Linked
            <4>3. w[k] = v[k - 1]
                BY <1>1, <1>2, <4>1
            <4>4. QED
                BY <4>2, <4>3
        <3>5. QED
            BY <3>1, <3>3, <3>4 DEF Linked
    <2>2. QED
        BY <1>1, <1>2, <1>4, <2>1 DEF Chain, Linked, w
<1>5. CASE i >= 2
    <2>1. Linked(w, i + 1, j + 1)
        <3>1. i < j /\ v[i] \notin Noise /\ v[j] \notin Noise
            BY DEF Linked
        <3>2. i \in 2 .. n - 1 /\ j \in 2 .. n - 1
            BY <1>1, <1>5, <3>1
        <3>3. w[i + 1] = v[i] /\ w[j + 1] = v[j]
            BY <1>2, <3>2
        <3>4. ASSUME NEW k \in i + 2 .. j PROVE w[k] \in Noise
            <4>1. k - 1 \in i + 1 .. j - 1 /\ k - 1 \in 2 .. n - 1
                BY <1>1, <3>2
            <4>2. v[k - 1] \in Noise
                BY <4>1 DEF Linked
            <4>3. w[k] = v[k - 1]
                BY <1>1, <1>2, <4>1
            <4>4. QED
                BY <4>2, <4>3
        <3>5. QED
            BY <3>1, <3>3, <3>4 DEF Linked
    <2>2. QED
        BY <1>1, <1>2, <1>5, <2>1 DEF Chain, Linked, w
<1>6. QED
    BY <1>1, <1>3, <1>4, <1>5

(* The first packet in flight follows the server's position. *)
LEMMA FirstFollows ==
    ASSUME NEW s \in Seq(Tokens), s # << >>, Head(s) \notin Noise, NEW a, NEW c,
           a \notin Noise, Chain(Cat(a, s, c))
    PROVE  Follows(a, Head(s))
<1>1. /\ Len(Cat(a, s, c)) = Len(s) + 2 /\ Len(s) >= 1
      /\ Cat(a, s, c)[1] = a /\ Cat(a, s, c)[2] = Head(s)
    <2>1. Len(s) >= 1 /\ Head(s) = s[1]
        OBVIOUS
    <2>2. QED
        BY <2>1, CatFacts
<1>2. Linked(Cat(a, s, c), 1, 2)
    BY <1>1 DEF Linked
<1>3. QED
    BY <1>1, <1>2 DEF Chain

-----------------------------------------------------------------------------
(* reply and the chain.                                                    *)

(* Error::Kex comes only from a packet the server's position does not    *)
(* allow: a first packet other than KEXINIT, anything but KEXDH_INIT in   *)
(* KexDh, anything but NEWKEYS in NewKeys.                               *)
LEMMA ErrMismatch ==
    ASSUME TypeOK, NEW p \in Packets, Reply(p, << >>).err
    PROVE  ~Follows(SrvPrev, p)
<1>0. /\ ~Dispatched(p, << >>).err /\ ~PeerRekey.err
      /\ \A k, x, e, wr : ~Result(k, x, e, wr).err
    BY DEF Dispatched, PeerRekey, Result
<1>1. CASE kex = "KexInit"
    <2>1. KexInitStep(p, << >>).err
        BY <1>1 DEF Reply
    <2>2. p # "KEXINIT" /\ ~encrypted
        BY <1>0, <2>1 DEF KexInitStep
    <2>3. SrvPrev = "START"
        BY <1>1, <2>2 DEF SrvPrev, SrvPosition
    <2>4. QED
        BY <2>2, <2>3 DEF Follows, Succ
<1>2. CASE kex = "KexDh"
    <2>1. KexDhStep(p).err
        BY <1>2 DEF Reply
    <2>2. p # "KEXDH_INIT"
        BY <1>0, <2>1 DEF KexDhStep
    <2>3. SrvPrev = "KEXINIT"
        BY <1>2 DEF SrvPrev, SrvPosition
    <2>4. QED
        BY <2>2, <2>3 DEF Follows, Succ
<1>3. CASE kex = "NewKeys"
    <2>1. NewKeysStep(p).err
        BY <1>3 DEF Reply
    <2>2. p # "NEWKEYS"
        BY <1>0, <2>1 DEF NewKeysStep
    <2>3. SrvPrev = "KEXDH_INIT"
        BY <1>3 DEF SrvPrev, SrvPosition
    <2>4. QED
        BY <2>2, <2>3 DEF Follows, Succ
<1>4. CASE kex = "None"
    <2>1. NoKexStep(p, << >>).err
        BY <1>4 DEF Reply
    <2>2. FALSE
        BY <1>0, <2>1 DEF NoKexStep
    <2>3. QED
        BY <2>2
<1>5. QED
    BY <1>1, <1>2, <1>3, <1>4 DEF TypeOK, KexSlots

(* The session reply returns puts the server at the packet it took, or  *)
(* at a position that constrains nothing.                                 *)
LEMMA ReplyPosition ==
    ASSUME TypeOK, NEW p \in Packets, NEW w, ~Reply(p, w).err
    PROVE  SrvPosition(Reply(p, w).kex, Reply(p, w).encrypted) \in {p, "DATA"}
<1> DEFINE r == Reply(p, w)
<1>0. Failed.err
    BY DEF Failed
<1>1. CASE kex = "KexInit"
    <2>1. r = KexInitStep(p, w)
        BY <1>1 DEF Reply
    <2>2. CASE p = "KEXINIT"
        <3>1. r.kex = "KexDh"
            BY <2>1, <2>2 DEF KexInitStep, Result
        <3>2. QED
            BY <2>2, <3>1 DEF SrvPosition
    <2>3. CASE p # "KEXINIT"
        <3>1. encrypted
            BY <1>0, <2>1, <2>3 DEF KexInitStep
        <3>2. r.kex = "None"
            BY <2>1, <2>3, <3>1 DEF KexInitStep, Dispatched, Result
        <3>3. QED
            BY <3>2 DEF SrvPosition
    <2>4. QED
        BY <2>2, <2>3
<1>2. CASE kex = "KexDh"
    <2>1. r = KexDhStep(p)
        BY <1>2 DEF Reply
    <2>2. p = "KEXDH_INIT" /\ r.kex = "NewKeys"
        BY <1>0, <2>1 DEF KexDhStep, Result
    <2>3. QED
        BY <2>2 DEF SrvPosition
<1>3. CASE kex = "NewKeys"
    <2>1. r = NewKeysStep(p)
        BY <1>3 DEF Reply
    <2>2. r.kex = "None"
        BY <1>0, <2>1 DEF NewKeysStep, Result
    <2>3. QED
        BY <2>2 DEF SrvPosition
<1>4. CASE kex = "None"
    <2>1. r = NoKexStep(p, w)
        BY <1>4 DEF Reply
    <2>2. CASE p = "KEXINIT"
        <3>1. r.kex \in {"KexDh", "None"}
            BY <2>1, <2>2 DEF NoKexStep, PeerRekey, Result
        <3>2. QED
            BY <2>2, <3>1 DEF SrvPosition
    <2>3. CASE p # "KEXINIT"
        <3>1. r.kex = "None"
            BY <2>1, <2>3 DEF NoKexStep, Dispatched, Result
        <3>2. QED
            BY <3>1 DEF SrvPosition
    <2>4. QED
        BY <2>2, <2>3
<1>5. QED
    BY <1>1, <1>2, <1>3, <1>4 DEF TypeOK, KexSlots

(* The flush keeps the position of the session it is given: a rekey of  *)
(* its own starts only where nothing is pending, on an encrypted session, *)
(* and its KexInit constrains nothing there.                             *)
LEMMA FlushPosition ==
    ASSUME NEW r, NEW h, NEW rekey \in BOOLEAN, Flush(r, h, rekey)
    PROVE  SrvPosition(kex', encrypted') = SrvPosition(r.kex, r.encrypted)
<1>1. CASE rekey
    <2>1. r.encrypted /\ r.kex = "None" /\ kex' = "KexInit" /\ encrypted' = r.encrypted
        BY <1>1 DEF Flush, CanRekey
    <2>2. QED
        BY <2>1 DEF SrvPosition
<1>2. CASE ~rekey
    <2>1. kex' = r.kex /\ encrypted' = r.encrypted
        BY <1>2 DEF Flush
    <2>2. QED
        BY <2>1
<1>3. QED
    BY <1>1, <1>2

-----------------------------------------------------------------------------
(* The chain is kept by every step.                                        *)

LEMMA ChainTypes ==
    ASSUME TypeOK
    PROVE  /\ toServer \in Seq(Tokens)
           /\ SrvPrev \notin Noise
           /\ CliNext \notin Noise
<1>1. Packets \subseteq Tokens
    BY DEF Tokens
<1>2. toServer \in Seq(Packets)
    BY DEF TypeOK
<1>3. toServer \in Seq(Tokens)
    BY <1>1, <1>2
<1>4. QED
    BY <1>3 DEF SrvPrev, SrvPosition, CliNext, CliPosition, Noise

(* The packets the client may send in place of its announced next one. *)
LEMMA DataAllowsAll ==
    ASSUME NEW y, NEW x, Follows(y, "DATA")
    PROVE  Follows(y, x)
BY DEF Follows, Succ

(* Reading a packet: noise leaves the server where it was, a packet the  *)
(* chain allows moves it along, and Error::Kex cannot happen.            *)
LEMMA ServerReadChain ==
    ASSUME TypeOK, KexChain, NoKexError, ServerRead
    PROVE  KexChain' /\ NoKexError'
<1> DEFINE p == Head(toServer)
<1>0. /\ toServer \in Seq(Tokens) /\ SrvPrev \notin Noise /\ CliNext \notin Noise
      /\ Chain(Cat(SrvPrev, toServer, CliNext))
    BY ChainTypes DEF KexChain
<1>1. /\ toServer # << >> /\ toServer' = Tail(toServer) /\ p \in Packets
      /\ pk' = pk /\ cEncrypted' = cEncrypted
    BY DEF ServerRead, TypeOK
<1>2. CliNext' = CliNext
    BY <1>1 DEF CliNext
<1>3. \/ /\ p \in Noise /\ kex' = kex /\ encrypted' = encrypted /\ status' # "error"
      \/ /\ p \notin Noise /\ Reply(p, << >>).err
      \/ /\ p \notin Noise /\ ~Reply(p, << >>).err /\ status' = status
         /\ \E w \in DispatchWrites, rekey \in BOOLEAN : Flush(Reply(p, w), held, rekey)
    BY DEF ServerRead, Noise
<1>4. CASE p \in Noise /\ kex' = kex /\ encrypted' = encrypted /\ status' # "error"
    <2>1. SrvPrev' = SrvPrev
        BY <1>4 DEF SrvPrev
    <2>2. Chain(Cat(SrvPrev, Tail(toServer), CliNext))
        BY <1>0, <1>1, <1>4, DropNoise
    <2>3. QED
        BY <1>1, <1>2, <1>4, <2>1, <2>2 DEF KexChain, NoKexError
<1>5. CASE p \notin Noise /\ Reply(p, << >>).err
    <2>1. Follows(SrvPrev, p)
        BY <1>0, <1>1, <1>5, FirstFollows
    <2>2. ~Follows(SrvPrev, p)
        BY <1>1, <1>5, ErrMismatch
    <2>3. QED
        BY <2>1, <2>2
<1>6. CASE /\ p \notin Noise /\ ~Reply(p, << >>).err /\ status' = status
           /\ \E w \in DispatchWrites, rekey \in BOOLEAN : Flush(Reply(p, w), held, rekey)
    <2>1. PICK w \in DispatchWrites, rekey \in BOOLEAN : Flush(Reply(p, w), held, rekey)
        BY <1>6
    <2>2. ~Reply(p, w).err
        BY <1>1, <1>6, ErrSame
    <2>3. SrvPrev' = SrvPosition(Reply(p, w).kex, Reply(p, w).encrypted)
        BY <2>1, FlushPosition DEF SrvPrev
    <2>4. SrvPrev' \in {p, "DATA"}
        BY <1>1, <2>2, <2>3, ReplyPosition
    <2>5. SrvPrev' = p \/ SrvPrev' \notin DOMAIN Succ
        BY <2>4 DEF Succ
    <2>6. Chain(Cat(SrvPrev', Tail(toServer), CliNext))
        BY <1>0, <1>1, <1>6, <2>5, TakeHead
    <2>7. QED
        BY <1>1, <1>2, <1>6, <2>6 DEF KexChain, NoKexError
<1>7. QED
    BY <1>3, <1>4, <1>5, <1>6

(* The client's steps leave the server alone and append to the packets  *)
(* in flight what its phase announced.                                   *)
LEMMA ClientChain ==
    ASSUME TypeOK, KexChain,
           \/ ClientStartKex \/ ClientData \/ ClientIgnore \/ ClientDisconnect
           \/ ClientRead
    PROVE  KexChain'
<1> DEFINE a == SrvPrev
           c == CliNext
<1>0. /\ toServer \in Seq(Tokens) /\ c \notin Noise
      /\ Chain(Cat(a, toServer, c))
    BY ChainTypes DEF KexChain
<1>1. kex' = kex /\ encrypted' = encrypted
    BY DEF ClientStartKex, ClientData, ClientIgnore, ClientDisconnect, ClientRead
<1>2. SrvPrev' = a
    BY <1>1 DEF SrvPrev
<1>3. CASE ClientStartKex
    <2>1. pk = "Idle" /\ pk' = "SentKexinit" /\ toServer' = Append(toServer, "KEXINIT")
        BY <1>3 DEF ClientStartKex
    <2>2. c \in {"DATA", "KEXINIT"} /\ CliNext' = "KEXDH_INIT"
        BY <2>1 DEF CliNext, CliPosition
    <2>3. \A y : Follows(y, c) => Follows(y, "KEXINIT")
        BY <2>2, DataAllowsAll
    <2>4. Follows("KEXINIT", "KEXDH_INIT")
        BY DEF Follows, Succ
    <2>5. Chain(Cat(a, Append(toServer, "KEXINIT"), "KEXDH_INIT"))
        BY <1>0, <2>3, <2>4, PushLast DEF Tokens, Packets, Noise
    <2>6. QED
        BY <1>2, <2>1, <2>2, <2>5 DEF KexChain
<1>4. CASE ClientData
    <2>1. /\ pk = "Idle" /\ cEncrypted /\ toServer' = Append(toServer, "DATA")
          /\ pk' = pk /\ cEncrypted' = cEncrypted
        BY <1>4 DEF ClientData
    <2>2. c = "DATA" /\ CliNext' = "DATA"
        BY <2>1 DEF CliNext, CliPosition
    <2>3. Follows("DATA", "DATA")
        BY DEF Follows, Succ
    <2>4. Chain(Cat(a, Append(toServer, "DATA"), "DATA"))
        BY <1>0, <2>2, <2>3, PushLast DEF Tokens, Packets, Noise
    <2>5. QED
        BY <1>2, <2>1, <2>2, <2>4 DEF KexChain
<1>5. CASE ClientIgnore \/ ClientDisconnect
    <2>1. /\ \E x \in Noise : toServer' = Append(toServer, x)
          /\ pk' = pk /\ cEncrypted' = cEncrypted
        BY <1>5 DEF ClientIgnore, ClientDisconnect, Noise
    <2>2. PICK x \in Noise : toServer' = Append(toServer, x)
        BY <2>1
    <2>3. CliNext' = c
        BY <2>1 DEF CliNext
    <2>4. Chain(Cat(a, Append(toServer, x), c))
        BY <1>0, NoiseAppended
    <2>5. QED
        BY <1>2, <2>2, <2>3, <2>4 DEF KexChain
<1>6. CASE ClientRead
    <2> DEFINE q == Head(toClient)
    <2>1. \/ /\ q = "KEXINIT" /\ pk = "Idle"
             /\ toServer' = toServer \o <<"KEXINIT", "KEXDH_INIT">> /\ pk' = "SentDh"
          \/ /\ q = "KEXINIT" /\ pk = "SentKexinit"
             /\ toServer' = Append(toServer, "KEXDH_INIT") /\ pk' = "SentDh"
          \/ /\ q = "KEXDH_REPLY" /\ pk = "SentDh"
             /\ toServer' = Append(toServer, "NEWKEYS") /\ pk' = "Idle" /\ cEncrypted'
          \/ UNCHANGED <<toServer, pk, cEncrypted>>
        BY <1>6 DEF ClientRead
    <2>2. Follows("KEXINIT", "KEXDH_INIT") /\ Follows("KEXDH_INIT", "NEWKEYS")
          /\ Follows("NEWKEYS", "DATA")
        BY DEF Follows, Succ
    <2>3. CASE /\ q = "KEXINIT" /\ pk = "Idle"
               /\ toServer' = toServer \o <<"KEXINIT", "KEXDH_INIT">> /\ pk' = "SentDh"
        <3> DEFINE s1 == Append(toServer, "KEXINIT")
        <3>1. c \in {"DATA", "KEXINIT"} /\ CliNext' = "NEWKEYS"
            BY <2>3 DEF CliNext, CliPosition
        <3>2. \A y : Follows(y, c) => Follows(y, "KEXINIT")
            BY <3>1, DataAllowsAll
        <3>3. Chain(Cat(a, s1, "KEXDH_INIT"))
            BY <1>0, <2>2, <3>2, PushLast DEF Tokens, Packets, Noise
        <3>4. s1 \in Seq(Tokens)
            BY <1>0 DEF Tokens, Packets
        <3> HIDE DEF s1
        <3>5. Chain(Cat(a, Append(s1, "KEXDH_INIT"), "NEWKEYS"))
            <4>1. /\ "KEXDH_INIT" \in Tokens \ Noise /\ "KEXDH_INIT" \notin Noise
                  /\ \A y : Follows(y, "KEXDH_INIT") => Follows(y, "KEXDH_INIT")
                BY DEF Tokens, Packets, Noise
            <4>2. QED
                BY <2>2, <3>3, <3>4, <4>1, PushLast
        <3>6. toServer' = Append(s1, "KEXDH_INIT")
            BY <1>0, <2>3 DEF s1
        <3>7. QED
            BY <1>2, <3>1, <3>5, <3>6 DEF KexChain
    <2>4. CASE /\ q = "KEXINIT" /\ pk = "SentKexinit"
               /\ toServer' = Append(toServer, "KEXDH_INIT") /\ pk' = "SentDh"
        <3>1. c = "KEXDH_INIT" /\ CliNext' = "NEWKEYS"
            BY <2>4 DEF CliNext, CliPosition
        <3>2. Chain(Cat(a, Append(toServer, "KEXDH_INIT"), "NEWKEYS"))
            BY <1>0, <2>2, <3>1, PushLast DEF Tokens, Packets, Noise
        <3>3. QED
            BY <1>2, <2>4, <3>1, <3>2 DEF KexChain
    <2>5. CASE /\ q = "KEXDH_REPLY" /\ pk = "SentDh"
               /\ toServer' = Append(toServer, "NEWKEYS") /\ pk' = "Idle" /\ cEncrypted'
        <3>1. c = "NEWKEYS" /\ CliNext' = "DATA"
            BY <2>5 DEF CliNext, CliPosition
        <3>2. Chain(Cat(a, Append(toServer, "NEWKEYS"), "DATA"))
            BY <1>0, <2>2, <3>1, PushLast DEF Tokens, Packets, Noise
        <3>3. QED
            BY <1>2, <2>5, <3>1, <3>2 DEF KexChain
    <2>6. CASE UNCHANGED <<toServer, pk, cEncrypted>>
        BY <1>0, <1>2, <2>6 DEF KexChain, CliNext
    <2>7. QED
        BY <2>1, <2>3, <2>4, <2>5, <2>6
<1>7. QED
    BY <1>3, <1>4, <1>5, <1>6

(* The application's messages and the flush they cause keep the server  *)
(* where it was.                                                          *)
LEMMA AppMessageChain ==
    ASSUME KexChain, NoKexError, AppMessage
    PROVE  KexChain' /\ NoKexError'
<1> DEFINE now == encrypted /\ kex = "None"
           r == Result(kex, exchange, encrypted, IF now THEN <<"DATA">> ELSE << >>)
           h == IF now THEN held ELSE held + 1
<1>1. PICK rekey \in BOOLEAN : Flush(r, h, rekey)
    BY DEF AppMessage
<1>2. SrvPrev' = SrvPrev
    <2>1. SrvPosition(kex', encrypted') = SrvPosition(r.kex, r.encrypted)
        BY <1>1, FlushPosition
    <2>2. r.kex = kex /\ r.encrypted = encrypted
        BY DEF Result
    <2>3. QED
        BY <2>1, <2>2 DEF SrvPrev
<1>3. toServer' = toServer /\ CliNext' = CliNext /\ status' = status
    BY DEF AppMessage, CliNext
<1>4. QED
    BY <1>2, <1>3 DEF KexChain, NoKexError

LEMMA KexChainStep ==
    ASSUME TypeInv, KexChain, NoKexError, [Next]_vars
    PROVE  KexChain' /\ NoKexError'
<1>0. TypeOK
    BY DEF TypeInv
<1>1. CASE ServerRead
    BY <1>0, <1>1, ServerReadChain
<1>2. CASE AppMessage
    BY <1>2, AppMessageChain
<1>3. CASE \/ ClientStartKex \/ ClientData \/ ClientIgnore \/ ClientDisconnect
           \/ ClientRead
    <2>1. KexChain'
        BY <1>0, <1>3, ClientChain
    <2>2. status' = status
        BY <1>3 DEF ClientStartKex, ClientData, ClientIgnore, ClientDisconnect, ClientRead
    <2>3. QED
        BY <2>1, <2>2 DEF NoKexError
<1>4. CASE Timeout \/ Tick \/ Terminated \/ UNCHANGED vars
    <2>1. /\ kex' = kex /\ encrypted' = encrypted /\ toServer' = toServer
          /\ pk' = pk /\ cEncrypted' = cEncrypted
          /\ status' \in {status, "timedout"}
        BY <1>4 DEF Timeout, Tick, Terminated, vars
    <2>2. QED
        BY <2>1 DEF KexChain, SrvPrev, CliNext, NoKexError
<1>5. QED
    BY <1>1, <1>2, <1>3, <1>4 DEF Next

(* The first KEXINIT is on the wire and the client has sent nothing: the *)
(* chain is the start of the connection followed by the client's KEXINIT. *)
LEMMA KexChainInit ==
    ASSUME Init
    PROVE  KexChain /\ NoKexError
<1>1. /\ SrvPrev = "START" /\ CliNext = "KEXINIT"
      /\ toServer \in Seq(Tokens) /\ Len(toServer) = 0
    BY DEF Init, SrvPrev, SrvPosition, CliNext, CliPosition
<1>2. /\ Len(Cat(SrvPrev, toServer, CliNext)) = Len(toServer) + 2
      /\ Cat(SrvPrev, toServer, CliNext)[1] = SrvPrev
      /\ Cat(SrvPrev, toServer, CliNext)[Len(toServer) + 2] = CliNext
    <2>1. toServer \in Seq(Tokens)
        BY <1>1
    <2>2. QED
        BY ONLY <2>1, CatFacts
<1>3. Chain(Cat(SrvPrev, toServer, CliNext))
    BY <1>1, <1>2 DEF Chain, Linked, Follows, Succ, Noise
<1>4. QED
    BY <1>3 DEF KexChain, NoKexError, Init

KInv == TypeInv /\ KexChain /\ NoKexError

(* A conforming client never drives run_stream into Error::Kex, for      *)
(* every delay and bound and whether or not the server's flush starts    *)
(* rekeys of its own: whatever the order of the two sides' KEXINITs, of  *)
(* the IGNOREs and DISCONNECT the client sends, of the packets reply      *)
(* takes and drops and of the application's messages, the packet reply   *)
(* reads is always one its kex slot accepts.                              *)
THEOREM NoKexErrorHolds == Spec => []NoKexError
<1>1. Init => KInv
    BY InitType, KexChainInit DEF KInv
<1>2. KInv /\ [Next]_vars => KInv'
    BY TypeStep, KexChainStep DEF KInv
<1>3. KInv => NoKexError
    BY DEF KInv
<1>4. QED
    BY <1>1, <1>2, <1>3, PTL DEF Spec

-----------------------------------------------------------------------------
(* The idle timeout.                                                       *)
(*                                                                         *)
(* NoEarlyTimeout is not inductive: it says nothing while the loop runs.  *)
(* The strengthening is that the ticks of the current select! never      *)
(* exceed the ticks since the last packet read, because every read ends   *)
(* the select! (the flush, or the continue after IGNORE, arms a new      *)
(* timeout) and idle saturates only past Delay.                          *)
TimeInv ==
    /\ status = "running" => timer <= idle
    /\ status = "timedout" => Delay \in Nat /\ idle >= Delay

LEMMA TimeStep ==
    ASSUME TypeInv, TimeInv, [Next]_vars
    PROVE  TimeInv'
<1>0. /\ TypeOK /\ timer \in Nat /\ idle \in Nat /\ timer' \in Nat /\ idle' \in Nat
      /\ TimerCap \in Nat /\ IdleCap \in Nat
    BY TypeStep, CapsNat DEF TypeInv, TypeOK
<1>1. CASE ServerRead
    <2>1. status = "running" /\ idle' = 0
        BY <1>1 DEF ServerRead
    <2>2. status' \in {"disconnected", "error"} \/ (status' = status /\ timer' = 0)
        BY <1>1 DEF ServerRead, Flush
    <2>3. QED
        BY <1>0, <2>1, <2>2 DEF TimeInv
<1>2. CASE AppMessage
    <2>1. status' = status /\ idle' = idle /\ timer' = 0
        BY <1>2 DEF AppMessage, Flush
    <2>2. status = "running"
        BY <1>2 DEF AppMessage
    <2>3. QED
        BY <1>0, <2>1, <2>2 DEF TimeInv
<1>3. CASE Timeout
    <2>1. /\ status = "running" /\ status' = "timedout" /\ Delay # NoTimeout
          /\ timer = Delay /\ idle' = idle
        BY <1>3 DEF Timeout
    <2>2. Delay \in Nat
        BY <2>1, ConstantsNat
    <2>3. QED
        BY <1>0, <2>1, <2>2 DEF TimeInv
<1>4. CASE Tick
    <2>1. /\ status = "running" /\ status' = status /\ Delay # NoTimeout
          /\ timer < Delay /\ timer' = timer + 1
          /\ idle' = IF idle < IdleCap THEN idle + 1 ELSE idle
        BY <1>4 DEF Tick
    <2>2. Delay \in Nat /\ IdleCap = Delay + 1 /\ idle <= IdleCap
        BY <2>1, ConstantsNat, <1>0 DEF IdleCap, TimerCap, TypeOK
    <2>3. QED
        BY <1>0, <2>1, <2>2 DEF TimeInv
<1>5. CASE \/ ClientStartKex \/ ClientData \/ ClientIgnore \/ ClientDisconnect
           \/ ClientRead \/ Terminated \/ UNCHANGED vars
    <2>1. status' = status /\ timer' = timer /\ idle' = idle
        BY <1>5 DEF ClientStartKex, ClientData, ClientIgnore, ClientDisconnect,
                    ClientRead, Terminated, vars
    <2>2. QED
        BY <2>1 DEF TimeInv
<1>6. QED
    BY <1>1, <1>2, <1>3, <1>4, <1>5 DEF Next

TInvT == TypeInv /\ TimeInv

(* The idle timeout never ends a connection whose client has sent a      *)
(* packet within the last Delay ticks, for every delay and bound: each   *)
(* iteration of run_stream's select! arms a fresh timeout(delay), and    *)
(* every packet read, IGNORE included, ends the iteration it came in.    *)
THEOREM NoEarlyTimeoutHolds == Spec => []NoEarlyTimeout
<1>1. Init => TInvT
    BY InitType DEF TInvT, TimeInv, Init
<1>2. TInvT /\ [Next]_vars => TInvT'
    BY TypeStep, TimeStep DEF TInvT
<1>3. TInvT => NoEarlyTimeout
    BY DEF TInvT, TimeInv, NoEarlyTimeout
<1>4. QED
    BY <1>1, <1>2, <1>3, PTL DEF Spec

====
