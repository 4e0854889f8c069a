--------------------------- MODULE EnvTableProofs ---------------------------
(* Theorems about EnvTable, for every hash function and any set of names.   *)
EXTENDS EnvTable, TLAPS

LEMMA Inserted ==
  ASSUME NEW S, NEW chain \in Seq(S), NEW v \in S
  PROVE  /\ <<v>> \o chain \in Seq(S)
         /\ DOMAIN (<<v>> \o chain) = 1 .. Len(chain) + 1
         /\ (<<v>> \o chain)[1] = v
         /\ \A i \in DOMAIN chain : (<<v>> \o chain)[i + 1] = chain[i]
         /\ \A i \in DOMAIN (<<v>> \o chain) :
              i = 1 \/ (i - 1 \in DOMAIN chain /\ (<<v>> \o chain)[i] = chain[i - 1])
OBVIOUS

LEMMA Unlinked ==
  ASSUME NEW S, NEW chain \in Seq(S), NEW i \in DOMAIN chain
  PROVE  /\ Unlink(chain, i) \in Seq(S)
         /\ DOMAIN Unlink(chain, i) = 1 .. Len(chain) - 1
         /\ \A j \in 1 .. Len(chain) - 1 :
              Unlink(chain, i)[j] = IF j < i THEN chain[j] ELSE chain[j + 1]
<1> DEFINE front == SubSeq(chain, 1, i - 1)
           back  == SubSeq(chain, i + 1, Len(chain))
<1>1. i \in 1 .. Len(chain) /\ Len(chain) \in Nat
  OBVIOUS
<1>2. front \in Seq(S) /\ Len(front) = i - 1 /\ \A j \in 1 .. i - 1 : front[j] = chain[j]
  BY <1>1
<1>3. /\ back \in Seq(S) /\ Len(back) = Len(chain) - i
      /\ \A j \in 1 .. Len(chain) - i : back[j] = chain[j + i]
  BY <1>1
<1>4. Unlink(chain, i) = front \o back
  BY DEF Unlink, RemoveAt
<1> HIDE DEF front, back
<1>5. /\ front \o back \in Seq(S) /\ Len(front \o back) = Len(chain) - 1
      /\ \A j \in 1 .. Len(chain) - 1 :
           (front \o back)[j] = IF j < i THEN front[j] ELSE back[j - (i - 1)]
  <2>1. front \o back \in Seq(S) /\ Len(front \o back) = Len(front) + Len(back)
    BY <1>2, <1>3
  <2>2. \A j \in 1 .. Len(front) + Len(back) :
          (front \o back)[j] = IF j <= Len(front) THEN front[j] ELSE back[j - Len(front)]
    BY <1>2, <1>3
  <2> QED BY <2>1, <2>2, <1>1, <1>2, <1>3
<1>6. \A j \in 1 .. Len(chain) - 1 :
        (front \o back)[j] = IF j < i THEN chain[j] ELSE chain[j + 1]
  <2> SUFFICES ASSUME NEW j \in 1 .. Len(chain) - 1
               PROVE  (front \o back)[j] = IF j < i THEN chain[j] ELSE chain[j + 1]
    OBVIOUS
  <2>1. CASE j < i
    BY <2>1, <1>1, <1>2, <1>5
  <2>2. CASE ~(j < i)
    <3>1. j - (i - 1) \in 1 .. Len(chain) - i /\ (j - (i - 1)) + i = j + 1
      BY <2>2, <1>1
    <3> QED BY <2>2, <3>1, <1>3, <1>5
  <2> QED BY <2>1, <2>2
<1> QED BY <1>4, <1>5, <1>6

LEMMA Updated ==
  ASSUME NEW chain \in Seq(Variables), NEW i \in DOMAIN chain, NEW v \in Values \cup {Lost}
  PROVE  /\ [chain EXCEPT ![i].value = v] \in Seq(Variables)
         /\ DOMAIN [chain EXCEPT ![i].value = v] = DOMAIN chain
         /\ \A j \in DOMAIN chain :
              /\ [chain EXCEPT ![i].value = v][j].key = chain[j].key
              /\ [chain EXCEPT ![i].value = v][j].value = IF j = i THEN v ELSE chain[j].value
<1> DEFINE new == [chain[i] EXCEPT !.value = v]
<1>1. chain[i] \in Variables /\ i \in 1 .. Len(chain)
  OBVIOUS
<1>2. new \in Variables /\ new.key = chain[i].key /\ new.value = v
  BY <1>1 DEF Variables
<1>3. [chain EXCEPT ![i].value = v] = [chain EXCEPT ![i] = new]
  OBVIOUS
<1> HIDE DEF new
<1> QED BY <1>1, <1>2, <1>3

-----------------------------------------------------------------------------
(* What is in the table, and how each change of a chain changes it          *)

Inv == TypeOK /\ ChainsAreSound /\ HandedOnce

Chain(n)  == table[Hash[n]]
Has(n, v) == \E i \in DOMAIN Chain(n) : Chain(n)[i].key = n /\ Chain(n)[i].value = v

LEMMA SlotOf == \A n \in Names : Hash[n] \in Slots
BY HashAssumption DEF Slots

(* Under soundness the first variable with a key is the only one.           *)
LEMMA HoldsIs ==
  ASSUME TypeOK, ChainsAreSound, NEW k \in Names, NEW i
  PROVE  Holds(k, i) <=> i \in DOMAIN Chain(k) /\ Chain(k)[i].key = k
<1>1. Hash[k] \in Slots /\ Chain(k) \in Seq(Variables)
  BY SlotOf DEF TypeOK, Chain
<1>2. ASSUME i \in DOMAIN Chain(k), Chain(k)[i].key = k, NEW j \in 1 .. i - 1
      PROVE  Chain(k)[j].key # k
  <2>1. j \in DOMAIN Chain(k) /\ j # i
    BY <1>1, <1>2
  <2> QED BY <1>1, <1>2, <2>1 DEF ChainsAreSound, Chain
<1> QED BY <1>2 DEF Holds, Chain

LEMMA PlacesAre ==
  \A p : p \in Places <=> \E s \in Slots : \E i \in DOMAIN table[s] : p = <<s, i>>
BY DEF Places

(* ValueOf finds what the chain of the name has.                            *)
Valued ==
  \A n \in Names :
    /\ \A v : Has(n, v) => ValueOf(n) = v /\ v \in Values \cup {Lost}
    /\ (\A v : ~Has(n, v)) => ValueOf(n) = None
    /\ \A p \in Places : At(p).key = n => Has(n, At(p).value)

LEMMA ValueIs == TypeOK /\ ChainsAreSound => Valued
<1> SUFFICES ASSUME TypeOK, ChainsAreSound, NEW n \in Names
             PROVE  /\ \A v : Has(n, v) => ValueOf(n) = v /\ v \in Values \cup {Lost}
                    /\ (\A v : ~Has(n, v)) => ValueOf(n) = None
                    /\ \A p \in Places : At(p).key = n => Has(n, At(p).value)
  BY DEF Valued
<1>1. Hash[n] \in Slots /\ Chain(n) \in Seq(Variables)
  BY SlotOf DEF TypeOK, Chain
<1>2. ASSUME NEW p \in Places, At(p).key = n
      PROVE  p[1] = Hash[n] /\ p[2] \in DOMAIN Chain(n) /\ At(p) = Chain(n)[p[2]]
  <2>0. PICK s \in Slots : \E i \in DOMAIN table[s] : p = <<s, i>>
    BY PlacesAre
  <2>1. PICK i \in DOMAIN table[s] : p = <<s, i>>
    BY <2>0
  <2>2. s = Hash[n]
    BY <1>2, <2>1 DEF ChainsAreSound, At
  <2> QED BY <2>1, <2>2 DEF At, Chain
<1>3. ASSUME NEW v, Has(n, v) PROVE ValueOf(n) = v /\ v \in Values \cup {Lost}
  <2>1. PICK i \in DOMAIN Chain(n) : Chain(n)[i].key = n /\ Chain(n)[i].value = v
    BY <1>3 DEF Has
  <2>2. <<Hash[n], i>> \in Places /\ At(<<Hash[n], i>>).key = n
    BY <1>1, <2>1, PlacesAre DEF At, Chain
  <2>3. \A p \in Places : At(p).key = n => At(p).value = v
    <3> SUFFICES ASSUME NEW p \in Places, At(p).key = n PROVE At(p).value = v
      OBVIOUS
    <3>1. p[2] \in DOMAIN Chain(n) /\ At(p) = Chain(n)[p[2]]
      BY <1>2
    <3>2. p[2] = i
      BY <1>1, <2>1, <3>1 DEF ChainsAreSound, Chain
    <3> QED BY <2>1, <3>1, <3>2
  <2>4. ValueOf(n) = v
    BY <2>2, <2>3 DEF ValueOf
  <2>5. Chain(n)[i] \in Variables
    BY <1>1
  <2> QED BY <2>1, <2>4, <2>5 DEF Variables
<1>4. \A p \in Places : At(p).key = n => Has(n, At(p).value)
  BY <1>2 DEF Has
<1>5. ASSUME \A v : ~Has(n, v) PROVE ValueOf(n) = None
  <2>1. ~ \E p \in Places : At(p).key = n
    BY <1>4, <1>5
  <2> QED BY <2>1 DEF ValueOf
<1> QED BY <1>3, <1>4, <1>5

LEMMA OtherChains ==
  ASSUME TypeOK, NEW k \in Names, NEW new, table' = [table EXCEPT ![Hash[k]] = new]
  PROVE  /\ Chain(k)' = new
         /\ \A s \in Slots : s # Hash[k] => table'[s] = table[s]
         /\ \A n \in Names : Hash[n] # Hash[k] => Chain(n)' = Chain(n)
         /\ \A n \in Names : Hash[n] = Hash[k] => Chain(n)' = new
         /\ Hash[k] \in Slots /\ Chain(k) \in Seq(Variables)
         /\ new \in Seq(Variables) => table' \in [Slots -> Seq(Variables)]
BY SlotOf DEF TypeOK, Chain

(* One chain changes and is still sound: the whole table is.                *)
Sound(chain, s) ==
  \A i \in DOMAIN chain : /\ Hash[chain[i].key] = s /\ chain[i].key \in Valid
                          /\ \A j \in DOMAIN chain : chain[i].key = chain[j].key => i = j

LEMMA StillSound ==
  ASSUME TypeOK, ChainsAreSound, NEW k \in Names, NEW new,
         table' = [table EXCEPT ![Hash[k]] = new], Sound(new, Hash[k])
  PROVE  ChainsAreSound'
<1>1. table'[Hash[k]] = new /\ \A s \in Slots : s # Hash[k] => table'[s] = table[s]
  BY OtherChains DEF Chain
<1> SUFFICES ASSUME NEW s \in Slots PROVE Sound(table'[s], s)
  BY DEF ChainsAreSound, Sound
<1>2. CASE s = Hash[k]
  BY <1>1, <1>2
<1>3. CASE s # Hash[k]
  BY <1>1, <1>3 DEF ChainsAreSound, Sound
<1> QED BY <1>2, <1>3

LEMMA InsertStep ==
  ASSUME TypeOK, ChainsAreSound, NEW k \in Valid, NEW v \in Values,
         ~Found(k), Insert(k, v)
  PROVE  /\ table' \in [Slots -> Seq(Variables)] /\ ChainsAreSound'
         /\ \A n \in Names : \A x : Has(n, x)' <=> IF n = k THEN x = v ELSE Has(n, x)
<1> DEFINE var == [key |-> k, value |-> v]
           new == <<var>> \o Chain(k)
<1>1. k \in Names /\ var \in Variables /\ var.key = k /\ var.value = v
  BY NamesAssumption DEF Variables
<1>2. table' = [table EXCEPT ![Hash[k]] = new]
  BY <1>1, SlotOf DEF Insert, Chain, TypeOK
<1>3. Chain(k) \in Seq(Variables) /\ Hash[k] \in Slots
  BY <1>1, SlotOf DEF Chain, TypeOK
<1>4. \A i \in DOMAIN Chain(k) : Chain(k)[i].key # k
  BY <1>1, HoldsIs DEF Found, Chain
<1> HIDE DEF var
<1>5. /\ new \in Seq(Variables) /\ DOMAIN new = 1 .. Len(Chain(k)) + 1 /\ new[1] = var
      /\ \A i \in DOMAIN Chain(k) : new[i + 1] = Chain(k)[i]
      /\ \A i \in DOMAIN new : i = 1 \/ (i - 1 \in DOMAIN Chain(k) /\ new[i] = Chain(k)[i - 1])
  BY <1>1, <1>3, Inserted
<1> HIDE DEF new
<1>6. /\ table' \in [Slots -> Seq(Variables)] /\ Chain(k)' = new
      /\ \A s \in Slots : s # Hash[k] => table'[s] = table[s]
      /\ \A n \in Names : Hash[n] # Hash[k] => Chain(n)' = Chain(n)
      /\ \A n \in Names : Hash[n] = Hash[k] => Chain(n)' = new
      /\ table'[Hash[k]] = new
  BY <1>1, <1>2, <1>3, <1>5, OtherChains DEF Chain
<1>7. Sound(new, Hash[k])
  <2>1. \A i \in DOMAIN Chain(k) :
          /\ Hash[Chain(k)[i].key] = Hash[k] /\ Chain(k)[i].key \in Valid
          /\ \A j \in DOMAIN Chain(k) : Chain(k)[i].key = Chain(k)[j].key => i = j
    BY <1>3 DEF ChainsAreSound, Chain
  <2>2. \A i \in DOMAIN new : Hash[new[i].key] = Hash[k] /\ new[i].key \in Valid
    BY <1>1, <1>5, <2>1
  <2>3. ASSUME NEW i \in DOMAIN new, NEW j \in DOMAIN new, new[i].key = new[j].key
        PROVE  i = j
    <3>1. i \in Nat /\ j \in Nat
      BY <1>3, <1>5
    <3> QED BY <1>1, <1>4, <1>5, <2>1, <2>3, <3>1
  <2> QED BY <2>2, <2>3 DEF Sound
<1>8. ChainsAreSound'
  BY <1>1, <1>2, <1>7, StillSound
<1>9. ASSUME NEW n \in Names, NEW x
      PROVE  Has(n, x)' <=> IF n = k THEN x = v ELSE Has(n, x)
  <2>1. CASE Hash[n] # Hash[k]
    BY <2>1, <1>6 DEF Has
  <2>2. CASE Hash[n] = Hash[k]
    <3>1. Chain(n)' = new /\ Chain(n) = Chain(k)
      BY <1>6, <2>2 DEF Chain
    <3>2. CASE n = k
      <4>1. 1 \in DOMAIN new
        BY <1>3, <1>5
      <4>2. \A i \in DOMAIN new : new[i].key = k => i = 1
        BY <1>4, <1>5
      <4> QED BY <3>1, <3>2, <4>1, <4>2, <1>1, <1>5 DEF Has
    <3>3. CASE n # k
      <4>1. \A i \in DOMAIN Chain(k) : i + 1 \in DOMAIN new
        BY <1>3, <1>5
      <4>2. ASSUME Has(n, x) PROVE Has(n, x)'
        <5>1. PICK i \in DOMAIN Chain(k) : Chain(k)[i].key = n /\ Chain(k)[i].value = x
          BY <3>1, <4>2 DEF Has
        <5>2. i + 1 \in DOMAIN new /\ new[i + 1].key = n /\ new[i + 1].value = x
          BY <1>5, <4>1, <5>1
        <5> QED BY <3>1, <5>2 DEF Has
      <4>3. ASSUME Has(n, x)' PROVE Has(n, x)
        <5>1. PICK i \in DOMAIN new : new[i].key = n /\ new[i].value = x
          BY <3>1, <4>3 DEF Has
        <5>2. i - 1 \in DOMAIN Chain(k) /\ new[i] = Chain(k)[i - 1]
          BY <1>1, <1>5, <3>3, <5>1
        <5> QED BY <3>1, <5>1, <5>2 DEF Has
      <4> QED BY <3>3, <4>2, <4>3
    <3> QED BY <3>2, <3>3
  <2> QED BY <2>1, <2>2
<1> QED BY <1>6, <1>8, <1>9

LEMMA OverwriteStep ==
  ASSUME TypeOK, ChainsAreSound, NEW k \in Valid, NEW v \in Values \cup {Lost},
         NEW i \in DOMAIN table[Hash[k]], Holds(k, i), Overwrite(k, i, v)
  PROVE  /\ table' \in [Slots -> Seq(Variables)] /\ ChainsAreSound'
         /\ \A n \in Names : \A x : Has(n, x)' <=> IF n = k THEN x = v ELSE Has(n, x)
<1> DEFINE new == [Chain(k) EXCEPT ![i].value = v]
<1>1. k \in Names /\ Hash[k] \in Slots /\ Chain(k) \in Seq(Variables)
  BY NamesAssumption, SlotOf DEF TypeOK, Chain
<1>2. i \in DOMAIN Chain(k) /\ Chain(k)[i].key = k
  BY <1>1, HoldsIs
<1>3. table' = [table EXCEPT ![Hash[k]] = new]
  BY <1>1 DEF Overwrite, Chain, TypeOK
<1>4. /\ new \in Seq(Variables) /\ DOMAIN new = DOMAIN Chain(k)
      /\ \A j \in DOMAIN Chain(k) :
           new[j].key = Chain(k)[j].key /\ new[j].value = IF j = i THEN v ELSE Chain(k)[j].value
  BY <1>1, <1>2, Updated
<1>5. Sound(Chain(k), Hash[k])
  BY <1>1 DEF ChainsAreSound, Chain, Sound
<1> HIDE DEF new
<1>6. Sound(new, Hash[k])
  BY <1>4, <1>5 DEF Sound
<1>7. ChainsAreSound' /\ table' \in [Slots -> Seq(Variables)]
  BY <1>1, <1>3, <1>4, <1>6, StillSound, OtherChains
<1>8. ASSUME NEW n \in Names, NEW x
      PROVE  Has(n, x)' <=> IF n = k THEN x = v ELSE Has(n, x)
  <2>1. CASE Hash[n] # Hash[k]
    BY <2>1, <1>1, <1>3, OtherChains DEF Has
  <2>2. CASE Hash[n] = Hash[k]
    <3>1. Chain(n)' = new /\ Chain(n) = Chain(k)
      BY <2>2, <1>1, <1>3, OtherChains DEF Chain
    <3>2. \A j \in DOMAIN Chain(k) : Chain(k)[j].key = k <=> j = i
      BY <1>2, <1>5 DEF Sound
    <3>3. CASE n = k
      BY <3>1, <3>2, <3>3, <1>2, <1>4 DEF Has
    <3>4. CASE n # k
      BY <3>1, <3>2, <3>4, <1>4 DEF Has
    <3> QED BY <3>3, <3>4
  <2> QED BY <2>1, <2>2
<1> QED BY <1>7, <1>8

LEMMA UnlinkStep ==
  ASSUME TypeOK, ChainsAreSound, NEW k \in Names, NEW i \in DOMAIN table[Hash[k]],
         Holds(k, i), table' = [table EXCEPT ![Hash[k]] = Unlink(@, i)]
  PROVE  /\ table' \in [Slots -> Seq(Variables)] /\ ChainsAreSound'
         /\ \A n \in Names : \A x : Has(n, x)' <=> n # k /\ Has(n, x)
<1> DEFINE new == Unlink(Chain(k), i)
           from(j) == IF j < i THEN j ELSE j + 1
<1>1. Hash[k] \in Slots /\ Chain(k) \in Seq(Variables)
  BY SlotOf DEF TypeOK, Chain
<1>2. i \in DOMAIN Chain(k) /\ Chain(k)[i].key = k /\ i \in 1 .. Len(Chain(k))
  BY <1>1, HoldsIs
<1>3. table' = [table EXCEPT ![Hash[k]] = new]
  BY <1>1 DEF Chain, TypeOK
<1>4. /\ new \in Seq(Variables) /\ DOMAIN new = 1 .. Len(Chain(k)) - 1
      /\ \A j \in DOMAIN new : new[j] = Chain(k)[from(j)]
  BY <1>1, <1>2, Unlinked
<1>5. Sound(Chain(k), Hash[k])
  BY <1>1 DEF ChainsAreSound, Chain, Sound
<1> HIDE DEF new
<1>6. /\ \A j \in DOMAIN new : from(j) \in DOMAIN Chain(k) /\ from(j) # i
      /\ \A j, l \in DOMAIN new : from(j) = from(l) => j = l
      /\ \A l \in DOMAIN Chain(k) : l # i => \E j \in DOMAIN new : from(j) = l
  <2>1. Len(Chain(k)) \in Nat /\ DOMAIN Chain(k) = 1 .. Len(Chain(k)) /\ i \in Nat
    BY <1>1, <1>2
  <2>2. ASSUME NEW l \in DOMAIN Chain(k), l # i
        PROVE  \E j \in DOMAIN new : from(j) = l
    <3>1. CASE l < i
      <4>1. l \in DOMAIN new /\ from(l) = l
        BY <1>2, <1>4, <2>1, <2>2, <3>1
      <4> QED BY <4>1
    <3>2. CASE ~(l < i)
      <4>1. l - 1 \in DOMAIN new /\ from(l - 1) = l
        BY <1>2, <1>4, <2>1, <2>2, <3>2
      <4> QED BY <4>1
    <3> QED BY <3>1, <3>2
  <2>3. \A j \in DOMAIN new : from(j) \in DOMAIN Chain(k) /\ from(j) # i
    BY <1>2, <1>4, <2>1
  <2>4. \A j, l \in DOMAIN new : from(j) = from(l) => j = l
    BY <1>2, <1>4, <2>1
  <2> QED BY <2>2, <2>3, <2>4
<1> HIDE DEF from
<1>7. Sound(new, Hash[k])
  BY <1>4, <1>5, <1>6 DEF Sound
<1>8. ChainsAreSound' /\ table' \in [Slots -> Seq(Variables)]
  BY <1>1, <1>3, <1>4, <1>7, StillSound, OtherChains
<1>9. ASSUME NEW n \in Names, NEW x PROVE Has(n, x)' <=> n # k /\ Has(n, x)
  <2>1. CASE Hash[n] # Hash[k]
    BY <2>1, <1>1, <1>3, OtherChains DEF Has
  <2>2. CASE Hash[n] = Hash[k]
    <3>1. Chain(n)' = new /\ Chain(n) = Chain(k)
      BY <2>2, <1>1, <1>3, OtherChains DEF Chain
    <3>2. \A j \in DOMAIN Chain(k) : Chain(k)[j].key = k <=> j = i
      BY <1>2, <1>5 DEF Sound
    <3>3. Has(n, x)' => n # k /\ Has(n, x)
      BY <3>1, <3>2, <1>4, <1>6 DEF Has
    <3>4. n # k /\ Has(n, x) => Has(n, x)'
      <4> SUFFICES ASSUME n # k, Has(n, x) PROVE Has(n, x)'
        OBVIOUS
      <4>1. PICK l \in DOMAIN Chain(k) : Chain(k)[l].key = n /\ Chain(k)[l].value = x
        BY <3>1 DEF Has
      <4>2. PICK j \in DOMAIN new : from(j) = l
        BY <1>6, <3>2, <4>1
      <4> QED BY <3>1, <4>1, <4>2, <1>4 DEF Has
    <3> QED BY <3>3, <3>4
  <2> QED BY <2>1, <2>2
<1> QED BY <1>8, <1>9

-----------------------------------------------------------------------------
(* The invariant                                                            *)

LEMMA InitInv == Init => Inv
<1> SUFFICES ASSUME Init PROVE Inv
  OBVIOUS
<1>1. DOMAIN handed = {} /\ \A s \in Slots : table[s] = <<>> /\ DOMAIN table[s] = {}
  BY DEF Init
<1>2. TypeOK
  BY <1>1, LimitsAssumption DEF TypeOK, Init
<1> QED BY <1>1, <1>2 DEF Inv, ChainsAreSound, HandedOnce

LEMMA NextArgTyped ==
  ASSUME TypeOK, NEW arg \in Args, Exporting(arg), NextArg
  PROVE  todo' \in Seq(Args)
BY DEF TypeOK, Exporting, NextArg

(* What a launch is handed is sound because the table is.                   *)
LEMMA LaunchInv ==
  ASSUME Inv, BuildEnvp
  PROVE  Inv'
<1>1. \A p \in Places : /\ p \in Slots \X Nat /\ At(p) \in Variables
                        /\ p[2] \in DOMAIN table[p[1]] /\ Hash[At(p).key] = p[1]
  <2> SUFFICES ASSUME NEW p \in Places
               PROVE  /\ p \in Slots \X Nat /\ At(p) \in Variables
                      /\ p[2] \in DOMAIN table[p[1]] /\ Hash[At(p).key] = p[1]
    OBVIOUS
  <2>1. PICK s \in Slots : \E i \in DOMAIN table[s] : p = <<s, i>>
    BY PlacesAre
  <2>2. PICK i \in DOMAIN table[s] : p = <<s, i>>
    BY <2>1
  <2>3. table[s] \in Seq(Variables)
    BY DEF Inv, TypeOK
  <2> QED BY <2>2, <2>3 DEF Inv, ChainsAreSound, At
<1>2. \A p, q \in Places : At(p).key = At(q).key => p = q
  <2> SUFFICES ASSUME NEW p \in Places, NEW q \in Places, At(p).key = At(q).key
               PROVE  p = q
    OBVIOUS
  <2>1. p[1] = q[1] /\ p = <<p[1], p[2]>> /\ q = <<q[1], q[2]>> /\ p[1] \in Slots
    BY <1>1
  <2>2. p[2] = q[2]
    BY <1>1, <2>1 DEF Inv, ChainsAreSound, At
  <2> QED BY <2>1, <2>2
<1>3. /\ DOMAIN handed' = Places
      /\ \A p \in Places : handed'[p] = At(p)
      /\ UNCHANGED <<pc, table, todo, failures>>
  BY DEF BuildEnvp
<1>4. TypeOK'
  BY <1>1, <1>3 DEF Inv, TypeOK
<1>5. HandedOnce'
  BY <1>2, <1>3 DEF HandedOnce
<1>6. ChainsAreSound'
  BY <1>3 DEF Inv, ChainsAreSound
<1> QED BY <1>4, <1>5, <1>6 DEF Inv

(* Which steps change what the names have, and how.                         *)
Gives(k, v) == \A n \in Names : \A x : Has(n, x)' <=> IF n = k THEN x = v ELSE Has(n, x)
Takes(k)    == \A n \in Names : \A x : Has(n, x)' <=> n # k /\ Has(n, x)

LEMMA AddStep ==
  ASSUME Inv, NEW arg \in Args, AddNew(arg)
  PROVE  /\ Inv' /\ UNCHANGED handed
         /\ \A x : ~Has(arg.key, x)
         /\ NewValue(arg) \in Values
         /\ \/ Gives(arg.key, NewValue(arg)) /\ NextArg
            \/ UNCHANGED table /\ GivesUp
<1>1. arg.key \in Valid /\ ~Found(arg.key) /\ NewValue(arg) \in Values /\ UNCHANGED handed
  BY ValuesAssumption DEF AddNew, Args, NewValue, NextArg, GivesUp
<1>0. \A x : ~Has(arg.key, x)
  BY <1>1, NamesAssumption, HoldsIs DEF Found, Has, Chain, Inv
<1>2. CASE Insert(arg.key, NewValue(arg)) /\ NextArg
  <2>1. /\ table' \in [Slots -> Seq(Variables)] /\ ChainsAreSound'
        /\ Gives(arg.key, NewValue(arg))
    BY <1>1, <1>2, InsertStep DEF Inv, Gives
  <2>2. todo' \in Seq(Args) /\ UNCHANGED <<pc, handed, failures>>
    BY <1>2, NextArgTyped DEF Inv, AddNew, NextArg
  <2>3. Inv'
    BY <1>1, <2>1, <2>2 DEF Inv, TypeOK, HandedOnce
  <2> QED BY <1>0, <1>1, <1>2, <2>1, <2>3
<1>3. CASE UNCHANGED table /\ GivesUp
  <2>1. TypeOK'
    BY <1>3, LimitsAssumption DEF Inv, TypeOK, GivesUp
  <2> QED BY <1>0, <1>1, <1>3, <2>1 DEF Inv, ChainsAreSound, HandedOnce
<1> QED BY <1>2, <1>3 DEF AddNew

LEMMA UpdateStep ==
  ASSUME Inv, NEW arg \in Args, Update(arg)
  PROVE  /\ Inv' /\ UNCHANGED handed
         /\ \E x : Has(arg.key, x) /\ (arg.value = None => x # Lost)
         /\ \/ \E v \in IF arg.value = None THEN Values ELSE {arg.value} :
                 v \in Values /\ Gives(arg.key, v) /\ NextArg
            \/ Gives(arg.key, Lost) /\ GivesUp
<1> DEFINE given == IF arg.value = None THEN Values ELSE {arg.value}
<1>1. /\ arg.key \in Valid /\ arg.key \in Names /\ Exporting(arg) /\ UNCHANGED handed
      /\ \A v \in given : v \in Values
  BY NamesAssumption DEF Update, NextArg, GivesUp, Args
<1>2. PICK i \in DOMAIN table[Hash[arg.key]] :
        /\ Holds(arg.key, i)
        /\ arg.value = None => table[Hash[arg.key]][i].value # Lost
        /\ \/ \E v \in given : Overwrite(arg.key, i, v) /\ NextArg
           \/ Overwrite(arg.key, i, Lost) /\ GivesUp
  BY DEF Update
<1> HIDE DEF given
<1>3. \E x : Has(arg.key, x) /\ (arg.value = None => x # Lost)
  BY <1>1, <1>2, HoldsIs DEF Inv, Has, Chain
<1>4. CASE \E v \in given : Overwrite(arg.key, i, v) /\ NextArg
  <2>1. PICK v \in given : Overwrite(arg.key, i, v) /\ NextArg
    BY <1>4
  <2>2. v \in Values
    BY <1>1, <2>1
  <2>3. table' \in [Slots -> Seq(Variables)] /\ ChainsAreSound' /\ Gives(arg.key, v)
    BY <1>1, <1>2, <2>1, <2>2, OverwriteStep DEF Inv, Gives
  <2>4. todo' \in Seq(Args) /\ UNCHANGED <<pc, handed, failures>>
    BY <1>1, <2>1, NextArgTyped DEF Inv, NextArg
  <2>5. Inv'
    BY <2>3, <2>4 DEF Inv, TypeOK, HandedOnce
  <2> QED BY <1>1, <1>3, <2>1, <2>2, <2>3, <2>5 DEF given
<1>5. CASE Overwrite(arg.key, i, Lost) /\ GivesUp
  <2>1. table' \in [Slots -> Seq(Variables)] /\ ChainsAreSound' /\ Gives(arg.key, Lost)
    BY <1>1, <1>2, <1>5, OverwriteStep DEF Inv, Gives
  <2>2. TypeOK'
    BY <1>5, <2>1, LimitsAssumption DEF Inv, TypeOK, GivesUp
  <2> QED BY <1>1, <1>3, <1>5, <2>1, <2>2 DEF Inv, HandedOnce
<1> QED BY <1>2, <1>4, <1>5

LEMMA UnsetStep ==
  ASSUME Inv, NEW arg \in Args, Unset(arg)
  PROVE  Inv' /\ UNCHANGED handed /\ Takes(arg.key)
<1>1. arg.key \in Names /\ UNCHANGED <<handed, failures>> /\ pc' = "prompt" /\ todo' = <<>>
  BY DEF Unset, Args
<1>2. CASE \E i \in DOMAIN table[Hash[arg.key]] :
             /\ Holds(arg.key, i)
             /\ table' = [table EXCEPT ![Hash[arg.key]] = Unlink(@, i)]
  <2>1. table' \in [Slots -> Seq(Variables)] /\ ChainsAreSound' /\ Takes(arg.key)
    BY <1>1, <1>2, UnlinkStep DEF Inv, Takes
  <2> QED BY <1>1, <2>1 DEF Inv, TypeOK, HandedOnce
<1>3. CASE ~Found(arg.key) /\ UNCHANGED table
  <2>1. \A x : ~Has(arg.key, x)
    BY <1>1, <1>3, HoldsIs DEF Found, Has, Chain, Inv
  <2>2. Takes(arg.key)
    BY <1>3, <2>1 DEF Takes, Has, Chain
  <2> QED BY <1>1, <1>3, <2>2 DEF Inv, TypeOK, ChainsAreSound, HandedOnce
<1> QED BY <1>2, <1>3 DEF Unset

Quiet ==
  \/ Export \/ ExportDone \/ UnsetCommand \/ UnsetNothing \/ BuildLost \/ BuildFails
  \/ \E arg \in Args : SkipInvalid(arg) \/ CopyNothing(arg)

LEMMA QuietStep ==
  ASSUME Inv, Quiet
  PROVE  Inv' /\ UNCHANGED <<table, handed>>
<1>1. CASE Export
  <2>1. PICK n \in 1 .. MaxArgs : todo' \in [1 .. n -> Args]
    BY <1>1 DEF Export
  <2>2. todo' \in Seq(Args)
    BY <2>1, LimitsAssumption
  <2> QED BY <1>1, <2>2 DEF Export, Inv, TypeOK, ChainsAreSound, HandedOnce
<1>2. CASE ExportDone
  BY <1>2 DEF ExportDone, Inv, TypeOK, ChainsAreSound, HandedOnce
<1>3. CASE UnsetNothing \/ BuildLost
  BY <1>3 DEF UnsetNothing, BuildLost, Inv, TypeOK, ChainsAreSound, HandedOnce
<1>4. CASE BuildFails
  BY <1>4, LimitsAssumption DEF BuildFails, Inv, TypeOK, ChainsAreSound, HandedOnce
<1>5. CASE \E arg \in Args : SkipInvalid(arg) \/ CopyNothing(arg)
  <2>1. PICK arg \in Args : SkipInvalid(arg) \/ CopyNothing(arg)
    BY <1>5
  <2>2. CASE SkipInvalid(arg)
    <3>1. todo' \in Seq(Args)
      BY <2>2, NextArgTyped DEF Inv, SkipInvalid
    <3> QED
      BY <2>2, <3>1 DEF SkipInvalid, NextArg, Inv, TypeOK, ChainsAreSound, HandedOnce
  <2>3. CASE CopyNothing(arg)
    BY <2>3 DEF CopyNothing, Inv, TypeOK, ChainsAreSound, HandedOnce
  <2> QED BY <2>1, <2>2, <2>3
<1>6. CASE UnsetCommand
  <2>1. todo' \in Seq(Args)
    <3>1. CASE todo' = <<>>
      BY <3>1
    <3>2. ASSUME NEW key \in Names, todo' = <<[key |-> key, value |-> None]>>
          PROVE  todo' \in Seq(Args)
      <4>1. [key |-> key, value |-> None] \in Args
        BY DEF Args
      <4> QED BY <3>2, <4>1
    <3> QED BY <1>6, <3>1, <3>2 DEF UnsetCommand
  <2> QED BY <1>6, <2>1 DEF UnsetCommand, Inv, TypeOK, ChainsAreSound, HandedOnce
<1> QED BY <1>1, <1>2, <1>3, <1>4, <1>5, <1>6 DEF Quiet

LEMMA NextIs ==
  Next => \/ Quiet \/ BuildEnvp
          \/ \E arg \in Args : AddNew(arg) \/ Update(arg) \/ Unset(arg)
BY DEF Next, Quiet

LEMMA NextInv == Inv /\ [Next]_vars => Inv'
<1> SUFFICES ASSUME Inv, [Next]_vars PROVE Inv'
  OBVIOUS
<1>1. CASE Quiet
  BY <1>1, QuietStep
<1>2. CASE BuildEnvp
  BY <1>2, LaunchInv
<1>3. ASSUME NEW arg \in Args, AddNew(arg) \/ Update(arg) \/ Unset(arg) PROVE Inv'
  BY <1>3, AddStep, UpdateStep, UnsetStep
<1>4. CASE UNCHANGED vars
  BY <1>4 DEF vars, Inv, TypeOK, ChainsAreSound, HandedOnce
<1> QED BY <1>1, <1>2, <1>3, <1>4, NextIs

LEMMA SpecInv == Spec => []Inv
BY InitInv, NextInv, PTL DEF Spec

(* What a variable of EnvTable holds has its type in every behaviour.       *)
THEOREM TypeCorrect == Spec => []TypeOK
<1>1. Inv => TypeOK
  BY DEF Inv
<1> QED BY <1>1, SpecInv, PTL

(* However add_variable and remove_variable change the chains, a name is in *)
(* the table once, in the chain its hash says (env_utils.c:24-94).          *)
THEOREM ChainsStaySound == Spec => []ChainsAreSound
<1>1. Inv => ChainsAreSound
  BY DEF Inv
<1> QED BY <1>1, SpecInv, PTL

(* build_envp hands no command the same name twice (env_utils.c:170-206).   *)
THEOREM EnvpIsAMap == Spec => []HandedOnce
<1>1. Inv => HandedOnce
  BY DEF Inv
<1> QED BY <1>1, SpecInv, PTL

-----------------------------------------------------------------------------
(* The refinement                                                           *)

LEMMA InvValued == Inv => Valued
BY ValueIs DEF Inv

LEMMA ValuesChange ==
  ASSUME Inv, Inv', NEW k \in Names, NEW new,
         \/ new \in Values \cup {Lost} /\ Gives(k, new)
         \/ new = None /\ Takes(k)
  PROVE  [n \in Names |-> ValueOf(n)]' = [[n \in Names |-> ValueOf(n)] EXCEPT ![k] = new]
<1>1. Valued /\ Valued'
  <2>1. Inv' => Valued'
    BY InvValued, PTL
  <2> QED BY <2>1, InvValued
<1>2. ASSUME NEW n \in Names
      PROVE  ValueOf(n)' = IF n = k THEN new ELSE ValueOf(n)
  <2>1. CASE new \in Values \cup {Lost} /\ Gives(k, new)
    <3>1. CASE n = k
      BY <1>1, <2>1, <3>1 DEF Valued, Gives
    <3>2. CASE n # k
      BY <1>1, <2>1, <3>2 DEF Valued, Gives
    <3> QED BY <3>1, <3>2
  <2>2. CASE new = None /\ Takes(k)
    <3>1. CASE n = k
      BY <1>1, <2>2, <3>1 DEF Valued, Takes
    <3>2. CASE n # k
      BY <1>1, <2>2, <3>2 DEF Valued, Takes
    <3> QED BY <3>1, <3>2
  <2> QED BY <2>1, <2>2
<1> QED BY <1>2

(* What the map has for a name, read off the chains.                        *)
LEMMA MapHas ==
  ASSUME Inv, NEW n \in Names
  PROVE  /\ \A x : Has(n, x) => [m \in Names |-> ValueOf(m)][n] = x /\ x # None
         /\ (\A x : ~Has(n, x)) => [m \in Names |-> ValueOf(m)][n] = None
BY InvValued, ValuesAssumption DEF Valued

LEMMA SameValues ==
  ASSUME UNCHANGED <<table, handed>>
  PROVE  /\ [n \in Names |-> ValueOf(n)]' = [n \in Names |-> ValueOf(n)]
         /\ {<<handed[p].key, handed[p].value>> : p \in DOMAIN handed}'
              = {<<handed[p].key, handed[p].value>> : p \in DOMAIN handed}
BY DEF ValueOf, Places, At

(* What can be read of a value that is not there any more.                  *)
LEMMA LostMaps ==
  ASSUME Inv, NEW n \in Names, NEW i, i \in DOMAIN table[Hash[n]],
         table[Hash[n]][i].key = n, table[Hash[n]][i].value = Lost
  PROVE  [m \in Names |-> ValueOf(m)][n] = Lost
<1>1. Has(n, Lost)
  BY DEF Has, Chain
<1> QED BY <1>1, MapHas

LEMMA LaunchMaps ==
  ASSUME Inv, BuildEnvp
  PROVE  Map!Launch
<1> DEFINE env == [n \in Names |-> ValueOf(n)]
           set == {n \in Names : env[n] # None}
<1>1. Valued
  BY ValueIs DEF Inv
<1>2. \A p \in Places : /\ At(p).key \in Names
                        /\ ValueOf(At(p).key) = At(p).value /\ At(p).value # None
  <2> SUFFICES ASSUME NEW p \in Places
               PROVE  /\ At(p).key \in Names
                      /\ ValueOf(At(p).key) = At(p).value /\ At(p).value # None
    OBVIOUS
  <2>1. PICK s \in Slots : \E i \in DOMAIN table[s] : p = <<s, i>>
    BY PlacesAre
  <2>2. PICK i \in DOMAIN table[s] : p = <<s, i>>
    BY <2>1
  <2>3. At(p) = table[s][i] /\ At(p) \in Variables
    BY <2>2 DEF Inv, TypeOK, At
  <2>4. At(p).key \in Names
    BY <2>3 DEF Variables
  <2> QED BY <1>1, <2>4, ValuesAssumption DEF Valued
<1>3. \A n \in Names : ValueOf(n) # None =>
        \E p \in Places : At(p).key = n /\ At(p).value = ValueOf(n)
  <2> SUFFICES ASSUME NEW n \in Names, ValueOf(n) # None
               PROVE  \E p \in Places : At(p).key = n /\ At(p).value = ValueOf(n)
    OBVIOUS
  <2>1. PICK p \in Places : At(p).key = n
    BY DEF ValueOf
  <2> QED BY <1>2, <2>1
<1>4. \A n \in Names : env[n] # Lost
  <2> SUFFICES ASSUME NEW n \in Names PROVE ValueOf(n) # Lost
    OBVIOUS
  <2>1. CASE ValueOf(n) = None
    BY <2>1, ValuesAssumption
  <2>2. CASE ValueOf(n) # None
    BY <1>3, <2>2 DEF BuildEnvp
  <2> QED BY <2>1, <2>2
<1>5. {<<handed[p].key, handed[p].value>> : p \in DOMAIN handed}'
        = {<<At(p).key, At(p).value>> : p \in Places}
  BY DEF BuildEnvp
<1>6. {<<At(p).key, At(p).value>> : p \in Places} = {<<n, env[n]>> : n \in set}
  <2>1. ASSUME NEW p \in Places
        PROVE  \E n \in set : <<At(p).key, At(p).value>> = <<n, env[n]>>
    BY <1>2
  <2>2. ASSUME NEW n \in set
        PROVE  \E p \in Places : <<n, env[n]>> = <<At(p).key, At(p).value>>
    BY <1>3
  <2>3. ASSUME NEW e \in {<<At(p).key, At(p).value>> : p \in Places}
        PROVE  e \in {<<n, env[n]>> : n \in set}
    <3>1. PICK p \in Places : e = <<At(p).key, At(p).value>>
      OBVIOUS
    <3>2. PICK n \in set : e = <<n, env[n]>>
      BY <2>1, <3>1
    <3> QED BY <3>2
  <2>4. ASSUME NEW e \in {<<n, env[n]>> : n \in set}
        PROVE  e \in {<<At(p).key, At(p).value>> : p \in Places}
    <3>1. PICK n \in set : e = <<n, env[n]>>
      OBVIOUS
    <3>2. PICK p \in Places : e = <<At(p).key, At(p).value>>
      BY <2>2, <3>1
    <3> QED BY <3>2
  <2> QED BY <2>3, <2>4
<1>7. UNCHANGED <<env, pc, todo>> /\ pc = "prompt"
  BY DEF BuildEnvp, ValueOf, Places, At
<1> QED BY <1>4, <1>5, <1>6, <1>7 DEF Map!Launch

LEMMA QuietMaps ==
  ASSUME Inv, Quiet
  PROVE  Map!Next
<1> DEFINE env == [n \in Names |-> ValueOf(n)]
           given == {<<handed[p].key, handed[p].value>> : p \in DOMAIN handed}
<1>0. env' = env /\ given' = given /\ todo' \in Seq(Args) /\ Map!Args = Args
  BY QuietStep, SameValues DEF Inv, TypeOK, Map!Args, Args
<1> HIDE DEF env, given
<1> USE DEF Map!Args
<1>1. CASE Export \/ UnsetCommand
  <2>1. Map!Ask
    BY <1>0, <1>1 DEF Map!Ask, Export, UnsetCommand, env, given
  <2> QED BY <2>1 DEF Map!Next
<1>2. CASE ExportDone
  <2>1. Map!Done
    BY <1>0, <1>2 DEF Map!Done, Map!Return, ExportDone, env, given
  <2> QED BY <2>1 DEF Map!Next
<1>3. CASE UnsetNothing
  <2>1. Map!Crash
    BY <1>0, <1>3 DEF Map!Crash, UnsetNothing, env, given
  <2> QED BY <2>1 DEF Map!Next
<1>4. CASE BuildLost
  <2>1. PICK p \in Places : At(p).value = Lost
    BY <1>4 DEF BuildLost
  <2>2. PICK s \in Slots : \E i \in DOMAIN table[s] : p = <<s, i>>
    BY PlacesAre
  <2>3. PICK i \in DOMAIN table[s] : p = <<s, i>>
    BY <2>2
  <2>4. table[s][i] \in Variables /\ s = Hash[table[s][i].key] /\ table[s][i].value = Lost
    BY <2>1, <2>3 DEF Inv, TypeOK, ChainsAreSound, At
  <2>5. table[s][i].key \in Names
    BY <2>4 DEF Variables
  <2>6. env[table[s][i].key] = Lost
    BY <2>3, <2>4, <2>5, LostMaps DEF env
  <2>7. Map!Crash
    BY <1>0, <1>4, <2>5, <2>6 DEF Map!Crash, BuildLost, env, given
  <2> QED BY <2>7 DEF Map!Next
<1>5. CASE BuildFails
  <2>1. Map!LaunchFails
    BY <1>0, <1>5 DEF Map!LaunchFails, BuildFails, env, given
  <2> QED BY <2>1 DEF Map!Next
<1>6. ASSUME NEW arg \in Args, SkipInvalid(arg) PROVE Map!Next
  <2>1. Map!Skip(arg)
    BY <1>0, <1>6
    DEF Map!Skip, Map!First, SkipInvalid, Exporting, NextArg, env, given
  <2> QED BY <1>0, <2>1 DEF Map!Next
<1>7. ASSUME NEW arg \in Args, CopyNothing(arg) PROVE Map!Next
  <2>1. arg.key \in Names /\ arg.key \in Valid /\ arg.value = None /\ Exporting(arg)
    BY <1>7 DEF CopyNothing, Args
  <2>2. PICK i \in DOMAIN table[Hash[arg.key]] :
          Holds(arg.key, i) /\ table[Hash[arg.key]][i].value = Lost
    BY <1>7 DEF CopyNothing
  <2>3. env[arg.key] = Lost
    BY <2>1, <2>2, LostMaps DEF env, Holds
  <2>4. Map!Given(arg) = {}
    BY <2>1, <2>3, ValuesAssumption DEF Map!Given, env
  <2>5. Map!Crash
    BY <1>0, <1>7, <2>1, <2>4
    DEF Map!Crash, Map!First, CopyNothing, Exporting, env, given
  <2> QED BY <2>5 DEF Map!Next
<1> QED BY <1>1, <1>2, <1>3, <1>4, <1>5, <1>6, <1>7 DEF Quiet

(* One argument of export: its name gets a value the argument gives it, or  *)
(* the memory for it is missing.                                            *)
LEMMA ExportMaps ==
  ASSUME Inv, Inv', NEW arg \in Args, Exporting(arg), arg.key \in Valid, UNCHANGED handed,
         NEW v \in Values, Gives(arg.key, v), NextArg, v \in Map!Given(arg)
  PROVE  Map!Next
<1>1. arg.key \in Names /\ arg \in Map!Args
  BY DEF Args, Map!Args
<1>2. [n \in Names |-> ValueOf(n)]' = [[n \in Names |-> ValueOf(n)] EXCEPT ![arg.key] = v]
  BY <1>1, ValuesChange
<1> DEFINE env   == [n \in Names |-> ValueOf(n)]
           given == {<<handed[p].key, handed[p].value>> : p \in DOMAIN handed}
<1>3. given' = given /\ \E w \in Map!Given(arg) : env' = [env EXCEPT ![arg.key] = w]
  BY <1>2
<1> HIDE DEF env, given
<1>4. Map!Set(arg)
  BY <1>1, <1>3 DEF Map!Set, Map!First, Exporting, NextArg, env, given
<1> QED BY <1>1, <1>4 DEF Map!Next

LEMMA GiveUpMaps ==
  ASSUME Inv, Inv', NEW arg \in Args, Exporting(arg), arg.key \in Valid, UNCHANGED handed,
         GivesUp, Map!Given(arg) # {},
         \/ UNCHANGED table /\ \A x : ~Has(arg.key, x)
         \/ Gives(arg.key, Lost) /\ \E x : Has(arg.key, x)
  PROVE  Map!Next
<1> DEFINE env == [n \in Names |-> ValueOf(n)]
<1>1. arg.key \in Names /\ arg \in Map!Args
  BY DEF Args, Map!Args
<1>2. env' = [env EXCEPT ![arg.key] = IF @ = None THEN None ELSE Lost]
  <2>1. CASE UNCHANGED table /\ \A x : ~Has(arg.key, x)
    <3>1. env' = env /\ env[arg.key] = None
      BY <1>1, <2>1, MapHas, SameValues
    <3> QED BY <3>1
  <2>2. CASE Gives(arg.key, Lost) /\ \E x : Has(arg.key, x)
    <3>1. env[arg.key] # None
      BY <1>1, <2>2, MapHas
    <3>2. env' = [env EXCEPT ![arg.key] = Lost]
      BY <1>1, <2>2, ValuesChange
    <3> QED BY <3>1, <3>2
  <2> QED BY <2>1, <2>2
<1>3. Map!GiveUp(arg)
  BY <1>1, <1>2 DEF Map!GiveUp, Map!First, Map!Return, Exporting, GivesUp
<1> QED BY <1>1, <1>3 DEF Map!Next

LEMMA StepMaps == Inv /\ Inv' /\ [Next]_vars => [Map!Next]_(Map!entries)
<1> SUFFICES ASSUME Inv, Inv', [Next]_vars PROVE [Map!Next]_(Map!entries)
  OBVIOUS
<1>1. CASE Quiet
  BY <1>1, QuietMaps
<1>2. CASE BuildEnvp
  BY <1>2, LaunchMaps DEF Map!Next
<1>3. ASSUME NEW arg \in Args, AddNew(arg) PROVE Map!Next
  <2>1. /\ arg.key \in Names /\ arg.key \in Valid /\ Exporting(arg) /\ UNCHANGED handed
        /\ \A x : ~Has(arg.key, x)
    BY <1>3, AddStep DEF Args, AddNew
  <2>2. Map!Given(arg) = {NewValue(arg)}
    <3>1. [n \in Names |-> ValueOf(n)][arg.key] = None
      BY <2>1, MapHas
    <3> QED BY <3>1, ValuesAssumption DEF Map!Given, NewValue
  <2> QED BY <1>3, <2>1, <2>2, AddStep, ExportMaps, GiveUpMaps
<1>4. ASSUME NEW arg \in Args, Update(arg) PROVE Map!Next
  <2>1. arg.key \in Names /\ arg.key \in Valid /\ Exporting(arg) /\ UNCHANGED handed
    BY <1>4, UpdateStep DEF Args, Update
  <2>2. PICK x : Has(arg.key, x) /\ (arg.value = None => x # Lost)
    BY <1>4, UpdateStep
  <2>3. Map!Given(arg) = IF arg.value = None THEN Values ELSE {arg.value}
    BY <2>1, <2>2, MapHas DEF Map!Given
  <2>4. Map!Given(arg) # {}
    BY <2>3, ValuesAssumption
  <2>5. CASE \E v \in Map!Given(arg) : v \in Values /\ Gives(arg.key, v) /\ NextArg
    BY <2>1, <2>5, ExportMaps
  <2>6. CASE Gives(arg.key, Lost) /\ GivesUp
    BY <2>1, <2>2, <2>4, <2>6, GiveUpMaps
  <2> QED BY <1>4, <2>3, <2>5, <2>6, UpdateStep
<1>5. ASSUME NEW arg \in Args, Unset(arg) PROVE Map!Next
  <2>1. arg.key \in Names /\ arg \in Map!Args /\ Takes(arg.key) /\ UNCHANGED handed
    BY <1>5, UnsetStep DEF Args, Map!Args
  <2>2. [n \in Names |-> ValueOf(n)]'
          = [[n \in Names |-> ValueOf(n)] EXCEPT ![arg.key] = None]
    BY <2>1, ValuesChange
  <2>3. Map!Unset(arg)
    BY <1>5, <2>1, <2>2 DEF Map!Unset, Map!First, Map!Return, Unset
  <2> QED BY <2>1, <2>3 DEF Map!Next
<1>6. CASE UNCHANGED vars
  BY <1>6, SameValues DEF vars, Map!entries
<1> QED BY <1>1, <1>2, <1>3, <1>4, <1>5, <1>6, NextIs

(* The table implements a map from names to values, whatever the hash       *)
(* function and however many names share a chain: each export and unset     *)
(* changes what its argument says and nothing else (env_utils.c:24-94).     *)
THEOREM ImplementsMap == Spec => MapSpec
<1>1. Init => Map!Init
  <2> SUFFICES ASSUME Init PROVE Map!Init
    OBVIOUS
  <2>1. Places = {} /\ DOMAIN handed = {}
    BY DEF Init, Places
  <2>2. [n \in Names |-> ValueOf(n)] = [n \in Names |-> None]
    BY <2>1 DEF ValueOf
  <2>3. {<<handed[p].key, handed[p].value>> : p \in DOMAIN handed} = {}
    BY <2>1
  <2>4. pc = "prompt" /\ todo = <<>>
    BY DEF Init
  <2> QED BY <2>2, <2>3, <2>4 DEF Map!Init
<1>2. Inv /\ Inv' /\ [Next]_vars => [Map!Next]_(Map!entries)
  BY StepMaps
<1> QED BY <1>1, <1>2, SpecInv, PTL DEF Spec, MapSpec, Map!Spec
=============================================================================
