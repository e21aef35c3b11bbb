------------------------- MODULE ObjectHandles_proofs -------------------------
(***************************************************************************)
(* Proofs about the boxes and arrays that cross the bridge: for any number *)
(* of activations, boxes and arrays, any capacity of the pool and any      *)
(* number of arguments.                                                    *)
(***************************************************************************)
EXTENDS ObjectHandles, TLAPS

HandlesTypeOK ==
  /\ heap \in [Object -> {"unused", "live", "freed"}]
  /\ items \in [Array -> Seq(Handle)]
  /\ at \in [Activation -> {"idle", "running", "calling", "returning"}]
  /\ kind \in [Activation -> {"none", "entry", "method", "block"}]
  /\ self \in [Activation -> Handle]
  /\ args \in [Activation -> Array \cup {Null}]
  /\ params \in [Activation -> Array \cup {Null}]
  /\ owned \in [Activation -> SUBSET Object]
  /\ pool \in [Activation -> Seq(Box)]

\* What an activation has in hand, where it is.
FrameOK(a) ==
  /\ at[a] = "idle" => self[a] = Null /\ args[a] = Null
  /\ at[a] \in {"idle", "returning"} => owned[a] = {} /\ pool[a] = <<>>
  /\ at[a] # "calling" => params[a] = Null
  /\ at[a] = "returning" => kind[a] = "block"
  /\ kind[a] = "entry" => args[a] = Null
  /\ kind[a] = "block" => args[a] # Null
  /\ kind[a] \in {"entry", "block"} => self[a] = Null

\* An array that was not allocated yet holds nothing.
FreshArrays == \A r \in Array : heap[r] = "unused" => items[r] = <<>>

HandlesInv ==
  /\ HandlesTypeOK
  /\ \A a \in Activation : FrameOK(a)
  /\ FreshArrays
  /\ HeldOnce
  /\ LeaksAreKnown

-------------------------------------------------------------------------------
(* Where a box or an array is written down.                                  *)

NotOwned(o) == \A a \in Activation : o \notin owned[a]
NotSelf(o) == \A a \in Activation : o # self[a]
NotArgs(o) == \A a \in Activation : o # args[a]
NotParams(o) == \A a \in Activation : o # params[a]
NotPooled(o) == \A a \in Activation : o \notin ToSet(pool[a])

\* The array goes with its items one day.
Counted(r) == \E a \in Activation : r \in Arrays(a)

NotItem(o) == \A r \in Array : Counted(r) => o \notin ToSet(items[r])

\* Grips, one kind after the other.
AsWritten(o) ==
  /\ \A a \in Activation : <<"owned", a>> \in Grips(o) <=> o \in owned[a]
  /\ \A a \in Activation : <<"self", a>> \in Grips(o) <=> o = self[a]
  /\ \A a \in Activation : <<"args", a>> \in Grips(o) <=> o = args[a]
  /\ \A a \in Activation : <<"params", a>> \in Grips(o) <=> o = params[a]
  /\ \A a \in Activation : \A i :
        <<"pool", a, i>> \in Grips(o) <=> i \in DOMAIN pool[a] /\ pool[a][i] = o
  /\ \A r \in Array : \A i :
        <<"item", r, i>> \in Grips(o) <=> Counted(r) /\ i \in DOMAIN items[r] /\ items[r][i] = o

LEMMA GripsAreOf ==
  ASSUME NEW o
  PROVE  AsWritten(o)
  <1> DEFINE P == UNION {{<<"pool", a, i>> : i \in {i \in DOMAIN pool[a] : pool[a][i] = o}} : a \in Activation}
             J == UNION {UNION {{<<"item", r, i>> : i \in {i \in DOMAIN items[r] : items[r][i] = o}} :
                                   r \in Arrays(a)} : a \in Activation}
             G == {<<"owned", a>> : a \in {a \in Activation : o \in owned[a]}}
             H == {<<"self", a>> : a \in {a \in Activation : o = self[a]}}
             K == {<<"args", a>> : a \in {a \in Activation : o = args[a]}}
             L == {<<"params", a>> : a \in {a \in Activation : o = params[a]}}
  <1>1. Grips(o) = G \cup H \cup K \cup L \cup P \cup J
    BY DEF Grips
  <1>2. \A g : g \in P <=> \E a \in Activation : \E i \in DOMAIN pool[a] : pool[a][i] = o /\ g = <<"pool", a, i>>
    OBVIOUS
  <1>3. \A g : g \in J <=>
           \E a \in Activation : \E r \in Arrays(a) : \E i \in DOMAIN items[r] :
              items[r][i] = o /\ g = <<"item", r, i>>
    OBVIOUS
  <1>4. \A g : g \in G <=> \E a \in Activation : o \in owned[a] /\ g = <<"owned", a>>
    OBVIOUS
  <1>5. \A g : g \in H <=> \E a \in Activation : o = self[a] /\ g = <<"self", a>>
    OBVIOUS
  <1>6. \A g : g \in K <=> \E a \in Activation : o = args[a] /\ g = <<"args", a>>
    OBVIOUS
  <1>7. \A g : g \in L <=> \E a \in Activation : o = params[a] /\ g = <<"params", a>>
    OBVIOUS
  <1> HIDE DEF P, J, G, H, K, L
  <1>8. \A a \in Activation : <<"owned", a>> \in Grips(o) <=> o \in owned[a]
    BY <1>1, <1>2, <1>3, <1>4, <1>5, <1>6, <1>7
  <1>9. \A a \in Activation : <<"self", a>> \in Grips(o) <=> o = self[a]
    BY <1>1, <1>2, <1>3, <1>4, <1>5, <1>6, <1>7
  <1>10. \A a \in Activation : <<"args", a>> \in Grips(o) <=> o = args[a]
    BY <1>1, <1>2, <1>3, <1>4, <1>5, <1>6, <1>7
  <1>11. \A a \in Activation : <<"params", a>> \in Grips(o) <=> o = params[a]
    BY <1>1, <1>2, <1>3, <1>4, <1>5, <1>6, <1>7
  <1>12. \A a \in Activation : \A i : <<"pool", a, i>> \in Grips(o) <=> i \in DOMAIN pool[a] /\ pool[a][i] = o
    BY <1>1, <1>2, <1>3, <1>4, <1>5, <1>6, <1>7
  <1>13. \A r \in Array : \A i :
           <<"item", r, i>> \in Grips(o) <=> Counted(r) /\ i \in DOMAIN items[r] /\ items[r][i] = o
    BY <1>1, <1>2, <1>3, <1>4, <1>5, <1>6, <1>7 DEF Counted
  <1> QED BY <1>8, <1>9, <1>10, <1>11, <1>12, <1>13 DEF AsWritten

\* Every grip is of one of the kinds.
LEMMA GripsKinds ==
  ASSUME HandlesTypeOK, NEW o, NEW g \in Grips(o)
  PROVE  \/ \E a \in Activation : g = <<"owned", a>>
         \/ \E a \in Activation : g = <<"self", a>>
         \/ \E a \in Activation : g = <<"args", a>>
         \/ \E a \in Activation : g = <<"params", a>>
         \/ \E a \in Activation : \E i : g = <<"pool", a, i>>
         \/ \E r \in Array : \E i : g = <<"item", r, i>>
  <1>1. \A a \in Activation : \A r : r \in Arrays(a) => r \in Array
    BY DEF Arrays, HandlesTypeOK
  <1> QED BY <1>1 DEF Grips

\* The one place where it is written down.
OnlyOwned(o, a) ==
  /\ \A b \in Activation : o \in owned[b] <=> b = a
  /\ NotSelf(o) /\ NotArgs(o) /\ NotParams(o) /\ NotPooled(o) /\ NotItem(o)

OnlySelf(o, a) ==
  /\ \A b \in Activation : o = self[b] <=> b = a
  /\ NotOwned(o) /\ NotArgs(o) /\ NotParams(o) /\ NotPooled(o) /\ NotItem(o)

OnlyArgs(o, a) ==
  /\ \A b \in Activation : o = args[b] <=> b = a
  /\ NotOwned(o) /\ NotSelf(o) /\ NotParams(o) /\ NotPooled(o) /\ NotItem(o)

OnlyParams(o, a) ==
  /\ \A b \in Activation : o = params[b] <=> b = a
  /\ NotOwned(o) /\ NotSelf(o) /\ NotArgs(o) /\ NotPooled(o) /\ NotItem(o)

OnlyPooled(o, a, i) ==
  /\ \A b \in Activation : \A j : j \in DOMAIN pool[b] /\ pool[b][j] = o <=> b = a /\ j = i
  /\ NotOwned(o) /\ NotSelf(o) /\ NotArgs(o) /\ NotParams(o) /\ NotItem(o)

OnlyItem(o, r, i) ==
  /\ \A t \in Array : \A j : Counted(t) /\ j \in DOMAIN items[t] /\ items[t][j] = o <=> t = r /\ j = i
  /\ NotOwned(o) /\ NotSelf(o) /\ NotArgs(o) /\ NotParams(o) /\ NotPooled(o)

\* Somebody is going to free it, and only one is.
Kept(o) ==
  /\ heap[o] = "live"
  /\ \/ \E a \in Activation : OnlyOwned(o, a)
     \/ \E a \in Activation : OnlySelf(o, a)
     \/ \E a \in Activation : OnlyArgs(o, a)
     \/ \E a \in Activation : OnlyParams(o, a)
     \/ \E a \in Activation, i \in Nat : OnlyPooled(o, a, i)
     \/ \E r \in Array, i \in Nat : OnlyItem(o, r, i)

\* Nobody is.
Loose(o) ==
  /\ NotOwned(o) /\ NotSelf(o) /\ NotArgs(o) /\ NotParams(o) /\ NotPooled(o) /\ NotItem(o)
  /\ heap[o] = "live" => o \in lost

\* In terms of grips, and back.
LEMMA LooseIsNone ==
  ASSUME HandlesTypeOK, NEW o
  PROVE  Grips(o) = {} <=>
           NotOwned(o) /\ NotSelf(o) /\ NotArgs(o) /\ NotParams(o) /\ NotPooled(o) /\ NotItem(o)
  <1>1. AsWritten(o)
    BY GripsAreOf
  <1>2. ASSUME Grips(o) = {}
        PROVE  NotOwned(o) /\ NotSelf(o) /\ NotArgs(o) /\ NotParams(o) /\ NotPooled(o) /\ NotItem(o)
    BY <1>1, <1>2 DEF AsWritten, NotOwned, NotSelf, NotArgs, NotParams, NotPooled, NotItem, ToSet
  <1>3. ASSUME NotOwned(o), NotSelf(o), NotArgs(o), NotParams(o), NotPooled(o), NotItem(o), NEW g \in Grips(o)
        PROVE  FALSE
    BY <1>1, <1>3, GripsKinds DEF AsWritten, NotOwned, NotSelf, NotArgs, NotParams, NotPooled, NotItem, ToSet
  <1> QED BY <1>2, <1>3

LEMMA OwnedIsOne ==
  ASSUME HandlesTypeOK, NEW o, NEW a \in Activation
  PROVE  Grips(o) = {<<"owned", a>>} <=> OnlyOwned(o, a)
  <1>1. AsWritten(o)
    BY GripsAreOf
  <1>2. ASSUME Grips(o) = {<<"owned", a>>} PROVE OnlyOwned(o, a)
    BY <1>1, <1>2 DEF AsWritten, OnlyOwned, NotSelf, NotArgs, NotParams, NotPooled, NotItem, ToSet
  <1>3. ASSUME OnlyOwned(o, a) PROVE Grips(o) = {<<"owned", a>>}
    <2>1. ASSUME NEW g \in Grips(o) PROVE g = <<"owned", a>>
      BY <1>1, <1>3, <2>1, GripsKinds DEF AsWritten, OnlyOwned, NotSelf, NotArgs, NotParams, NotPooled, NotItem, ToSet
    <2>2. <<"owned", a>> \in Grips(o)
      BY <1>1, <1>3 DEF AsWritten, OnlyOwned
    <2> QED BY <2>1, <2>2
  <1> QED BY <1>2, <1>3

LEMMA SelfIsOne ==
  ASSUME HandlesTypeOK, NEW o, NEW a \in Activation
  PROVE  Grips(o) = {<<"self", a>>} <=> OnlySelf(o, a)
  <1>1. AsWritten(o)
    BY GripsAreOf
  <1>2. ASSUME Grips(o) = {<<"self", a>>} PROVE OnlySelf(o, a)
    BY <1>1, <1>2 DEF AsWritten, OnlySelf, NotOwned, NotArgs, NotParams, NotPooled, NotItem, ToSet
  <1>3. ASSUME OnlySelf(o, a) PROVE Grips(o) = {<<"self", a>>}
    <2>1. ASSUME NEW g \in Grips(o) PROVE g = <<"self", a>>
      BY <1>1, <1>3, <2>1, GripsKinds DEF AsWritten, OnlySelf, NotOwned, NotArgs, NotParams, NotPooled, NotItem, ToSet
    <2>2. <<"self", a>> \in Grips(o)
      BY <1>1, <1>3 DEF AsWritten, OnlySelf
    <2> QED BY <2>1, <2>2
  <1> QED BY <1>2, <1>3

LEMMA ArgsIsOne ==
  ASSUME HandlesTypeOK, NEW o, NEW a \in Activation
  PROVE  Grips(o) = {<<"args", a>>} <=> OnlyArgs(o, a)
  <1>1. AsWritten(o)
    BY GripsAreOf
  <1>2. ASSUME Grips(o) = {<<"args", a>>} PROVE OnlyArgs(o, a)
    BY <1>1, <1>2 DEF AsWritten, OnlyArgs, NotOwned, NotSelf, NotParams, NotPooled, NotItem, ToSet
  <1>3. ASSUME OnlyArgs(o, a) PROVE Grips(o) = {<<"args", a>>}
    <2>1. ASSUME NEW g \in Grips(o) PROVE g = <<"args", a>>
      BY <1>1, <1>3, <2>1, GripsKinds DEF AsWritten, OnlyArgs, NotOwned, NotSelf, NotParams, NotPooled, NotItem, ToSet
    <2>2. <<"args", a>> \in Grips(o)
      BY <1>1, <1>3 DEF AsWritten, OnlyArgs
    <2> QED BY <2>1, <2>2
  <1> QED BY <1>2, <1>3

LEMMA ParamsIsOne ==
  ASSUME HandlesTypeOK, NEW o, NEW a \in Activation
  PROVE  Grips(o) = {<<"params", a>>} <=> OnlyParams(o, a)
  <1>1. AsWritten(o)
    BY GripsAreOf
  <1>2. ASSUME Grips(o) = {<<"params", a>>} PROVE OnlyParams(o, a)
    BY <1>1, <1>2 DEF AsWritten, OnlyParams, NotOwned, NotSelf, NotArgs, NotPooled, NotItem, ToSet
  <1>3. ASSUME OnlyParams(o, a) PROVE Grips(o) = {<<"params", a>>}
    <2>1. ASSUME NEW g \in Grips(o) PROVE g = <<"params", a>>
      BY <1>1, <1>3, <2>1, GripsKinds DEF AsWritten, OnlyParams, NotOwned, NotSelf, NotArgs, NotPooled, NotItem, ToSet
    <2>2. <<"params", a>> \in Grips(o)
      BY <1>1, <1>3 DEF AsWritten, OnlyParams
    <2> QED BY <2>1, <2>2
  <1> QED BY <1>2, <1>3

LEMMA PooledIsOne ==
  ASSUME HandlesTypeOK, NEW o, NEW a \in Activation, NEW i
  PROVE  Grips(o) = {<<"pool", a, i>>} <=> OnlyPooled(o, a, i)
  <1>1. AsWritten(o)
    BY GripsAreOf
  <1>2. ASSUME Grips(o) = {<<"pool", a, i>>} PROVE OnlyPooled(o, a, i)
    BY <1>1, <1>2 DEF AsWritten, OnlyPooled, NotOwned, NotSelf, NotArgs, NotParams, NotItem, ToSet
  <1>3. ASSUME OnlyPooled(o, a, i) PROVE Grips(o) = {<<"pool", a, i>>}
    <2>1. ASSUME NEW g \in Grips(o) PROVE g = <<"pool", a, i>>
      BY <1>1, <1>3, <2>1, GripsKinds DEF AsWritten, OnlyPooled, NotOwned, NotSelf, NotArgs, NotParams, NotItem, ToSet
    <2>2. <<"pool", a, i>> \in Grips(o)
      BY <1>1, <1>3 DEF AsWritten, OnlyPooled
    <2> QED BY <2>1, <2>2
  <1> QED BY <1>2, <1>3

LEMMA ItemIsOne ==
  ASSUME HandlesTypeOK, NEW o, NEW r \in Array, NEW i
  PROVE  Grips(o) = {<<"item", r, i>>} <=> OnlyItem(o, r, i)
  <1>1. AsWritten(o)
    BY GripsAreOf
  <1>2. ASSUME Grips(o) = {<<"item", r, i>>} PROVE OnlyItem(o, r, i)
    BY <1>1, <1>2 DEF AsWritten, OnlyItem, NotOwned, NotSelf, NotArgs, NotParams, NotPooled, ToSet
  <1>3. ASSUME OnlyItem(o, r, i) PROVE Grips(o) = {<<"item", r, i>>}
    <2>1. ASSUME NEW g \in Grips(o) PROVE g = <<"item", r, i>>
      BY <1>1, <1>3, <2>1, GripsKinds DEF AsWritten, OnlyItem, NotOwned, NotSelf, NotArgs, NotParams, NotPooled, ToSet
    <2>2. <<"item", r, i>> \in Grips(o)
      BY <1>1, <1>3 DEF AsWritten, OnlyItem
    <2> QED BY <2>1, <2>2
  <1> QED BY <1>2, <1>3

\* Held once and nothing leaked: everything is kept by one or known to be loose.
LEMMA KeptOrLoose ==
  HandlesTypeOK => (HeldOnce /\ LeaksAreKnown <=> \A o \in Object : Kept(o) \/ Loose(o))
  <1> SUFFICES ASSUME HandlesTypeOK
               PROVE  HeldOnce /\ LeaksAreKnown <=> \A o \in Object : Kept(o) \/ Loose(o)
    OBVIOUS
  <1>1. ASSUME HeldOnce, LeaksAreKnown, NEW o \in Object PROVE Kept(o) \/ Loose(o)
    <2>1. CASE Grips(o) = {}
      BY <1>1, <2>1, LooseIsNone DEF Loose, LeaksAreKnown
    <2>2. CASE Grips(o) # {}
      <3> PICK g \in Grips(o) : TRUE
        BY <2>2
      <3>1. Grips(o) = {g} /\ heap[o] = "live"
        BY <1>1 DEF HeldOnce
      <3>2. \/ \E a \in Activation : g = <<"owned", a>>
            \/ \E a \in Activation : g = <<"self", a>>
            \/ \E a \in Activation : g = <<"args", a>>
            \/ \E a \in Activation : g = <<"params", a>>
            \/ \E a \in Activation : \E i : g = <<"pool", a, i>>
            \/ \E r \in Array : \E i : g = <<"item", r, i>>
        BY GripsKinds
      <3>3. ASSUME NEW a \in Activation, NEW i, g = <<"pool", a, i>> PROVE i \in Nat /\ OnlyPooled(o, a, i)
        <4>1. AsWritten(o)
          BY GripsAreOf
        <4>2. i \in DOMAIN pool[a] /\ pool[a] \in Seq(Box)
          BY <3>3, <4>1 DEF AsWritten, HandlesTypeOK
        <4> QED BY <3>1, <3>3, <4>2, PooledIsOne
      <3>4. ASSUME NEW r \in Array, NEW i, g = <<"item", r, i>> PROVE i \in Nat /\ OnlyItem(o, r, i)
        <4>1. AsWritten(o)
          BY GripsAreOf
        <4>2. i \in DOMAIN items[r] /\ items[r] \in Seq(Handle)
          BY <3>4, <4>1 DEF AsWritten, HandlesTypeOK
        <4> QED BY <3>1, <3>4, <4>2, ItemIsOne
      <3> QED BY <3>1, <3>2, <3>3, <3>4, OwnedIsOne, SelfIsOne, ArgsIsOne, ParamsIsOne DEF Kept
    <2> QED BY <2>1, <2>2
  <1>2. ASSUME \A o \in Object : Kept(o) \/ Loose(o) PROVE HeldOnce /\ LeaksAreKnown
    <2> SUFFICES ASSUME NEW o \in Object
                 PROVE  /\ Grips(o) # {} => heap[o] = "live" /\ \A g, h \in Grips(o) : g = h
                        /\ heap[o] = "live" => Grips(o) # {} \/ o \in lost
      BY DEF HeldOnce, LeaksAreKnown
    <2>1. CASE Loose(o)
      BY <2>1, LooseIsNone DEF Loose
    <2>2. CASE Kept(o)
      <3> DEFINE One == \E g : Grips(o) = {g}
      <3>1. \A a \in Activation : OnlyOwned(o, a) \/ OnlySelf(o, a) \/ OnlyArgs(o, a) \/ OnlyParams(o, a) => One
        <4>1. \A a \in Activation : OnlyOwned(o, a) => One
          BY OwnedIsOne
        <4>2. \A a \in Activation : OnlySelf(o, a) => One
          BY SelfIsOne
        <4>3. \A a \in Activation : OnlyArgs(o, a) => One
          BY ArgsIsOne
        <4>4. \A a \in Activation : OnlyParams(o, a) => One
          BY ParamsIsOne
        <4> QED BY <4>1, <4>2, <4>3, <4>4
      <3>2. \A a \in Activation, i \in Nat : OnlyPooled(o, a, i) => One
        BY PooledIsOne
      <3>3. \A r \in Array, i \in Nat : OnlyItem(o, r, i) => One
        BY ItemIsOne
      <3> HIDE DEF One
      <3>4. One /\ heap[o] = "live"
        BY <2>2, <3>1, <3>2, <3>3 DEF Kept
      <3> QED BY <3>4 DEF One
    <2> QED BY <1>2, <2>1, <2>2
  <1> QED BY <1>1, <1>2

\* What an action does not touch stays with whom it was.
Untouched(o) ==
  /\ heap'[o] = heap[o] /\ (o \in lost => o \in lost')
  /\ \A a \in Activation :
       /\ o \in owned'[a] <=> o \in owned[a]
       /\ o = self'[a] <=> o = self[a]
       /\ o = args'[a] <=> o = args[a]
       /\ o = params'[a] <=> o = params[a]
       /\ \A i : i \in DOMAIN pool'[a] /\ pool'[a][i] = o <=> i \in DOMAIN pool[a] /\ pool[a][i] = o
  /\ \A r \in Array : \A i :
       Counted(r)' /\ i \in DOMAIN items'[r] /\ items'[r][i] = o <=>
         Counted(r) /\ i \in DOMAIN items[r] /\ items[r][i] = o

LEMMA StaysAsItWas ==
  ASSUME NEW o, Untouched(o), Kept(o) \/ Loose(o)
  PROVE  Kept(o)' \/ Loose(o)'
  <1>1. /\ NotOwned(o)' <=> NotOwned(o)
        /\ NotSelf(o)' <=> NotSelf(o)
        /\ NotArgs(o)' <=> NotArgs(o)
        /\ NotParams(o)' <=> NotParams(o)
    BY DEF Untouched, NotOwned, NotSelf, NotArgs, NotParams
  <1>2. NotPooled(o)' <=> NotPooled(o)
    BY DEF Untouched, NotPooled, ToSet
  <1>3. NotItem(o)' <=> NotItem(o)
    BY DEF Untouched, NotItem, ToSet
  <1>4. ASSUME NEW a \in Activation
        PROVE  /\ OnlyOwned(o, a) => OnlyOwned(o, a)'
               /\ OnlySelf(o, a) => OnlySelf(o, a)'
               /\ OnlyArgs(o, a) => OnlyArgs(o, a)'
               /\ OnlyParams(o, a) => OnlyParams(o, a)'
               /\ \A i : OnlyPooled(o, a, i) => OnlyPooled(o, a, i)'
    BY <1>1, <1>2, <1>3 DEF Untouched, OnlyOwned, OnlySelf, OnlyArgs, OnlyParams, OnlyPooled
  <1>5. ASSUME NEW r \in Array, NEW i PROVE OnlyItem(o, r, i) => OnlyItem(o, r, i)'
    BY <1>1, <1>2, <1>3 DEF Untouched, OnlyItem
  <1>6. heap'[o] = heap[o] /\ (o \in lost => o \in lost')
    BY DEF Untouched
  <1> QED BY <1>1, <1>2, <1>3, <1>4, <1>5, <1>6 DEF Kept, Loose

-------------------------------------------------------------------------------
(* Types, frames and fresh arrays.                                           *)

LEMMA WithType ==
  ASSUME HandlesTypeOK, NEW S, NEW state \in {"unused", "live", "freed"}
  PROVE  /\ With(S, state) \in [Object -> {"unused", "live", "freed"}]
         /\ \A o \in Object : With(S, state)[o] = IF o \in S THEN state ELSE heap[o]
  BY DEF With, HandlesTypeOK

LEMMA BoxedType ==
  ASSUME NEW n \in Nat, NEW s \in Boxed(n)
  PROVE  /\ s \in Seq(Handle) /\ Len(s) = n /\ DOMAIN s = 1 .. n
         /\ \A i \in 1 .. n : s[i] # Null => s[i] \in Box /\ heap[s[i]] = "unused"
         /\ \A i, j \in 1 .. n : s[i] = s[j] /\ s[i] # Null => i = j
  <1>1. s \in [1 .. n -> Unused(Box) \cup {Null}]
    BY DEF Boxed
  <1>2. Unused(Box) \subseteq Box /\ \A b \in Unused(Box) : heap[b] = "unused"
    BY DEF Unused
  <1>3. s \in [1 .. n -> Handle]
    BY <1>1, <1>2 DEF Handle
  <1> QED BY <1>1, <1>2, <1>3 DEF Boxed

Parts == HandlesTypeOK /\ (\A a \in Activation : FrameOK(a)) /\ FreshArrays

LEMMA PartsEnters ==
  ASSUME Parts, NEW a \in Activation, Enters(a)
  PROVE  Parts'
  <1>0. MaxArgs \in Nat /\ Object = Box \cup Array /\ Null \notin Object
    BY HandlesAssumption DEF Object
  <1>1. CASE EntryEnters(a)
    <2>1. HandlesTypeOK'
      BY <1>1 DEF EntryEnters, Goto, HandlesTypeOK, Parts
    <2>2. \A x \in Activation : FrameOK(x)'
      BY <1>1 DEF EntryEnters, Goto, HandlesTypeOK, Parts, FrameOK
    <2>3. FreshArrays'
      BY <1>1 DEF EntryEnters, FreshArrays, Parts
    <2> QED BY <2>1, <2>2, <2>3 DEF Parts
  <1>2. CASE MethodEnters(a)
    <2> PICK n \in 0 .. MaxArgs : \E boxed \in Boxed(n) : \E b \in Unused(Box) \ ToSet(boxed) :
           /\ self' = [self EXCEPT ![a] = b]
           /\ \/ /\ n = 0
                 /\ heap' = With({b}, "live")
                 /\ UNCHANGED <<items, args>>
              \/ /\ n > 0
                 /\ \E r \in Unused(Array) :
                      /\ heap' = With({b, r} \cup ToSet(boxed), "live")
                      /\ items' = [items EXCEPT ![r] = boxed]
                      /\ args' = [args EXCEPT ![a] = r]
      BY <1>2 DEF MethodEnters
    <2> PICK boxed \in Boxed(n) : \E b \in Unused(Box) \ ToSet(boxed) :
           /\ self' = [self EXCEPT ![a] = b]
           /\ \/ /\ n = 0
                 /\ heap' = With({b}, "live")
                 /\ UNCHANGED <<items, args>>
              \/ /\ n > 0
                 /\ \E r \in Unused(Array) :
                      /\ heap' = With({b, r} \cup ToSet(boxed), "live")
                      /\ items' = [items EXCEPT ![r] = boxed]
                      /\ args' = [args EXCEPT ![a] = r]
      OBVIOUS
    <2> PICK b \in Unused(Box) \ ToSet(boxed) :
           /\ self' = [self EXCEPT ![a] = b]
           /\ \/ /\ n = 0
                 /\ heap' = With({b}, "live")
                 /\ UNCHANGED <<items, args>>
              \/ /\ n > 0
                 /\ \E r \in Unused(Array) :
                      /\ heap' = With({b, r} \cup ToSet(boxed), "live")
                      /\ items' = [items EXCEPT ![r] = boxed]
                      /\ args' = [args EXCEPT ![a] = r]
      OBVIOUS
    <2>1. n \in Nat /\ boxed \in Seq(Handle) /\ b \in Box
      BY <1>0, BoxedType DEF Unused
    <2>2. /\ at[a] = "idle" /\ at' = [at EXCEPT ![a] = "running"]
          /\ kind' = [kind EXCEPT ![a] = "method"] /\ UNCHANGED <<params, owned, pool, lost>>
      BY <1>2 DEF MethodEnters, Goto
    <2>3. /\ heap' \in [Object -> {"unused", "live", "freed"}]
          /\ \A o \in Object : heap'[o] = "unused" => heap[o] = "unused"
      <3> PICK S : heap' = With(S, "live")
        OBVIOUS
      <3> QED BY WithType DEF Parts
    <2>4. /\ items' \in [Array -> Seq(Handle)] /\ args' \in [Activation -> Array \cup {Null}]
          /\ \A x \in Activation : x # a => args'[x] = args[x]
          /\ \A r \in Array : heap'[r] = "unused" => items'[r] = items[r]
      <3>1. CASE UNCHANGED <<items, args>>
        BY <3>1 DEF HandlesTypeOK, Parts
      <3>2. CASE ~ UNCHANGED <<items, args>>
        <4> PICK r \in Unused(Array) :
                      /\ heap' = With({b, r} \cup ToSet(boxed), "live")
                      /\ items' = [items EXCEPT ![r] = boxed]
                      /\ args' = [args EXCEPT ![a] = r]
          BY <3>2
        <4>1. r \in Array /\ heap'[r] = "live"
          BY <1>0, WithType DEF Parts, Unused
        <4> QED BY <2>1, <4>1 DEF HandlesTypeOK, Parts
      <3> QED BY <3>1, <3>2
    <2>5. HandlesTypeOK'
      BY <2>1, <2>2, <2>3, <2>4 DEF HandlesTypeOK, Parts, Handle
    <2>6. \A x \in Activation : FrameOK(x)'
      BY <2>2, <2>4 DEF HandlesTypeOK, Parts, FrameOK
    <2>7. FreshArrays'
      BY <1>0, <2>3, <2>4 DEF FreshArrays, Parts
    <2> QED BY <2>5, <2>6, <2>7 DEF Parts
  <1>3. CASE BlockEnters(a)
    <2> PICK n \in 0 .. MaxArgs : \E boxed \in Boxed(n) : \E r \in Unused(Array) :
           /\ heap' = With({r} \cup ToSet(boxed), "live")
           /\ items' = [items EXCEPT ![r] = boxed]
           /\ args' = [args EXCEPT ![a] = r]
      BY <1>3 DEF BlockEnters
    <2> PICK boxed \in Boxed(n) : \E r \in Unused(Array) :
           /\ heap' = With({r} \cup ToSet(boxed), "live")
           /\ items' = [items EXCEPT ![r] = boxed]
           /\ args' = [args EXCEPT ![a] = r]
      OBVIOUS
    <2> PICK r \in Unused(Array) :
           /\ heap' = With({r} \cup ToSet(boxed), "live")
           /\ items' = [items EXCEPT ![r] = boxed]
           /\ args' = [args EXCEPT ![a] = r]
      OBVIOUS
    <2>1. n \in Nat /\ boxed \in Seq(Handle) /\ r \in Array
      BY <1>0, BoxedType DEF Unused
    <2>2. /\ at[a] = "idle" /\ at' = [at EXCEPT ![a] = "running"]
          /\ kind' = [kind EXCEPT ![a] = "block"] /\ UNCHANGED <<self, params, owned, pool, lost>>
      BY <1>3 DEF BlockEnters, Goto
    <2>3. /\ heap' \in [Object -> {"unused", "live", "freed"}]
          /\ \A o \in Object : heap'[o] = "unused" => heap[o] = "unused" /\ o # r
      BY WithType DEF Parts
    <2>4. items' \in [Array -> Seq(Handle)] /\ args' \in [Activation -> Array \cup {Null}]
      BY <2>1 DEF HandlesTypeOK, Parts
    <2>5. HandlesTypeOK'
      BY <2>2, <2>3, <2>4 DEF HandlesTypeOK, Parts
    <2>6. \A x \in Activation : FrameOK(x)'
      BY <1>0, <2>1, <2>2 DEF HandlesTypeOK, Parts, FrameOK, Object
    <2>7. FreshArrays'
      <3>1. \A x \in Array : x # r => items'[x] = items[x]
        BY DEF HandlesTypeOK, Parts
      <3> QED BY <1>0, <2>3, <3>1 DEF FreshArrays, Parts
    <2> QED BY <2>5, <2>6, <2>7 DEF Parts
  <1> QED BY <1>1, <1>2, <1>3 DEF Enters

-------------------------------------------------------------------------------
(* What follows for an object from where it is found.                        *)

Nowhere(o) == NotOwned(o) /\ NotSelf(o) /\ NotArgs(o) /\ NotParams(o) /\ NotPooled(o) /\ NotItem(o)

Accounted == \A o \in Object : Kept(o) \/ Loose(o)

\* An object found in one place is allocated, and is in no other.
Found ==
  /\ \A o \in Object : heap[o] # "live" => Nowhere(o)
  /\ \A a \in Activation : \A o \in owned[a] : heap[o] = "live" /\ OnlyOwned(o, a)
  /\ \A a \in Activation : self[a] # Null => heap[self[a]] = "live" /\ OnlySelf(self[a], a)
  /\ \A a \in Activation : args[a] # Null => heap[args[a]] = "live" /\ OnlyArgs(args[a], a)
  /\ \A a \in Activation : params[a] # Null => heap[params[a]] = "live" /\ OnlyParams(params[a], a)
  /\ \A a \in Activation : \A i \in DOMAIN pool[a] :
       heap[pool[a][i]] = "live" /\ OnlyPooled(pool[a][i], a, i)
  /\ \A r \in Array : Counted(r) => \A i \in DOMAIN items[r] :
       items[r][i] # Null => heap[items[r][i]] = "live" /\ OnlyItem(items[r][i], r, i)

LEMMA FindsIt ==
  ASSUME Parts, Accounted
  PROVE  Found
  <1>0. Object = Box \cup Array /\ Null \notin Object /\ Handle = Box \cup {Null}
    BY HandlesAssumption DEF Object, Handle
  <1>1. \A o \in Object : heap[o] # "live" => Nowhere(o)
    BY DEF Accounted, Kept, Loose, Nowhere
  <1>2. ASSUME NEW a \in Activation, NEW o \in owned[a] PROVE heap[o] = "live" /\ OnlyOwned(o, a)
    <2>1. o \in Object
      BY DEF Parts, HandlesTypeOK
    <2>2. ~ NotOwned(o)
      BY DEF NotOwned
    <2>3. heap[o] = "live" /\ \E x \in Activation : OnlyOwned(o, x)
      BY <2>1, <2>2 DEF Accounted, Kept, Loose, OnlySelf, OnlyArgs, OnlyParams, OnlyPooled, OnlyItem
    <2> QED BY <2>3 DEF OnlyOwned
  <1>3. ASSUME NEW a \in Activation, self[a] # Null
        PROVE  heap[self[a]] = "live" /\ OnlySelf(self[a], a)
    <2> DEFINE o == self[a]
    <2>1. o \in Object
      BY <1>0, <1>3 DEF Parts, HandlesTypeOK
    <2>2. ~ NotSelf(o)
      BY DEF NotSelf
    <2>3. heap[o] = "live" /\ \E x \in Activation : OnlySelf(o, x)
      BY <2>1, <2>2 DEF Accounted, Kept, Loose, OnlyOwned, OnlyArgs, OnlyParams, OnlyPooled, OnlyItem
    <2> QED BY <2>3 DEF OnlySelf
  <1>4. ASSUME NEW a \in Activation, args[a] # Null
        PROVE  heap[args[a]] = "live" /\ OnlyArgs(args[a], a)
    <2> DEFINE o == args[a]
    <2>1. o \in Object
      BY <1>0, <1>4 DEF Parts, HandlesTypeOK
    <2>2. ~ NotArgs(o)
      BY DEF NotArgs
    <2>3. heap[o] = "live" /\ \E x \in Activation : OnlyArgs(o, x)
      BY <2>1, <2>2 DEF Accounted, Kept, Loose, OnlyOwned, OnlySelf, OnlyParams, OnlyPooled, OnlyItem
    <2> QED BY <2>3 DEF OnlyArgs
  <1>5. ASSUME NEW a \in Activation, params[a] # Null
        PROVE  heap[params[a]] = "live" /\ OnlyParams(params[a], a)
    <2> DEFINE o == params[a]
    <2>1. o \in Object
      BY <1>0, <1>5 DEF Parts, HandlesTypeOK
    <2>2. ~ NotParams(o)
      BY DEF NotParams
    <2>3. heap[o] = "live" /\ \E x \in Activation : OnlyParams(o, x)
      BY <2>1, <2>2 DEF Accounted, Kept, Loose, OnlyOwned, OnlySelf, OnlyArgs, OnlyPooled, OnlyItem
    <2> QED BY <2>3 DEF OnlyParams
  <1>6. ASSUME NEW a \in Activation, NEW i \in DOMAIN pool[a]
        PROVE  heap[pool[a][i]] = "live" /\ OnlyPooled(pool[a][i], a, i)
    <2> DEFINE o == pool[a][i]
    <2>1. o \in Object
      BY <1>0 DEF Parts, HandlesTypeOK
    <2>2. ~ NotPooled(o)
      BY DEF NotPooled, ToSet
    <2>3. heap[o] = "live" /\ \E x \in Activation, j \in Nat : OnlyPooled(o, x, j)
      BY <2>1, <2>2 DEF Accounted, Kept, Loose, OnlyOwned, OnlySelf, OnlyArgs, OnlyParams, OnlyItem
    <2> QED BY <2>3 DEF OnlyPooled
  <1>7. ASSUME NEW r \in Array, Counted(r), NEW i \in DOMAIN items[r], items[r][i] # Null
        PROVE  heap[items[r][i]] = "live" /\ OnlyItem(items[r][i], r, i)
    <2> DEFINE o == items[r][i]
    <2>1. o \in Object
      BY <1>0, <1>7 DEF Parts, HandlesTypeOK
    <2>2. ~ NotItem(o)
      BY <1>7 DEF NotItem, ToSet
    <2>3. heap[o] = "live" /\ \E t \in Array, j \in Nat : OnlyItem(o, t, j)
      BY <2>1, <2>2 DEF Accounted, Kept, Loose, OnlyOwned, OnlySelf, OnlyArgs, OnlyParams, OnlyPooled
    <2> QED BY <1>7, <2>3 DEF OnlyItem
  <1> QED BY <1>1, <1>2, <1>3, <1>4, <1>5, <1>6, <1>7 DEF Found

LEMMA CountedIs ==
  HandlesTypeOK =>
    \A r \in Array : Counted(r) <=> \E a \in Activation : r \in owned[a] \/ r = args[a]
  BY HandlesAssumption DEF Counted, Arrays, Object

LEMMA CountedThen ==
  HandlesTypeOK' =>
    \A r \in Array : Counted(r)' <=> \E a \in Activation : r \in owned'[a] \/ r = args'[a]
  <1>1. (HandlesTypeOK =>
          \A r \in Array : Counted(r) <=> \E a \in Activation : r \in owned[a] \/ r = args[a])'
    BY CountedIs, PTL
  <1> QED BY <1>1

-------------------------------------------------------------------------------
(* The exports.                                                              *)

\* An export leaves the frames alone.
LEMMA PartsStay ==
  ASSUME Parts, NEW a \in Activation, at[a] = "running", UNCHANGED frameVars,
         heap' \in [Object -> {"unused", "live", "freed"}],
         items' \in [Array -> Seq(Handle)],
         owned' \in [Activation -> SUBSET Object],
         pool' \in [Activation -> Seq(Box)],
         \A x \in Activation : x # a => owned'[x] = owned[x] /\ pool'[x] = pool[x],
         \A r \in Array : heap'[r] = "unused" => heap[r] = "unused" /\ items'[r] = items[r]
  PROVE  Parts'
  <1>1. HandlesTypeOK'
    BY DEF Parts, HandlesTypeOK, frameVars
  <1>2. \A x \in Activation : FrameOK(x)'
    BY DEF Parts, FrameOK, frameVars
  <1>3. FreshArrays'
    BY DEF Parts, FreshArrays
  <1> QED BY <1>1, <1>2, <1>3 DEF Parts

\* Something new, in the hands of the one who asked for it.
LEMMA NewIsOwned ==
  ASSUME Parts, Accounted, NEW a \in Activation, NEW n \in Object,
         at[a] = "running", heap[n] = "unused",
         heap' = With({n}, "live"), owned' = [owned EXCEPT ![a] = @ \cup {n}],
         UNCHANGED <<items, frameVars, pool, lost>>
  PROVE  Parts' /\ Accounted'
  <1>1. Found
    BY FindsIt
  <1>2. /\ heap' \in [Object -> {"unused", "live", "freed"}]
        /\ \A o \in Object : heap'[o] = IF o = n THEN "live" ELSE heap[o]
    BY WithType DEF Parts
  <1>3. /\ owned' \in [Activation -> SUBSET Object]
        /\ \A x \in Activation : owned'[x] = IF x = a THEN owned[x] \cup {n} ELSE owned[x]
    BY DEF Parts, HandlesTypeOK
  <1>4. Parts'
    BY <1>2, <1>3, PartsStay DEF Parts, HandlesTypeOK, Object
  <1>5. /\ UNCHANGED <<items, at, kind, self, args, params, pool, lost>>
        /\ Nowhere(n)
    BY <1>1 DEF Found, frameVars
  <1>6. \A r \in Array : Counted(r)' <=> Counted(r) \/ r = n
    BY <1>3, <1>4, <1>5, CountedIs, CountedThen DEF Parts
  <1>7. n \in Array => items[n] = <<>>
    BY DEF Parts, FreshArrays
  <1>8. OnlyOwned(n, a)'
    <2>1. \A b \in Activation : n \in owned'[b] <=> b = a
      BY <1>3, <1>5 DEF Nowhere, NotOwned
    <2>2. NotItem(n)'
      BY <1>5, <1>6, <1>7 DEF Nowhere, NotItem, ToSet
    <2>3. NotSelf(n)' /\ NotArgs(n)' /\ NotParams(n)' /\ NotPooled(n)'
      BY <1>5 DEF Nowhere, NotSelf, NotArgs, NotParams, NotPooled
    <2> QED BY <2>1, <2>2, <2>3 DEF OnlyOwned
  <1>9. Kept(n)'
    BY <1>2, <1>8 DEF Kept
  <1>10. ASSUME NEW o \in Object, o # n PROVE Untouched(o)
    <2>1. \A r \in Array : \A i :
             Counted(r)' /\ i \in DOMAIN items'[r] /\ items'[r][i] = o <=>
               Counted(r) /\ i \in DOMAIN items[r] /\ items[r][i] = o
      <3>1. n \in Array => ~ \E i : i \in DOMAIN items[n]
        BY <1>7
      <3> QED BY <1>5, <1>6, <3>1
    <2> QED BY <1>2, <1>3, <1>5, <1>10, <2>1 DEF Untouched
  <1>11. \A o \in Object : Kept(o)' \/ Loose(o)'
    BY <1>9, <1>10, StaysAsItWas DEF Accounted
  <1> QED BY <1>4, <1>11 DEF Accounted

LEMMA NewObjectKeeps ==
  ASSUME Parts, Accounted, NEW a \in Activation, NewObject(a)
  PROVE  Parts' /\ Accounted'
  <1> PICK b \in Unused(Box) :
         heap' = With({b}, "live") /\ owned' = [owned EXCEPT ![a] = @ \cup {b}]
    BY DEF NewObject, NewBox
  <1>1. b \in Object /\ heap[b] = "unused"
    BY DEF Unused, Object
  <1> QED BY <1>1, NewIsOwned DEF NewObject, Running

LEMMA CallWithArrayKeeps ==
  ASSUME Parts, Accounted, NEW a \in Activation, NEW r, CallWithArray(a, r)
  PROVE  Parts' /\ Accounted'
  BY NewObjectKeeps DEF CallWithArray, NewObject

LEMMA AllocArrayKeeps ==
  ASSUME Parts, Accounted, NEW a \in Activation, AllocArray(a)
  PROVE  Parts' /\ Accounted'
  <1> PICK r \in Unused(Array) :
         heap' = With({r}, "live") /\ owned' = [owned EXCEPT ![a] = @ \cup {r}]
    BY DEF AllocArray
  <1>1. r \in Object /\ heap[r] = "unused"
    BY DEF Unused, Object
  <1> QED BY <1>1, NewIsOwned DEF AllocArray, Running

LEMMA DeallocObjectKeeps ==
  ASSUME Parts, Accounted, NEW a \in Activation, NEW b \in Box, DeallocObject(a, b)
  PROVE  Parts' /\ Accounted'
  <1>0. b \in Object /\ b \notin Array
    BY HandlesAssumption DEF Object
  <1>1. Found
    BY FindsIt
  <1>2. /\ heap' \in [Object -> {"unused", "live", "freed"}]
        /\ \A o \in Object : heap'[o] = IF o = b THEN "freed" ELSE heap[o]
    BY WithType DEF Parts, DeallocObject
  <1>3. /\ owned' \in [Activation -> SUBSET Object]
        /\ \A x \in Activation : owned'[x] = IF x = a THEN owned[x] \ {b} ELSE owned[x]
    BY DEF DeallocObject, Parts, HandlesTypeOK
  <1>4. Parts'
    <2>1. at[a] = "running" /\ UNCHANGED <<items, frameVars, pool>>
      BY DEF DeallocObject, Running
    <2> QED BY <1>2, <1>3, <2>1, PartsStay DEF Parts, HandlesTypeOK, Object
  <1>5. /\ UNCHANGED <<items, at, kind, self, args, params, pool, lost>>
        /\ OnlyOwned(b, a)
    BY <1>1 DEF Found, frameVars, DeallocObject
  <1>6. \A r \in Array : Counted(r)' <=> Counted(r)
    BY <1>0, <1>3, <1>4, <1>5, CountedIs, CountedThen DEF Parts
  <1>7. Loose(b)'
    <2>1. NotOwned(b)'
      BY <1>3, <1>5 DEF OnlyOwned, NotOwned
    <2>2. NotSelf(b)' /\ NotArgs(b)' /\ NotParams(b)' /\ NotPooled(b)'
      BY <1>5 DEF OnlyOwned, NotSelf, NotArgs, NotParams, NotPooled
    <2>3. NotItem(b)'
      BY <1>5, <1>6 DEF OnlyOwned, NotItem
    <2> QED BY <1>0, <1>2, <2>1, <2>2, <2>3 DEF Loose
  <1>8. ASSUME NEW o \in Object, o # b PROVE Untouched(o)
    BY <1>2, <1>3, <1>5, <1>6, <1>8 DEF Untouched
  <1>9. \A o \in Object : Kept(o)' \/ Loose(o)'
    BY <1>7, <1>8, StaysAsItWas DEF Accounted
  <1> QED BY <1>4, <1>9 DEF Accounted

LEMMA AppendArrayKeeps ==
  ASSUME Parts, Accounted, NEW a \in Activation, NEW r \in Array, NEW b \in Box, AppendArray(a, r, b)
  PROVE  Parts' /\ Accounted'
  <1>0. b \in Object /\ r \in Object /\ b \notin Array /\ b # r /\ b \in Handle
    BY HandlesAssumption DEF Object, Handle
  <1>1. Found
    BY FindsIt
  <1>2. /\ UNCHANGED <<heap, at, kind, self, args, params, pool, lost>>
        /\ at[a] = "running"
        /\ heap[r] = "live"
        /\ OnlyOwned(r, a) /\ OnlyOwned(b, a) /\ Kept(b)
    BY <1>0, <1>1 DEF Found, frameVars, AppendArray, Running, Kept
  <1>3. /\ owned' \in [Activation -> SUBSET Object]
        /\ \A x \in Activation : owned'[x] = IF x = a THEN owned[x] \ {b} ELSE owned[x]
    BY DEF AppendArray, Parts, HandlesTypeOK
  <1>4. /\ items' \in [Array -> Seq(Handle)]
        /\ \A t \in Array : t # r => items'[t] = items[t]
        /\ items'[r] = Append(items[r], b)
        /\ items[r] \in Seq(Handle)
    BY <1>0 DEF AppendArray, Parts, HandlesTypeOK
  <1> PICK k \in Nat : k = Len(items[r]) + 1
    BY <1>4
  <1>5. /\ k \in Nat /\ k \notin DOMAIN items[r]
        /\ DOMAIN items'[r] = DOMAIN items[r] \cup {k}
        /\ items'[r][k] = b
        /\ \A i \in DOMAIN items[r] : items'[r][i] = items[r][i]
    BY <1>0, <1>4
  <1>6. Parts'
    <2>1. \A t \in Array : heap'[t] = "unused" => heap[t] = "unused" /\ items'[t] = items[t]
      BY <1>2, <1>4
    <2> QED BY <1>2, <1>3, <1>4, <2>1, PartsStay DEF Parts, HandlesTypeOK, frameVars
  <1>7. \A t \in Array : Counted(t)' <=> Counted(t)
    BY <1>0, <1>2, <1>3, <1>6, CountedIs, CountedThen DEF Parts
  <1>8. Counted(r)
    BY <1>2, CountedIs DEF Parts, OnlyOwned
  <1>9. OnlyItem(b, r, k)'
    <2>1. NotOwned(b)'
      BY <1>2, <1>3 DEF OnlyOwned, NotOwned
    <2>2. NotSelf(b)' /\ NotArgs(b)' /\ NotParams(b)' /\ NotPooled(b)'
      BY <1>2 DEF OnlyOwned, NotSelf, NotArgs, NotParams, NotPooled
    <2>3. \A t \in Array : \A i :
             Counted(t)' /\ i \in DOMAIN items'[t] /\ items'[t][i] = b <=> t = r /\ i = k
      <3>1. \A t \in Array : \A i \in DOMAIN items[t] : Counted(t) => items[t][i] # b
        BY <1>2 DEF OnlyOwned, NotItem, ToSet
      <3> QED BY <1>4, <1>5, <1>7, <1>8, <3>1
    <2> QED BY <2>1, <2>2, <2>3 DEF OnlyItem
  <1>10. Kept(b)'
    <2>1. heap'[b] = "live"
      BY <1>2 DEF Kept
    <2> QED BY <1>5, <1>9, <2>1 DEF Kept
  <1>11. ASSUME NEW o \in Object, o # b PROVE Untouched(o)
    <2>1. \A t \in Array : \A i :
             Counted(t)' /\ i \in DOMAIN items'[t] /\ items'[t][i] = o <=>
               Counted(t) /\ i \in DOMAIN items[t] /\ items[t][i] = o
      BY <1>4, <1>5, <1>7, <1>11
    <2> QED BY <1>2, <1>3, <1>11, <2>1 DEF Untouched
  <1>12. \A o \in Object : Kept(o)' \/ Loose(o)'
    BY <1>10, <1>11, StaysAsItWas DEF Accounted
  <1> QED BY <1>6, <1>12 DEF Accounted

LEMMA DeallocArrayKeeps ==
  ASSUME Parts, Accounted, NEW a \in Activation, NEW r \in Array, DeallocArray(a, r)
  PROVE  Parts' /\ Accounted'
  <1>0. r \in Object /\ Null \notin Object
    BY HandlesAssumption DEF Object
  <1>1. Found
    BY FindsIt
  <1> DEFINE I == ToSet(items[r])
  <1>2. /\ heap' \in [Object -> {"unused", "live", "freed"}]
        /\ \A o \in Object : heap'[o] = IF o = r \/ o \in I THEN "freed" ELSE heap[o]
    BY WithType DEF Parts, DeallocArray, ArrayAndItems
  <1>3. /\ owned' \in [Activation -> SUBSET Object]
        /\ \A x \in Activation : owned'[x] = IF x = a THEN owned[x] \ {r} ELSE owned[x]
    BY DEF DeallocArray, Parts, HandlesTypeOK
  <1>4. Parts'
    <2>1. at[a] = "running" /\ UNCHANGED <<items, frameVars, pool>>
      BY DEF DeallocArray, Running
    <2> QED BY <1>2, <1>3, <2>1, PartsStay DEF Parts, HandlesTypeOK, Object
  <1>5. /\ UNCHANGED <<items, at, kind, self, args, params, pool, lost>>
        /\ OnlyOwned(r, a) /\ Counted(r)
    BY <1>1, CountedIs DEF Parts, Found, frameVars, DeallocArray
  <1>6. \A t \in Array : Counted(t)' <=> Counted(t) /\ t # r
    BY <1>3, <1>4, <1>5, CountedIs, CountedThen DEF Parts, OnlyOwned, NotArgs
  <1>7. Loose(r)'
    <2>1. NotOwned(r)'
      BY <1>3, <1>5 DEF OnlyOwned, NotOwned
    <2>2. NotSelf(r)' /\ NotArgs(r)' /\ NotParams(r)' /\ NotPooled(r)'
      BY <1>5 DEF OnlyOwned, NotSelf, NotArgs, NotParams, NotPooled
    <2>3. NotItem(r)'
      BY <1>5, <1>6 DEF OnlyOwned, NotItem
    <2> QED BY <1>0, <1>2, <2>1, <2>2, <2>3 DEF Loose
  <1>8. ASSUME NEW o \in Object, o \in I PROVE Loose(o)'
    <2> PICK i \in DOMAIN items[r] : o = items[r][i]
      BY <1>8 DEF ToSet
    <2>1. OnlyItem(o, r, i)
      BY <1>0, <1>1, <1>5 DEF Found
    <2>2. NotOwned(o)'
      BY <1>3, <2>1 DEF OnlyItem, NotOwned
    <2>3. NotSelf(o)' /\ NotArgs(o)' /\ NotParams(o)' /\ NotPooled(o)'
      BY <1>5, <2>1 DEF OnlyItem, NotSelf, NotArgs, NotParams, NotPooled
    <2>4. NotItem(o)'
      BY <1>5, <1>6, <2>1 DEF OnlyItem, NotItem, ToSet
    <2> QED BY <1>2, <1>8, <2>2, <2>3, <2>4 DEF Loose
  <1>9. ASSUME NEW o \in Object, o # r, o \notin I PROVE Untouched(o)
    <2>1. \A i \in DOMAIN items[r] : items[r][i] # o
      BY <1>9 DEF ToSet
    <2>2. \A t \in Array : \A i :
             Counted(t)' /\ i \in DOMAIN items'[t] /\ items'[t][i] = o <=>
               Counted(t) /\ i \in DOMAIN items[t] /\ items[t][i] = o
      BY <1>5, <1>6, <2>1
    <2> QED BY <1>2, <1>3, <1>5, <1>9, <2>2 DEF Untouched
  <1>10. \A o \in Object : Kept(o)' \/ Loose(o)'
    BY <1>7, <1>8, <1>9, StaysAsItWas DEF Accounted
  <1> QED BY <1>4, <1>10 DEF Accounted

LEMMA ReachType ==
  ASSUME HandlesTypeOK, NEW a \in Activation
  PROVE  Reach(a) \subseteq Handle
  <1>1. Items(args[a]) \subseteq Handle
    BY DEF Items, HandlesTypeOK, ToSet
  <1>2. ToSet(pool[a]) \subseteq Box
    BY DEF HandlesTypeOK, ToSet
  <1> QED BY <1>1, <1>2 DEF Reach, HandlesTypeOK, Handle

LEMMA CallMethodKeeps ==
  ASSUME Parts, Accounted, NEW a \in Activation, NEW n \in 1 .. MaxArgs,
         NEW given \in [1 .. n -> Reach(a)], CallMethod(a, given)
  PROVE  Parts' /\ Accounted'
  <1>0. Null \notin Array /\ MaxArgs \in Nat
    BY HandlesAssumption DEF Object
  <1>1. Found
    BY FindsIt
  <1> PICK r \in Unused(Array) :
         /\ heap' = With({r}, "live")
         /\ items' = [items EXCEPT ![r] = given]
         /\ params' = [params EXCEPT ![a] = r]
    BY DEF CallMethod
  <1>2. r \in Array /\ r \in Object /\ heap[r] = "unused" /\ Nowhere(r)
    BY <1>1 DEF Unused, Found, Object
  <1>3. /\ heap' \in [Object -> {"unused", "live", "freed"}]
        /\ \A o \in Object : heap'[o] = IF o = r THEN "live" ELSE heap[o]
    BY WithType DEF Parts
  <1>4. /\ items' \in [Array -> Seq(Handle)]
        /\ \A t \in Array : t # r => items'[t] = items[t]
    <2>1. given \in Seq(Handle)
      BY <1>0, ReachType DEF Parts
    <2> QED BY <1>2, <2>1 DEF Parts, HandlesTypeOK
  <1>5. /\ UNCHANGED <<kind, self, args, owned, pool, lost>>
        /\ at[a] = "running" /\ at' = [at EXCEPT ![a] = "calling"]
        /\ params[a] = Null
        /\ params' \in [Activation -> Array \cup {Null}]
        /\ \A x \in Activation : params'[x] = IF x = a THEN r ELSE params[x]
    BY <1>2 DEF CallMethod, Goto, Parts, FrameOK, HandlesTypeOK
  <1>6. Parts'
    <2>1. HandlesTypeOK'
      BY <1>3, <1>4, <1>5 DEF Parts, HandlesTypeOK
    <2>2. \A x \in Activation : FrameOK(x)'
      BY <1>5 DEF Parts, FrameOK, HandlesTypeOK
    <2>3. FreshArrays'
      BY <1>2, <1>3, <1>4 DEF Parts, FreshArrays, Object
    <2> QED BY <2>1, <2>2, <2>3 DEF Parts
  <1>7. \A t \in Array : (Counted(t)' <=> Counted(t)) /\ ~ Counted(r)
    BY <1>2, <1>5, <1>6, CountedIs, CountedThen DEF Parts, Nowhere, NotOwned, NotArgs
  <1>8. Kept(r)'
    <2>1. NotOwned(r)' /\ NotSelf(r)' /\ NotArgs(r)' /\ NotPooled(r)'
      BY <1>2, <1>5 DEF Nowhere, NotOwned, NotSelf, NotArgs, NotPooled
    <2>2. NotItem(r)'
      BY <1>2, <1>4, <1>7 DEF Nowhere, NotItem
    <2>3. \A x \in Activation : r = params'[x] <=> x = a
      BY <1>2, <1>5 DEF Nowhere, NotParams
    <2> QED BY <1>2, <1>3, <2>1, <2>2, <2>3 DEF Kept, OnlyParams
  <1>9. ASSUME NEW o \in Object, o # r PROVE Untouched(o)
    <2>1. o # Null
      BY HandlesAssumption
    <2> QED BY <1>3, <1>4, <1>5, <1>7, <1>9, <2>1 DEF Untouched
  <1>10. \A o \in Object : Kept(o)' \/ Loose(o)'
    BY <1>8, <1>9, StaysAsItWas DEF Accounted
  <1> QED BY <1>6, <1>10 DEF Accounted

LEMMA CallReturnsKeeps ==
  ASSUME Parts, Accounted, NEW a \in Activation, CallReturns(a)
  PROVE  Parts' /\ Accounted'
  <1>0. Box \subseteq Object /\ Box \cap Array = {} /\ Null \notin Object /\ Array \subseteq Object
    BY HandlesAssumption DEF Object
  <1>1. Found
    BY FindsIt
  <1> PICK p \in Array \cup {Null} : p = params[a]
    BY DEF Parts, HandlesTypeOK
  \* what the call returned, if it did
  <1>2. PICK new \in SUBSET Unused(Box) :
          /\ \A x, y \in new : x = y
          /\ \A o \in Object :
               heap'[o] = IF o \in new THEN "live" ELSE IF o = p THEN "freed" ELSE heap[o]
          /\ heap' \in [Object -> {"unused", "live", "freed"}]
          /\ owned' \in [Activation -> SUBSET Object]
          /\ \A x \in Activation : owned'[x] = IF x = a THEN owned[x] \cup new ELSE owned[x]
    <2>0. /\ With({p}, "freed") \in [Object -> {"unused", "live", "freed"}]
          /\ \A o \in Object : With({p}, "freed")[o] = IF o = p THEN "freed" ELSE heap[o]
      BY WithType DEF Parts
    <2>1. CASE heap' = With({p}, "freed") /\ UNCHANGED owned
      <3> WITNESS {} \in SUBSET Unused(Box)
      <3> QED BY <2>0, <2>1 DEF Parts, HandlesTypeOK
    <2>2. CASE \E b \in Unused(Box) :
                 /\ heap' = [With({p}, "freed") EXCEPT ![b] = "live"]
                 /\ owned' = [owned EXCEPT ![a] = @ \cup {b}]
      <3> PICK b \in Unused(Box) :
                 /\ heap' = [With({p}, "freed") EXCEPT ![b] = "live"]
                 /\ owned' = [owned EXCEPT ![a] = @ \cup {b}]
        BY <2>2
      <3> WITNESS {b} \in SUBSET Unused(Box)
      <3>1. b \in Object
        BY <1>0 DEF Unused
      <3>2. /\ heap' \in [Object -> {"unused", "live", "freed"}]
            /\ \A o \in Object :
                 heap'[o] = IF o \in {b} THEN "live" ELSE IF o = p THEN "freed" ELSE heap[o]
        BY <2>0, <3>1
      <3>3. /\ owned' \in [Activation -> SUBSET Object]
            /\ \A x \in Activation : owned'[x] = IF x = a THEN owned[x] \cup {b} ELSE owned[x]
        BY <3>1 DEF Parts, HandlesTypeOK
      <3> QED BY <3>2, <3>3
    <2> QED BY <2>1, <2>2 DEF CallReturns, Temporary
  <1>3. /\ UNCHANGED <<items, kind, self, args, pool, lost>>
        /\ at[a] = "calling" /\ at' = [at EXCEPT ![a] = "running"]
        /\ params' = [params EXCEPT ![a] = Null]
        /\ params' \in [Activation -> Array \cup {Null}]
        /\ \A x \in Activation : params'[x] = IF x = a THEN Null ELSE params[x]
    BY DEF CallReturns, Goto, Parts, HandlesTypeOK
  <1>4. Parts'
    <2>1. HandlesTypeOK'
      BY <1>2, <1>3 DEF Parts, HandlesTypeOK
    <2>2. \A x \in Activation : FrameOK(x)'
      BY <1>2, <1>3 DEF Parts, FrameOK, HandlesTypeOK
    <2>3. FreshArrays'
      BY <1>0, <1>2, <1>3 DEF Parts, FreshArrays
    <2> QED BY <2>1, <2>2, <2>3 DEF Parts
  <1>5. \A n \in new : n \in Object /\ n \notin Array /\ Nowhere(n)
    BY <1>0, <1>1 DEF Unused, Found
  <1>6. \A t \in Array : Counted(t)' <=> Counted(t)
    BY <1>2, <1>3, <1>4, <1>5, CountedIs, CountedThen DEF Parts
  <1>7. ASSUME p # Null PROVE Loose(p)'
    <2>1. OnlyParams(p, a) /\ p \in Object /\ p \notin new
      BY <1>0, <1>1, <1>5, <1>7 DEF Found
    <2>2. NotOwned(p)' /\ NotSelf(p)' /\ NotArgs(p)' /\ NotPooled(p)'
      BY <1>2, <1>3, <2>1 DEF OnlyParams, NotOwned, NotSelf, NotArgs, NotPooled
    <2>3. NotItem(p)'
      BY <1>3, <1>6, <2>1 DEF OnlyParams, NotItem
    <2>4. NotParams(p)'
      BY <1>3, <1>7, <2>1 DEF OnlyParams, NotParams
    <2> QED BY <1>2, <2>1, <2>2, <2>3, <2>4 DEF Loose
  <1>8. ASSUME NEW n \in new PROVE Kept(n)'
    <2>1. Nowhere(n) /\ n \in Object
      BY <1>5
    <2>2. NotSelf(n)' /\ NotArgs(n)' /\ NotPooled(n)'
      BY <1>3, <2>1 DEF Nowhere, NotSelf, NotArgs, NotPooled
    <2>3. NotItem(n)'
      BY <1>3, <1>6, <2>1 DEF Nowhere, NotItem
    <2>4. NotParams(n)'
      BY <1>0, <1>3, <2>1 DEF Nowhere, NotParams
    <2>5. \A x \in Activation : n \in owned'[x] <=> x = a
      BY <1>2, <2>1 DEF Nowhere, NotOwned
    <2> QED BY <1>2, <2>1, <2>2, <2>3, <2>4, <2>5 DEF Kept, OnlyOwned
  <1>9. ASSUME NEW o \in Object, o # p, o \notin new PROVE Untouched(o)
    <2>1. o # Null
      BY <1>0
    <2> QED BY <1>2, <1>3, <1>6, <1>9, <2>1 DEF Untouched
  <1>10. \A o \in Object : Kept(o)' \/ Loose(o)'
    BY <1>0, <1>7, <1>8, <1>9, StaysAsItWas DEF Accounted
  <1> QED BY <1>4, <1>10 DEF Accounted

LEMMA PoolKeepKeeps ==
  ASSUME Parts, Accounted, NEW a \in Activation, NEW b \in Box, PoolKeep(a, b)
  PROVE  Parts' /\ Accounted'
  <1>0. b \in Object /\ b \notin Array /\ PoolCapacity \in Nat
    BY HandlesAssumption DEF Object
  <1>1. Found
    BY FindsIt
  <1>2. /\ UNCHANGED <<heap, items, at, kind, self, args, params>>
        /\ at[a] = "running" /\ heap[b] = "live" /\ OnlyOwned(b, a)
    BY <1>1 DEF PoolKeep, Running, frameVars, Found
  <1>3. /\ owned' \in [Activation -> SUBSET Object]
        /\ \A x \in Activation : owned'[x] = IF x = a THEN owned[x] \ {b} ELSE owned[x]
    BY DEF PoolKeep, Parts, HandlesTypeOK
  \* the place it got, if it got one
  <1>4. PICK places \in SUBSET Nat :
          /\ pool' \in [Activation -> Seq(Box)]
          /\ \A x \in Activation : x # a => pool'[x] = pool[x]
          /\ DOMAIN pool'[a] = DOMAIN pool[a] \cup places
          /\ \A i \in DOMAIN pool[a] : i \notin places /\ pool'[a][i] = pool[a][i]
          /\ \A i \in places : pool'[a][i] = b /\ \A j \in places : i = j
          /\ lost' = IF places = {} THEN lost \cup {b} ELSE lost
    <2>1. pool[a] \in Seq(Box) /\ pool \in [Activation -> Seq(Box)]
      BY DEF Parts, HandlesTypeOK
    <2>2. CASE pool' = [pool EXCEPT ![a] = Append(@, b)] /\ UNCHANGED lost
      <3> DEFINE k == Len(pool[a]) + 1
      <3>1. /\ k \in Nat /\ k \notin DOMAIN pool[a]
            /\ Append(pool[a], b) \in Seq(Box)
            /\ DOMAIN Append(pool[a], b) = DOMAIN pool[a] \cup {k}
            /\ Append(pool[a], b)[k] = b
            /\ \A i \in DOMAIN pool[a] : Append(pool[a], b)[i] = pool[a][i]
        BY <2>1
      <3> HIDE DEF k
      <3> WITNESS {k} \in SUBSET Nat
      <3>2. /\ pool' \in [Activation -> Seq(Box)]
            /\ \A x \in Activation : pool'[x] = IF x = a THEN Append(pool[a], b) ELSE pool[x]
        BY <2>1, <2>2, <3>1
      <3> QED BY <2>2, <3>1, <3>2
    <2>3. CASE lost' = lost \cup {b} /\ UNCHANGED pool
      <3> WITNESS {} \in SUBSET Nat
      <3> QED BY <2>1, <2>3
    <2> QED BY <2>2, <2>3 DEF PoolKeep
  <1>5. Parts'
    <2>1. \A x \in Activation : x # a => owned'[x] = owned[x] /\ pool'[x] = pool[x]
      BY <1>3, <1>4
    <2> QED BY <1>2, <1>3, <1>4, <2>1, PartsStay DEF Parts, HandlesTypeOK, frameVars
  <1>6. \A t \in Array : Counted(t)' <=> Counted(t)
    BY <1>0, <1>2, <1>3, <1>5, CountedIs, CountedThen DEF Parts
  <1>7. NotOwned(b)' /\ NotSelf(b)' /\ NotArgs(b)' /\ NotParams(b)' /\ NotItem(b)'
    <2>1. NotOwned(b)'
      BY <1>2, <1>3 DEF OnlyOwned, NotOwned
    <2>2. NotSelf(b)' /\ NotArgs(b)' /\ NotParams(b)'
      BY <1>2 DEF OnlyOwned, NotSelf, NotArgs, NotParams
    <2>3. NotItem(b)'
      BY <1>2, <1>6 DEF OnlyOwned, NotItem
    <2> QED BY <2>1, <2>2, <2>3
  <1>8. CASE places = {}
    <2>1. NotPooled(b)'
      BY <1>2, <1>4, <1>8 DEF OnlyOwned, NotPooled, ToSet
    <2>2. Loose(b)'
      BY <1>4, <1>7, <1>8, <2>1 DEF Loose
    <2>3. ASSUME NEW o \in Object, o # b PROVE Untouched(o)
      BY <1>2, <1>3, <1>4, <1>6, <1>8, <2>3 DEF Untouched
    <2>4. \A o \in Object : Kept(o)' \/ Loose(o)'
      BY <2>2, <2>3, StaysAsItWas DEF Accounted
    <2> QED BY <1>5, <2>4 DEF Accounted
  <1>9. CASE places # {}
    <2> PICK k \in places : TRUE
      BY <1>9
    <2>1. \A x \in Activation : \A i \in DOMAIN pool[x] : pool[x][i] # b
      BY <1>2 DEF OnlyOwned, NotPooled, ToSet
    <2>2. \A x \in Activation : \A i : i \in DOMAIN pool'[x] /\ pool'[x][i] = b <=> x = a /\ i = k
      BY <1>4, <2>1
    <2>3. Kept(b)'
      BY <1>2, <1>7, <2>2 DEF Kept, OnlyPooled
    <2>4. ASSUME NEW o \in Object, o # b PROVE Untouched(o)
      <3>1. \A x \in Activation : \A i :
              i \in DOMAIN pool'[x] /\ pool'[x][i] = o <=> i \in DOMAIN pool[x] /\ pool[x][i] = o
        BY <1>4, <2>4
      <3> QED BY <1>2, <1>3, <1>4, <1>6, <1>9, <2>4, <3>1 DEF Untouched
    <2>5. \A o \in Object : Kept(o)' \/ Loose(o)'
      BY <2>3, <2>4, StaysAsItWas DEF Accounted
    <2> QED BY <1>5, <2>5 DEF Accounted
  <1> QED BY <1>8, <1>9

LEMMA PoolDrainKeeps ==
  ASSUME Parts, Accounted, NEW a \in Activation, PoolDrain(a)
  PROVE  Parts' /\ Accounted'
  <1>1. Found
    BY FindsIt
  <1> DEFINE P == ToSet(pool[a])
  <1>2. /\ heap' \in [Object -> {"unused", "live", "freed"}]
        /\ \A o \in Object : heap'[o] = IF o \in P THEN "freed" ELSE heap[o]
    BY WithType DEF Parts, PoolDrain
  <1>3. /\ pool' \in [Activation -> Seq(Box)]
        /\ pool'[a] = <<>>
        /\ \A x \in Activation : x # a => pool'[x] = pool[x]
    BY DEF PoolDrain, Parts, HandlesTypeOK
  <1>4. UNCHANGED <<items, at, kind, self, args, params, owned, lost>> /\ at[a] = "running"
    BY DEF PoolDrain, frameVars, Running
  <1>5. Parts'
    BY <1>2, <1>3, <1>4, PartsStay DEF Parts, HandlesTypeOK, frameVars, Object
  <1>6. \A t \in Array : Counted(t)' <=> Counted(t)
    BY <1>4, <1>5, CountedIs, CountedThen DEF Parts
  <1>7. ASSUME NEW o \in Object, o \in P PROVE Loose(o)'
    <2> PICK i \in DOMAIN pool[a] : o = pool[a][i]
      BY <1>7 DEF ToSet
    <2>1. OnlyPooled(o, a, i)
      BY <1>1 DEF Found
    <2>2. NotOwned(o)' /\ NotSelf(o)' /\ NotArgs(o)' /\ NotParams(o)'
      BY <1>4, <2>1 DEF OnlyPooled, NotOwned, NotSelf, NotArgs, NotParams
    <2>3. NotItem(o)'
      BY <1>4, <1>6, <2>1 DEF OnlyPooled, NotItem
    <2>4. NotPooled(o)'
      <3>1. \A x \in Activation : \A j \in DOMAIN pool'[x] : pool'[x][j] # o
        BY <1>3, <2>1 DEF OnlyPooled
      <3> QED BY <3>1 DEF NotPooled, ToSet
    <2> QED BY <1>2, <1>7, <2>2, <2>3, <2>4 DEF Loose
  <1>8. ASSUME NEW o \in Object, o \notin P PROVE Untouched(o)
    <2>1. \A x \in Activation : \A i :
            i \in DOMAIN pool'[x] /\ pool'[x][i] = o <=> i \in DOMAIN pool[x] /\ pool[x][i] = o
      <3>1. \A i \in DOMAIN pool[a] : pool[a][i] # o
        BY <1>8 DEF ToSet
      <3> QED BY <1>3, <3>1
    <2> QED BY <1>2, <1>4, <1>6, <1>8, <2>1 DEF Untouched
  <1>9. \A o \in Object : Kept(o)' \/ Loose(o)'
    BY <1>7, <1>8, StaysAsItWas DEF Accounted
  <1> QED BY <1>5, <1>9 DEF Accounted

LEMMA ExportKeeps ==
  ASSUME Parts, Accounted, NEW a \in Activation, Export(a)
  PROVE  Parts' /\ Accounted'
  <1>1. CASE NewObject(a)
    BY <1>1, NewObjectKeeps
  <1>2. CASE \E r \in Array \cup {Null} : CallWithArray(a, r)
    BY <1>2, CallWithArrayKeeps
  <1>3. CASE \E block \in Box, r \in Array \cup {Null} : InvokeBlock(a, block, r)
    BY <1>3, CallWithArrayKeeps DEF InvokeBlock
  <1>4. CASE \E b \in Box : DeallocObject(a, b)
    BY <1>4, DeallocObjectKeeps
  <1>5. CASE AllocArray(a)
    BY <1>5, AllocArrayKeeps
  <1>6. CASE \E r \in Array, b \in Box : AppendArray(a, r, b)
    BY <1>6, AppendArrayKeeps
  <1>7. CASE \E r \in Array : DeallocArray(a, r)
    BY <1>7, DeallocArrayKeeps
  <1>8. CASE \E n \in 1 .. MaxArgs : \E given \in [1 .. n -> Reach(a)] : CallMethod(a, given)
    BY <1>8, CallMethodKeeps
  <1>9. CASE CallReturns(a)
    BY <1>9, CallReturnsKeeps
  <1>10. CASE \E b \in Box : PoolKeep(a, b)
    BY <1>10, PoolKeepKeeps
  <1>11. CASE PoolDrain(a)
    BY <1>11, PoolDrainKeeps
  <1> QED BY <1>1, <1>2, <1>3, <1>4, <1>5, <1>6, <1>7, <1>8, <1>9, <1>10, <1>11 DEF Export

-------------------------------------------------------------------------------
(* Entering: what was boxed for the call is held by the call alone.          *)

\* a is entered with the receiver b and the array r of the arguments s, all new.
Receives(a, b, r, s) ==
  /\ at[a] = "idle"
  /\ b \in Box \cup {Null} /\ r \in Array \cup {Null} /\ s \in Seq(Handle)
  /\ \A x \in Activation : self'[x] = IF x = a THEN b ELSE self[x]
  /\ \A x \in Activation : args'[x] = IF x = a THEN r ELSE args[x]
  /\ \A t \in Array : items'[t] = IF t = r THEN s ELSE items[t]
  /\ \A o \in Object : o \in {b, r} \cup ToSet(s) => heap[o] = "unused" /\ heap'[o] = "live"
  /\ \A o \in Object : o \notin {b, r} \cup ToSet(s) => heap'[o] = heap[o]
  /\ b # Null => b \notin ToSet(s)
  /\ r = Null => s = <<>>
  /\ \A i, j \in DOMAIN s : s[i] = s[j] /\ s[i] # Null => i = j
  /\ UNCHANGED <<params, owned, pool, lost>>

LEMMA PassedIsHeld ==
  ASSUME Parts, Accounted, Parts', NEW a \in Activation, NEW b, NEW r, NEW s, Receives(a, b, r, s)
  PROVE  Accounted'
  <1> USE DEF Receives
  <1>0. /\ Box \subseteq Object /\ Box \cap Array = {} /\ Null \notin Object /\ Array \subseteq Object
        /\ Handle = Box \cup {Null}
    BY HandlesAssumption DEF Object, Handle
  <1>1. Found
    BY FindsIt
  <1> DEFINE New == {b, r} \cup ToSet(s)
  <1>2. \A o \in Object : o \in New => Nowhere(o)
    BY <1>1 DEF Found
  <1>3. self[a] = Null /\ args[a] = Null
    BY DEF Parts, FrameOK
  <1>4. \A t \in Array : Counted(t)' <=> Counted(t) \/ t = r
    BY <1>0, <1>3, CountedIs, CountedThen DEF Parts
  <1>5. r # Null => ~ Counted(r)
    BY <1>0, <1>2, CountedIs DEF Parts, Nowhere, NotOwned, NotArgs
  <1>6. \A o \in Object : o \in New =>
           NotOwned(o)' /\ NotParams(o)' /\ NotPooled(o)'
    BY <1>2 DEF Nowhere, NotOwned, NotParams, NotPooled
  <1>7. \A o \in Object : o \in New /\ o # b => NotSelf(o)'
    BY <1>2 DEF Nowhere, NotSelf
  <1>8. \A o \in Object : o \in New /\ o # r => NotArgs(o)'
    BY <1>2 DEF Nowhere, NotArgs
  <1>9. \A o \in Object : o \in New /\ o \notin ToSet(s) => NotItem(o)'
    BY <1>2, <1>4 DEF Nowhere, NotItem
  <1>10. r \notin ToSet(s) \/ r = Null
    BY <1>0 DEF ToSet
  <1>11. ASSUME b # Null PROVE Kept(b)'
    <2>1. b \in Object /\ b # r /\ b \notin ToSet(s)
      BY <1>0, <1>11
    <2>2. \A x \in Activation : b = self'[x] <=> x = a
      BY <1>2, <2>1 DEF Nowhere, NotSelf
    <2>3. OnlySelf(b, a)'
      BY <1>6, <1>8, <1>9, <2>1, <2>2 DEF OnlySelf
    <2> QED BY <2>1, <2>3 DEF Kept
  <1>12. ASSUME r # Null PROVE Kept(r)'
    <2>1. r \in Object /\ b # r /\ r \notin ToSet(s)
      BY <1>0, <1>10, <1>12
    <2>2. \A x \in Activation : r = args'[x] <=> x = a
      BY <1>2, <2>1 DEF Nowhere, NotArgs
    <2>3. OnlyArgs(r, a)'
      BY <1>6, <1>7, <1>9, <2>1, <2>2 DEF OnlyArgs
    <2> QED BY <2>1, <2>3 DEF Kept
  <1>13. ASSUME NEW o \in Object, o \in ToSet(s) PROVE Kept(o)'
    <2> PICK i \in DOMAIN s : o = s[i]
      BY <1>13 DEF ToSet
    <2>1. i \in Nat /\ o # Null /\ r # Null /\ r \in Array /\ o # r /\ o # b
      BY <1>0, <1>10, <1>13
    <2>2. \A t \in Array : \A j :
             Counted(t)' /\ j \in DOMAIN items'[t] /\ items'[t][j] = o <=> t = r /\ j = i
      <3>1. \A t \in Array : \A j \in DOMAIN items[t] : Counted(t) => items[t][j] # o
        BY <1>2, <1>13 DEF Nowhere, NotItem, ToSet
      <3>2. \A j \in DOMAIN s : s[j] = o => j = i
        BY <2>1
      <3> QED BY <1>4, <2>1, <3>1, <3>2
    <2>3. OnlyItem(o, r, i)'
      BY <1>6, <1>7, <1>8, <1>13, <2>1, <2>2 DEF OnlyItem
    <2> QED BY <1>13, <2>1, <2>3 DEF Kept
  <1>14. ASSUME NEW o \in Object, o \notin New PROVE Untouched(o)
    <2>1. o # Null /\ o # b /\ o # r /\ \A i \in DOMAIN s : s[i] # o
      BY <1>0, <1>14 DEF ToSet
    <2>2. \A t \in Array : \A i :
             Counted(t)' /\ i \in DOMAIN items'[t] /\ items'[t][i] = o <=>
               Counted(t) /\ i \in DOMAIN items[t] /\ items[t][i] = o
      BY <1>0, <1>4, <1>5, <2>1
    <2> QED BY <1>3, <1>14, <2>1, <2>2 DEF Untouched
  <1>15. \A o \in Object : Kept(o)' \/ Loose(o)'
    BY <1>0, <1>11, <1>12, <1>13, <1>14, StaysAsItWas DEF Accounted
  <1> QED BY <1>15 DEF Accounted

LEMMA EntersKeeps ==
  ASSUME Parts, Accounted, NEW a \in Activation, Enters(a)
  PROVE  Parts' /\ Accounted'
  <1>0. MaxArgs \in Nat /\ Object = Box \cup Array /\ Null \notin Object /\ Box \cap Array = {}
    BY HandlesAssumption DEF Object
  <1>1. Parts'
    BY PartsEnters
  <1>2. CASE EntryEnters(a)
    <2>1. Parts'
      BY <1>1
    <2>2. UNCHANGED <<heap, items, self, args, params, owned, pool, lost>>
      BY <1>2 DEF EntryEnters
    <2>3. \A t \in Array : Counted(t)' <=> Counted(t)
      BY <2>1, <2>2, CountedIs, CountedThen DEF Parts
    <2>4. \A o \in Object : Untouched(o)
      BY <2>2, <2>3 DEF Untouched
    <2>5. \A o \in Object : Kept(o)' \/ Loose(o)'
      BY <2>4, StaysAsItWas DEF Accounted
    <2> QED BY <2>1, <2>5 DEF Accounted
  <1>3. CASE MethodEnters(a)
    <2>1. PICK n \in 0 .. MaxArgs : \E boxed \in Boxed(n) : \E b \in Unused(Box) \ ToSet(boxed) :
           /\ self' = [self EXCEPT ![a] = b]
           /\ \/ /\ n = 0
                 /\ heap' = With({b}, "live")
                 /\ UNCHANGED <<items, args>>
              \/ /\ n > 0
                 /\ \E r \in Unused(Array) :
                      /\ heap' = With({b, r} \cup ToSet(boxed), "live")
                      /\ items' = [items EXCEPT ![r] = boxed]
                      /\ args' = [args EXCEPT ![a] = r]
      BY <1>3 DEF MethodEnters
    <2>2. PICK boxed \in Boxed(n) : \E b \in Unused(Box) \ ToSet(boxed) :
           /\ self' = [self EXCEPT ![a] = b]
           /\ \/ /\ n = 0
                 /\ heap' = With({b}, "live")
                 /\ UNCHANGED <<items, args>>
              \/ /\ n > 0
                 /\ \E r \in Unused(Array) :
                      /\ heap' = With({b, r} \cup ToSet(boxed), "live")
                      /\ items' = [items EXCEPT ![r] = boxed]
                      /\ args' = [args EXCEPT ![a] = r]
      BY <2>1
    <2>3. PICK b \in Unused(Box) \ ToSet(boxed) :
           /\ self' = [self EXCEPT ![a] = b]
           /\ \/ /\ n = 0
                 /\ heap' = With({b}, "live")
                 /\ UNCHANGED <<items, args>>
              \/ /\ n > 0
                 /\ \E r \in Unused(Array) :
                      /\ heap' = With({b, r} \cup ToSet(boxed), "live")
                      /\ items' = [items EXCEPT ![r] = boxed]
                      /\ args' = [args EXCEPT ![a] = r]
      BY <2>2
    <2>4. /\ boxed \in Seq(Handle) /\ DOMAIN boxed = 1 .. n
          /\ \A i \in 1 .. n : boxed[i] # Null => boxed[i] \in Box /\ heap[boxed[i]] = "unused"
          /\ \A i, j \in 1 .. n : boxed[i] = boxed[j] /\ boxed[i] # Null => i = j
      BY <1>0, BoxedType
    <2>5. \A o \in Object : o \in ToSet(boxed) => heap[o] = "unused"
      BY <1>0, <2>4 DEF ToSet
    <2>6. /\ at[a] = "idle" /\ UNCHANGED <<params, owned, pool, lost>>
          /\ b \in Box /\ heap[b] = "unused"
          /\ \A x \in Activation : self'[x] = IF x = a THEN b ELSE self[x]
          /\ self[a] = Null /\ args[a] = Null
      BY <1>3, <2>3 DEF MethodEnters, Goto, Unused, Parts, HandlesTypeOK, FrameOK
    <2>7. CASE n = 0 /\ heap' = With({b}, "live") /\ UNCHANGED <<items, args>>
      <3> DEFINE s == <<>>
      <3>1. \A o \in Object : heap'[o] = IF o \in {b} THEN "live" ELSE heap[o]
        BY <2>7, WithType DEF Parts
      <3>2. ToSet(s) = {} /\ s \in Seq(Handle) /\ DOMAIN s = {}
        BY DEF ToSet
      <3>3. \A x \in Activation : args'[x] = IF x = a THEN Null ELSE args[x]
        BY <2>6, <2>7
      <3>4. \A t \in Array : items'[t] = IF t = Null THEN s ELSE items[t]
        BY <1>0, <2>7
      <3> HIDE DEF s
      <3>5. s = <<>>
        BY DEF s
      <3>6. /\ \A o \in Object : o \in {b, Null} \cup ToSet(s) => heap[o] = "unused" /\ heap'[o] = "live"
            /\ \A o \in Object : o \notin {b, Null} \cup ToSet(s) => heap'[o] = heap[o]
            /\ b \notin ToSet(s)
            /\ \A i, j \in DOMAIN s : s[i] = s[j] /\ s[i] # Null => i = j
        BY <1>0, <2>6, <3>1, <3>2
      <3>7. b \in Box \cup {Null} /\ Null \in Array \cup {Null} /\ Parts'
        BY <1>1, <2>6
      <3>8. Receives(a, b, Null, s)
        BY <2>6, <3>2, <3>3, <3>4, <3>5, <3>6, <3>7 DEF Receives
      <3> QED BY <1>1, <3>8, PassedIsHeld
    <2>8. CASE \E r \in Unused(Array) :
                      /\ heap' = With({b, r} \cup ToSet(boxed), "live")
                      /\ items' = [items EXCEPT ![r] = boxed]
                      /\ args' = [args EXCEPT ![a] = r]
      <3> PICK r \in Unused(Array) :
                      /\ heap' = With({b, r} \cup ToSet(boxed), "live")
                      /\ items' = [items EXCEPT ![r] = boxed]
                      /\ args' = [args EXCEPT ![a] = r]
        BY <2>8
      <3>1. \A o \in Object : heap'[o] = IF o \in {b, r} \cup ToSet(boxed) THEN "live" ELSE heap[o]
        BY WithType DEF Parts
      <3>2. r \in Array /\ heap[r] = "unused" /\ r # Null
        BY <1>0 DEF Unused
      <3>3. \A x \in Activation : args'[x] = IF x = a THEN r ELSE args[x]
        BY DEF Parts, HandlesTypeOK
      <3>4. \A t \in Array : items'[t] = IF t = r THEN boxed ELSE items[t]
        BY DEF Parts, HandlesTypeOK
      <3>5. /\ \A o \in Object : o \in {b, r} \cup ToSet(boxed) => heap[o] = "unused" /\ heap'[o] = "live"
            /\ \A o \in Object : o \notin {b, r} \cup ToSet(boxed) => heap'[o] = heap[o]
            /\ b \notin ToSet(boxed)
            /\ \A i, j \in DOMAIN boxed : boxed[i] = boxed[j] /\ boxed[i] # Null => i = j
        BY <2>4, <2>5, <2>6, <3>1, <3>2
      <3>6. b \in Box \cup {Null} /\ r \in Array \cup {Null} /\ Parts'
        BY <1>1, <2>6, <3>2
      <3>7. Receives(a, b, r, boxed)
        BY <2>4, <2>6, <3>2, <3>3, <3>4, <3>5, <3>6 DEF Receives
      <3> QED BY <1>1, <3>7, PassedIsHeld
    <2> QED BY <2>3, <2>7, <2>8
  <1>4. CASE BlockEnters(a)
    <2>1. PICK n \in 0 .. MaxArgs : \E boxed \in Boxed(n) : \E r \in Unused(Array) :
           /\ heap' = With({r} \cup ToSet(boxed), "live")
           /\ items' = [items EXCEPT ![r] = boxed]
           /\ args' = [args EXCEPT ![a] = r]
      BY <1>4 DEF BlockEnters
    <2>2. PICK boxed \in Boxed(n) : \E r \in Unused(Array) :
           /\ heap' = With({r} \cup ToSet(boxed), "live")
           /\ items' = [items EXCEPT ![r] = boxed]
           /\ args' = [args EXCEPT ![a] = r]
      BY <2>1
    <2>3. PICK r \in Unused(Array) :
           /\ heap' = With({r} \cup ToSet(boxed), "live")
           /\ items' = [items EXCEPT ![r] = boxed]
           /\ args' = [args EXCEPT ![a] = r]
      BY <2>2
    <2>4. /\ boxed \in Seq(Handle) /\ DOMAIN boxed = 1 .. n
          /\ \A i \in 1 .. n : boxed[i] # Null => boxed[i] \in Box /\ heap[boxed[i]] = "unused"
          /\ \A i, j \in 1 .. n : boxed[i] = boxed[j] /\ boxed[i] # Null => i = j
      BY <1>0, BoxedType
    <2>5. \A o \in Object : o \in ToSet(boxed) => heap[o] = "unused"
      BY <1>0, <2>4 DEF ToSet
    <2>6. /\ at[a] = "idle" /\ UNCHANGED <<self, params, owned, pool, lost>>
          /\ self[a] = Null
          /\ \A x \in Activation : self'[x] = IF x = a THEN Null ELSE self[x]
      BY <1>4 DEF BlockEnters, Goto, Parts, HandlesTypeOK, FrameOK
    <2>7. \A o \in Object : heap'[o] = IF o \in {r} \cup ToSet(boxed) THEN "live" ELSE heap[o]
      BY <2>3, WithType DEF Parts
    <2>8. r \in Array /\ heap[r] = "unused" /\ r # Null
      BY <1>0 DEF Unused
    <2>9. \A x \in Activation : args'[x] = IF x = a THEN r ELSE args[x]
      BY <2>3 DEF Parts, HandlesTypeOK
    <2>10. \A t \in Array : items'[t] = IF t = r THEN boxed ELSE items[t]
      BY <2>3 DEF Parts, HandlesTypeOK
    <2>11. /\ \A o \in Object : o \in {Null, r} \cup ToSet(boxed) => heap[o] = "unused" /\ heap'[o] = "live"
           /\ \A o \in Object : o \notin {Null, r} \cup ToSet(boxed) => heap'[o] = heap[o]
           /\ \A i, j \in DOMAIN boxed : boxed[i] = boxed[j] /\ boxed[i] # Null => i = j
      BY <1>0, <2>4, <2>5, <2>6, <2>7, <2>8
    <2>12. Null \in Box \cup {Null} /\ r \in Array \cup {Null} /\ Parts'
      BY <1>1, <2>8
    <2>13. Receives(a, Null, r, boxed)
      BY <2>4, <2>6, <2>8, <2>9, <2>10, <2>11, <2>12 DEF Receives
    <2> QED BY <1>1, <2>13, PassedIsHeld
  <1> QED BY <1>2, <1>3, <1>4 DEF Enters

-------------------------------------------------------------------------------
(* Leaving: what a had is freed, or known to be lost.                        *)

\* a no longer has it.
Dropped(a, o) ==
  \/ o \in owned[a]
  \/ o = self[a] /\ self'[a] # self[a]
  \/ o = args[a] /\ args'[a] # args[a]
  \/ o \in ToSet(pool[a]) /\ pool'[a] = <<>>
  \/ \E r \in Array : Counted(r) /\ ~ Counted(r)' /\ o \in ToSet(items[r])

LetsGo(a) ==
  /\ UNCHANGED <<items, params>>
  /\ \A x \in Activation : x # a =>
       owned'[x] = owned[x] /\ self'[x] = self[x] /\ args'[x] = args[x] /\ pool'[x] = pool[x]
  /\ owned'[a] = {}
  /\ self'[a] = self[a] \/ self'[a] = Null
  /\ args'[a] = args[a] \/ args'[a] = Null
  /\ pool'[a] = pool[a] \/ pool'[a] = <<>>

LEMMA WhatWentIsKnown ==
  ASSUME Parts, Accounted, Parts', NEW a \in Activation, LetsGo(a),
         \A o \in Object : Dropped(a, o) => heap'[o] # "live" \/ o \in lost',
         \A o \in Object : ~ Dropped(a, o) => heap'[o] = heap[o],
         lost \subseteq lost'
  PROVE  Accounted'
  <1>0. Box \subseteq Object /\ Null \notin Object /\ Array \subseteq Object
    BY HandlesAssumption DEF Object
  <1>1. Found
    BY FindsIt
  <1>2. \A t \in Array : Counted(t)' => Counted(t)
    <2>1. \A t \in Array : t # Null
      BY <1>0
    <2> QED BY <2>1, CountedIs, CountedThen DEF Parts, LetsGo
  <1>3. ASSUME NEW o \in Object
        PROVE  /\ NotOwned(o) => NotOwned(o)'
               /\ NotSelf(o) => NotSelf(o)'
               /\ NotArgs(o) => NotArgs(o)'
               /\ NotParams(o) => NotParams(o)'
               /\ NotPooled(o) => NotPooled(o)'
               /\ NotItem(o) => NotItem(o)'
    <2>0. o # Null
      BY <1>0
    <2>1. NotOwned(o) => NotOwned(o)'
      BY DEF LetsGo, NotOwned
    <2>2. (NotSelf(o) => NotSelf(o)') /\ (NotArgs(o) => NotArgs(o)') /\ (NotParams(o) => NotParams(o)')
      BY <2>0 DEF LetsGo, NotSelf, NotArgs, NotParams
    <2>3. NotPooled(o) => NotPooled(o)'
      <3>1. o \notin ToSet(<<>>)
        BY DEF ToSet
      <3> QED BY <3>1 DEF LetsGo, NotPooled
    <2>4. NotItem(o) => NotItem(o)'
      BY <1>2 DEF LetsGo, NotItem
    <2> QED BY <2>1, <2>2, <2>3, <2>4
  <1>4. ASSUME NEW o \in Object, Dropped(a, o) PROVE Loose(o)'
    <2>0. o # Null
      BY <1>0
    <2>1. CASE o \in owned[a]
      <3>1. OnlyOwned(o, a)
        BY <1>1, <2>1 DEF Found
      <3>2. NotOwned(o)'
        BY <3>1 DEF OnlyOwned, NotOwned, LetsGo
      <3> QED BY <1>3, <1>4, <3>1, <3>2 DEF OnlyOwned, Loose
    <2>2. CASE o = self[a] /\ self'[a] # self[a]
      <3>1. OnlySelf(o, a)
        BY <1>1, <2>0, <2>2 DEF Found
      <3>2. NotSelf(o)'
        BY <2>2, <3>1 DEF OnlySelf, NotSelf, LetsGo
      <3> QED BY <1>3, <1>4, <3>1, <3>2 DEF OnlySelf, Loose
    <2>3. CASE o = args[a] /\ args'[a] # args[a]
      <3>1. OnlyArgs(o, a)
        BY <1>1, <2>0, <2>3 DEF Found
      <3>2. NotArgs(o)'
        BY <2>3, <3>1 DEF OnlyArgs, NotArgs, LetsGo
      <3> QED BY <1>3, <1>4, <3>1, <3>2 DEF OnlyArgs, Loose
    <2>4. CASE o \in ToSet(pool[a]) /\ pool'[a] = <<>>
      <3> PICK i \in DOMAIN pool[a] : o = pool[a][i]
        BY <2>4 DEF ToSet
      <3>1. OnlyPooled(o, a, i)
        BY <1>1 DEF Found
      <3>2. \A x \in Activation : \A j \in DOMAIN pool'[x] : pool'[x][j] # o
        BY <2>4, <3>1 DEF OnlyPooled, LetsGo
      <3>3. NotPooled(o)'
        BY <3>2 DEF NotPooled, ToSet
      <3> QED BY <1>3, <1>4, <3>1, <3>3 DEF OnlyPooled, Loose
    <2>5. CASE \E r \in Array : Counted(r) /\ ~ Counted(r)' /\ o \in ToSet(items[r])
      <3> PICK r \in Array : Counted(r) /\ ~ Counted(r)' /\ o \in ToSet(items[r])
        BY <2>5
      <3> PICK i \in DOMAIN items[r] : o = items[r][i]
        BY DEF ToSet
      <3>1. OnlyItem(o, r, i)
        BY <1>1, <2>0 DEF Found
      <3>2. \A t \in Array : \A j \in DOMAIN items'[t] : Counted(t)' => items'[t][j] # o
        BY <1>2, <3>1 DEF OnlyItem, LetsGo
      <3>3. NotItem(o)'
        BY <3>2 DEF NotItem, ToSet
      <3> QED BY <1>3, <1>4, <3>1, <3>3 DEF OnlyItem, Loose
    <2> QED BY <1>4, <2>1, <2>2, <2>3, <2>4, <2>5 DEF Dropped
  <1>5. ASSUME NEW o \in Object, ~ Dropped(a, o) PROVE Untouched(o)
    <2>0. o # Null
      BY <1>0
    <2>1. \A x \in Activation :
            /\ o \in owned'[x] <=> o \in owned[x]
            /\ o = self'[x] <=> o = self[x]
            /\ o = args'[x] <=> o = args[x]
            /\ o = params'[x] <=> o = params[x]
      BY <1>5, <2>0 DEF Dropped, LetsGo
    <2>2. \A x \in Activation : \A i :
            i \in DOMAIN pool'[x] /\ pool'[x][i] = o <=> i \in DOMAIN pool[x] /\ pool[x][i] = o
      <3>1. CASE pool'[a] = pool[a]
        BY <3>1 DEF LetsGo
      <3>2. CASE pool'[a] = <<>>
        <4>1. \A i \in DOMAIN pool[a] : pool[a][i] # o
          BY <1>5, <3>2 DEF Dropped, ToSet
        <4> QED BY <3>2, <4>1 DEF LetsGo
      <3> QED BY <3>1, <3>2 DEF LetsGo
    <2>3. \A t \in Array : \A i :
             Counted(t)' /\ i \in DOMAIN items'[t] /\ items'[t][i] = o <=>
               Counted(t) /\ i \in DOMAIN items[t] /\ items[t][i] = o
      BY <1>2, <1>5 DEF Dropped, ToSet, LetsGo
    <2> QED BY <1>5, <2>1, <2>2, <2>3 DEF Untouched
  <1>6. \A o \in Object : Kept(o)' \/ Loose(o)'
    BY <1>4, <1>5, StaysAsItWas DEF Accounted
  <1> QED BY <1>6 DEF Accounted

\* The frame goes, and with it the arguments' array.
LEMMA FrameGoes ==
  ASSUME Parts, NEW a \in Activation, NEW from, Leave(a, from),
         heap' \in [Object -> {"unused", "live", "freed"}],
         \A o \in Object : heap'[o] = "unused" => heap[o] = "unused",
         UNCHANGED items, owned' = [owned EXCEPT ![a] = {}], pool' = [pool EXCEPT ![a] = <<>>],
         params[a] = Null
  PROVE  Parts' /\ LetsGo(a)
  <1>1. /\ at' = [at EXCEPT ![a] = "idle"] /\ kind' = [kind EXCEPT ![a] = "none"]
        /\ self' = [self EXCEPT ![a] = Null] /\ args' = [args EXCEPT ![a] = Null]
        /\ UNCHANGED params
    BY DEF Leave, Goto
  <1>2. HandlesTypeOK'
    BY <1>1 DEF Parts, HandlesTypeOK, Handle
  <1>3. \A x \in Activation : FrameOK(x)'
    BY <1>1 DEF Parts, FrameOK, HandlesTypeOK
  <1>4. FreshArrays'
    BY DEF Parts, FreshArrays, Object
  <1>5. LetsGo(a)
    BY <1>1 DEF Parts, HandlesTypeOK, LetsGo
  <1> QED BY <1>2, <1>3, <1>4, <1>5 DEF Parts

\* The array of the arguments was held by a alone: its items go when it does.
LEMMA ArgumentsGo ==
  ASSUME Parts, Accounted, NEW a \in Activation, Parts', LetsGo(a), NEW o \in Object,
         NEW r \in Array, Counted(r), ~ Counted(r)', o \in ToSet(items[r])
  PROVE  (r \in owned[a]) \/ (r = args[a] /\ args'[a] # args[a] /\ o \in Items(args[a]) /\ args[a] # Null)
  <1>1. r # Null
    BY HandlesAssumption DEF Object
  <1>2. PICK x \in Activation : r \in owned[x] \/ r = args[x]
    BY CountedIs DEF Parts
  <1>3. ~ (r \in owned'[x] \/ r = args'[x])
    BY CountedThen DEF Parts
  <1> QED BY <1>1, <1>2, <1>3 DEF LetsGo, Items

\* What the arguments' array holds is dropped with it.
LEMMA ArgumentsDropped ==
  ASSUME Parts, Accounted, NEW a \in Activation, Parts', LetsGo(a), args'[a] = Null,
         NEW o \in Items(args[a])
  PROVE  Dropped(a, o)
  <1>1. Found
    BY FindsIt
  <1>2. args[a] # Null
    BY DEF Items
  <1>3. args[a] \in Array
    BY <1>2 DEF Parts, HandlesTypeOK
  <1>4. Counted(args[a])
    BY <1>3, CountedIs DEF Parts
  <1>5. OnlyArgs(args[a], a)
    BY <1>1, <1>2 DEF Found
  <1> PICK r \in Array : r = args[a]
    BY <1>3
  <1>6. ~ Counted(r)'
    BY <1>2, <1>5, CountedThen DEF Parts, OnlyArgs, NotOwned, LetsGo
  <1>7. o \in ToSet(items[r])
    BY <1>2 DEF Items
  <1> QED BY <1>4, <1>6, <1>7 DEF Dropped

LEMMA EntryReturnsKeeps ==
  ASSUME Parts, Accounted, NEW a \in Activation, EntryReturns(a)
  PROVE  Parts' /\ Accounted'
  <1>0. Null \notin Object
    BY HandlesAssumption
  <1>1. /\ UNCHANGED <<heap, items, owned, pool, lost>> /\ Leave(a, "running")
        /\ owned[a] = {} /\ pool[a] = <<>> /\ args[a] = Null /\ self[a] = Null
        /\ params[a] = Null
    BY <1>0 DEF EntryReturns, Settled, Parts, HandlesTypeOK, FrameOK, Leave, Goto
  <1>2. owned' = [owned EXCEPT ![a] = {}] /\ pool' = [pool EXCEPT ![a] = <<>>]
    BY <1>1 DEF Parts, HandlesTypeOK
  <1>3. Parts' /\ LetsGo(a)
    BY <1>1, <1>2, FrameGoes DEF Parts, HandlesTypeOK
  <1>4. ASSUME NEW o \in Object PROVE ~ Dropped(a, o)
    <2>1. o # Null /\ o \notin ToSet(<<>>)
      BY <1>0 DEF ToSet
    <2>2. ~ \E r \in Array : Counted(r) /\ ~ Counted(r)' /\ o \in ToSet(items[r])
      BY <1>1, <1>3, ArgumentsGo
    <2> QED BY <1>1, <2>1, <2>2 DEF Dropped
  <1>5. Accounted'
    BY <1>1, <1>3, <1>4, WhatWentIsKnown
  <1> QED BY <1>3, <1>5

LEMMA MethodReturnsKeeps ==
  ASSUME Parts, Accounted, NEW a \in Activation, NEW result \in Handle, MethodReturns(a, result)
  PROVE  Parts' /\ Accounted'
  <1>0. Null \notin Object /\ Handle = Box \cup {Null} /\ Object = Box \cup Array /\ Box \cap Array = {}
    BY HandlesAssumption DEF Object, Handle
  <1>1. /\ Leave(a, "running") /\ UNCHANGED <<items, pool>>
        /\ owned' = [owned EXCEPT ![a] = {}]
        /\ owned[a] \subseteq {result} /\ pool[a] = <<>> /\ params[a] = Null
        /\ lost' = lost \cup (Passed(a) \ {result})
        /\ result \in owned[a] \cup {self[a], Null} \cup Items(args[a])
    BY DEF MethodReturns, Settled, Parts, FrameOK, Leave, Goto
  <1>2. /\ heap' \in [Object -> {"unused", "live", "freed"}]
        /\ \A o \in Object : heap'[o] = IF o = result THEN "freed" ELSE heap[o]
    <2>1. heap' = With(Consumed(result), "freed")
      BY DEF MethodReturns
    <2>2. \A o \in Object : o \in Consumed(result) <=> o = result
      BY <1>0 DEF Consumed
    <2> QED BY <2>1, <2>2, WithType DEF Parts
  <1>3. pool' = [pool EXCEPT ![a] = <<>>]
    BY <1>1 DEF Parts, HandlesTypeOK
  <1>4. Parts' /\ LetsGo(a)
    BY <1>1, <1>2, <1>3, FrameGoes
  <1>5. ASSUME NEW o \in Object, Dropped(a, o) PROVE heap'[o] # "live" \/ o \in lost'
    <2>1. o # Null /\ o \notin ToSet(<<>>)
      BY <1>0 DEF ToSet
    <2>2. ASSUME NEW r \in Array, Counted(r), ~ Counted(r)', o \in ToSet(items[r]) PROVE o \in Items(args[a])
      <3>1. r \notin owned[a]
        BY <1>0, <1>1
      <3> QED BY <1>4, <2>2, <3>1, ArgumentsGo
    <2>3. o \in owned[a] \/ o \in Passed(a)
      BY <1>1, <1>5, <2>1, <2>2 DEF Dropped, Passed
    <2> QED BY <1>1, <1>2, <2>3
  <1>6. ASSUME NEW o \in Object, ~ Dropped(a, o) PROVE heap'[o] = heap[o]
    <2>1. args'[a] = Null /\ self'[a] = Null
      BY <1>1 DEF Leave, Parts, HandlesTypeOK
    <2>2. o # result
      BY <1>0, <1>1, <1>4, <1>6, <2>1, ArgumentsDropped DEF Dropped
    <2> QED BY <1>2, <2>2
  <1>7. Accounted'
    BY <1>1, <1>4, <1>5, <1>6, WhatWentIsKnown
  <1> QED BY <1>4, <1>7

LEMMA BlockResultKeeps ==
  ASSUME MayForward = FALSE,
         Parts, Accounted, NEW a \in Activation, NEW result \in Handle, BlockResult(a, result)
  PROVE  Parts' /\ Accounted'
  <1>0. Null \notin Object /\ Handle = Box \cup {Null} /\ Object = Box \cup Array /\ Box \cap Array = {}
    BY HandlesAssumption DEF Object, Handle
  <1>1. /\ UNCHANGED <<items, kind, self, args, params, pool, lost>>
        /\ owned' = [owned EXCEPT ![a] = {}]
        /\ at[a] = "running" /\ at' = [at EXCEPT ![a] = "returning"]
        /\ kind[a] = "block"
        /\ owned[a] \subseteq {result} /\ pool[a] = <<>> /\ params[a] = Null
        /\ result \in owned[a] \cup {Null}
    BY DEF BlockResult, Settled, Parts, FrameOK, Goto
  <1>2. /\ heap' \in [Object -> {"unused", "live", "freed"}]
        /\ \A o \in Object : heap'[o] = IF o = result THEN "freed" ELSE heap[o]
    <2>1. heap' = With(Consumed(result), "freed")
      BY DEF BlockResult
    <2>2. \A o \in Object : o \in Consumed(result) <=> o = result
      BY <1>0 DEF Consumed
    <2> QED BY <2>1, <2>2, WithType DEF Parts
  <1>3. LetsGo(a)
    BY <1>1 DEF LetsGo, Parts, HandlesTypeOK
  <1>4. Parts'
    <2>1. HandlesTypeOK'
      BY <1>1, <1>2 DEF Parts, HandlesTypeOK
    <2>2. \A x \in Activation : FrameOK(x)'
      BY <1>1 DEF Parts, FrameOK, HandlesTypeOK
    <2>3. FreshArrays'
      BY <1>0, <1>1, <1>2 DEF Parts, FreshArrays
    <2> QED BY <2>1, <2>2, <2>3 DEF Parts
  <1>5. ASSUME NEW o \in Object, Dropped(a, o) PROVE heap'[o] # "live" \/ o \in lost'
    <2>1. o \notin ToSet(<<>>)
      BY DEF ToSet
    <2>2. ~ \E r \in Array : Counted(r) /\ ~ Counted(r)' /\ o \in ToSet(items[r])
      <3>1. \A r \in Array : r \notin owned[a]
        BY <1>0, <1>1
      <3> QED BY <1>1, <1>3, <1>4, <3>1, ArgumentsGo
    <2> QED BY <1>1, <1>2, <1>5, <2>1, <2>2 DEF Dropped
  <1>6. ASSUME NEW o \in Object, ~ Dropped(a, o) PROVE heap'[o] = heap[o]
    BY <1>0, <1>1, <1>2, <1>6 DEF Dropped
  <1>7. Accounted'
    BY <1>1, <1>3, <1>4, <1>5, <1>6, WhatWentIsKnown
  <1> QED BY <1>4, <1>7

LEMMA BlockReturnsKeeps ==
  ASSUME Parts, Accounted, NEW a \in Activation, BlockReturns(a)
  PROVE  Parts' /\ Accounted'
  <1>0. Null \notin Object /\ Object = Box \cup Array
    BY HandlesAssumption DEF Object
  <1>1. /\ Leave(a, "returning") /\ UNCHANGED <<items, owned, pool, lost>>
        /\ owned[a] = {} /\ pool[a] = <<>> /\ params[a] = Null /\ self[a] = Null
        /\ args[a] \in Array
        /\ args'[a] = Null
    BY DEF BlockReturns, Parts, HandlesTypeOK, FrameOK, Leave, Goto
  <1>2. /\ heap' \in [Object -> {"unused", "live", "freed"}]
        /\ \A o \in Object :
             heap'[o] = IF o = args[a] \/ o \in Items(args[a]) THEN "freed" ELSE heap[o]
    <2>1. heap' = With({args[a]} \cup Items(args[a]), "freed")
      <3>1. args[a] # Null
        BY <1>0, <1>1
      <3> QED BY <3>1 DEF BlockReturns, ArrayAndItems, Items
    <2> QED BY <2>1, WithType DEF Parts
  <1>3. owned' = [owned EXCEPT ![a] = {}] /\ pool' = [pool EXCEPT ![a] = <<>>]
    BY <1>1 DEF Parts, HandlesTypeOK
  <1>4. Parts' /\ LetsGo(a)
    BY <1>1, <1>2, <1>3, FrameGoes
  <1>5. ASSUME NEW o \in Object, Dropped(a, o) PROVE heap'[o] # "live"
    <2>1. o # Null /\ o \notin ToSet(<<>>)
      BY <1>0 DEF ToSet
    <2>2. ASSUME NEW r \in Array, Counted(r), ~ Counted(r)', o \in ToSet(items[r]) PROVE o \in Items(args[a])
      BY <1>1, <1>4, <2>2, ArgumentsGo
    <2> QED BY <1>1, <1>2, <1>5, <2>1, <2>2 DEF Dropped
  <1>6. ASSUME NEW o \in Object, ~ Dropped(a, o) PROVE heap'[o] = heap[o]
    <2>1. o # args[a] /\ o \notin Items(args[a])
      BY <1>0, <1>1, <1>4, <1>6, ArgumentsDropped DEF Dropped
    <2> QED BY <1>2, <2>1
  <1>7. Accounted'
    BY <1>1, <1>4, <1>5, <1>6, WhatWentIsKnown
  <1> QED BY <1>4, <1>7

LEMMA TrapsKeeps ==
  ASSUME Parts, Accounted, NEW a \in Activation, Traps(a)
  PROVE  Parts' /\ Accounted'
  <1>0. Null \notin Object /\ Object = Box \cup Array
    BY HandlesAssumption DEF Object
  <1> DEFINE had == owned[a] \cup ToSet(pool[a]) \cup UNION {Items(r) : r \in owned[a] \cap Array}
  <1>1. /\ at[a] = "running" /\ UNCHANGED <<heap, items>> /\ params[a] = Null
        /\ owned' = [owned EXCEPT ![a] = {}] /\ pool' = [pool EXCEPT ![a] = <<>>]
    BY DEF Traps, Running, Parts, FrameOK
  <1>2. ASSUME NEW r \in owned[a], r \in Array PROVE ToSet(items[r]) \subseteq had
    <2>1. Items(r) = ToSet(items[r])
      BY <1>0, <1>2 DEF Items
    <2> QED BY <1>2, <2>1
  <1> HIDE DEF had
  <1>3. CASE /\ kind[a] = "block" /\ lost' = lost \cup had
             /\ Goto(a, "running", "returning")
             /\ UNCHANGED <<kind, self, args, params>>
    <2>1. HandlesTypeOK'
      BY <1>1, <1>3 DEF Goto, Parts, HandlesTypeOK
    <2>2. \A x \in Activation : FrameOK(x)'
      BY <1>1, <1>3 DEF Goto, Parts, FrameOK, HandlesTypeOK
    <2>3. FreshArrays'
      BY <1>1 DEF Parts, FreshArrays
    <2>4. Parts'
      BY <2>1, <2>2, <2>3 DEF Parts
    <2>5. LetsGo(a)
      BY <1>1, <1>3 DEF LetsGo, Parts, HandlesTypeOK
    <2>6. ASSUME NEW o \in Object, Dropped(a, o) PROVE o \in lost'
      <3>1. ASSUME NEW r \in Array, Counted(r), ~ Counted(r)', o \in ToSet(items[r]) PROVE o \in had
        BY <1>2, <1>3, <2>4, <2>5, <3>1, ArgumentsGo
      <3>2. owned[a] \subseteq had /\ ToSet(pool[a]) \subseteq had
        BY DEF had
      <3> QED BY <1>3, <2>6, <3>1, <3>2 DEF Dropped
    <2>7. Accounted'
      BY <1>1, <1>3, <2>4, <2>5, <2>6, WhatWentIsKnown
    <2> QED BY <2>4, <2>7
  <1>4. CASE lost' = lost \cup had \cup Passed(a) /\ Leave(a, "running")
    <2>1. Parts' /\ LetsGo(a)
      BY <1>1, <1>4, FrameGoes DEF Parts, HandlesTypeOK
    <2>2. ASSUME NEW o \in Object, Dropped(a, o) PROVE o \in lost'
      <3>0. o # Null
        BY <1>0
      <3>1. ASSUME NEW r \in Array, Counted(r), ~ Counted(r)', o \in ToSet(items[r])
            PROVE  o \in had \/ o \in Items(args[a])
        BY <1>2, <2>1, <3>1, ArgumentsGo
      <3>2. owned[a] \subseteq had /\ ToSet(pool[a]) \subseteq had
        BY DEF had
      <3> QED BY <1>4, <2>2, <3>0, <3>1, <3>2 DEF Dropped, Passed
    <2>3. Accounted'
      BY <1>1, <1>4, <2>1, <2>2, WhatWentIsKnown
    <2> QED BY <2>1, <2>3
  <1> QED BY <1>3, <1>4 DEF Traps, had

LEMMA ReturnsKeeps ==
  ASSUME MayForward = FALSE, Parts, Accounted, NEW a \in Activation, Returns(a)
  PROVE  Parts' /\ Accounted'
  <1>1. CASE EntryReturns(a)
    BY <1>1, EntryReturnsKeeps
  <1>2. CASE \E result \in Handle : MethodReturns(a, result)
    BY <1>2, MethodReturnsKeeps
  <1>3. CASE \E result \in Handle : BlockResult(a, result)
    BY <1>3, BlockResultKeeps
  <1>4. CASE BlockReturns(a)
    BY <1>4, BlockReturnsKeeps
  <1>5. CASE Traps(a)
    BY <1>5, TrapsKeeps
  <1> QED BY <1>1, <1>2, <1>3, <1>4, <1>5 DEF Returns

-------------------------------------------------------------------------------
(* The theorems.                                                             *)

LEMMA HandlesStarts == Init => Parts /\ Accounted
  <1> SUFFICES ASSUME Init PROVE Parts /\ Accounted
    OBVIOUS
  <1>0. Object = Box \cup Array /\ Null \notin Object
    BY HandlesAssumption DEF Object
  <1>1. HandlesTypeOK
    BY DEF Init, HandlesTypeOK, Handle
  <1>2. (\A a \in Activation : FrameOK(a)) /\ FreshArrays
    BY DEF Init, FrameOK, FreshArrays
  <1>3. ASSUME NEW o \in Object PROVE Loose(o)
    <2>1. o # Null /\ o \notin ToSet(<<>>)
      BY <1>0 DEF ToSet
    <2> QED BY <2>1 DEF Init, Loose, NotOwned, NotSelf, NotArgs, NotParams, NotPooled, NotItem
  <1> QED BY <1>1, <1>2, <1>3 DEF Parts, Accounted

LEMMA HandlesStutter ==
  ASSUME Parts, Accounted, UNCHANGED vars
  PROVE  Parts' /\ Accounted'
  <1>1. Parts'
    BY DEF Parts, HandlesTypeOK, FrameOK, FreshArrays, vars, frameVars
  <1>2. \A t \in Array : Counted(t)' <=> Counted(t)
    BY DEF Counted, Arrays, vars, frameVars
  <1>3. \A o \in Object : Untouched(o)
    BY <1>2 DEF Untouched, vars, frameVars
  <1>4. \A o \in Object : Kept(o)' \/ Loose(o)'
    BY <1>3, StaysAsItWas DEF Accounted
  <1> QED BY <1>1, <1>4 DEF Accounted

LEMMA HandlesStep ==
  ASSUME MayForward = FALSE, Parts, Accounted, [Next]_vars
  PROVE  Parts' /\ Accounted'
  <1>1. CASE Next
    <2> PICK a \in Activation : Enters(a) \/ Export(a) \/ Returns(a)
      BY <1>1 DEF Next
    <2> QED BY EntersKeeps, ExportKeeps, ReturnsKeeps
  <1>2. CASE UNCHANGED vars
    BY <1>2, HandlesStutter
  <1> QED BY <1>1, <1>2

\* However many functions of the patch run, enter, return, trap and call the
\* exports, every box and array has at most one that will free it, which is
\* allocated, and is otherwise freed, or among what is known to be lost.
THEOREM HandlesInvariant ==
  ASSUME MayForward = FALSE
  PROVE  Spec => []HandlesInv
  <1>1. Init => Parts /\ Accounted
    BY HandlesStarts
  <1>2. (Parts /\ Accounted) /\ [Next]_vars => (Parts /\ Accounted)'
    BY HandlesStep
  <1>3. Parts /\ Accounted => HandlesInv
    BY KeptOrLoose DEF Parts, Accounted, HandlesInv
  <1> QED BY <1>1, <1>2, <1>3, PTL DEF Spec

\* No box and no array is freed twice, or used after it was freed, by a careful
\* patch, the exports, binding_objc_method and BlockTrampoline together.
THEOREM FreedOnce ==
  ASSUME MayForward = FALSE
  PROVE  Spec => []HeldOnce
  <1>1. HandlesInv => HeldOnce
    BY DEF HandlesInv
  <1> QED BY <1>1, HandlesInvariant, PTL

\* Nothing leaks but what binding_objc_method made for a call, what a full pool
\* refused and what a trapped function had.
THEOREM LeaksAreListed ==
  ASSUME MayForward = FALSE
  PROVE  Spec => []LeaksAreKnown
  <1>1. HandlesInv => LeaksAreKnown
    BY DEF HandlesInv
  <1> QED BY <1>1, HandlesInvariant, PTL
===============================================================================
