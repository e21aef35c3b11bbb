-------------------------- MODULE ObjcMethod_proofs --------------------------
(***************************************************************************)
(* Proofs about the hook registry, for every class hierarchy, every set of *)
(* closures and every bound on the hooks.                                  *)
(***************************************************************************)
EXTENDS ObjcMethod, TLAPS

\* What Append and Tail do to the indices of a sequence of hooks.
LEMMA AppendHook ==
  ASSUME NEW s \in Seq(Hook), NEW h \in Hook
  PROVE  /\ Append(s, h) \in Seq(Hook)
         /\ DOMAIN Append(s, h) = DOMAIN s \cup {Len(s) + 1}
         /\ \A i \in DOMAIN s : i # Len(s) + 1 /\ Append(s, h)[i] = s[i]
         /\ Append(s, h)[Len(s) + 1] = h
  OBVIOUS

LEMMA TailHook ==
  ASSUME NEW s \in Seq(Hook), s # <<>>
  PROVE  /\ Tail(s) \in Seq(Hook)
         /\ Head(s) = s[1] /\ Head(s) \in Hook /\ 1 \in DOMAIN s
         /\ \A i \in DOMAIN Tail(s) : i + 1 \in DOMAIN s /\ i + 1 # 1 /\ Tail(s)[i] = s[i + 1]
         /\ \A i \in DOMAIN s : i # 1 => i - 1 \in DOMAIN Tail(s) /\ Tail(s)[i - 1] = s[i]
  OBVIOUS

LEMMA HookFields ==
  ASSUME NEW s \in Seq(Hook), NEW i \in DOMAIN s
  PROVE  /\ s[i].target \in Target
         /\ s[i].original \in Imp \cup {NoImp}
         /\ s[i].closure \in Closure \cup {NoClosure}
  <1>1. s[i] \in Hook
    OBVIOUS
  <1> QED BY <1>1 DEF Hook

\* A method table answers every lookup with an implementation or with NoImp.
LEMMA LookupType ==
  ASSUME NEW V, NEW table \in [Method -> V], NoImp \in V, NEW m \in Target
  PROVE  Lookup(table, m) \in V
  <1>1. CASE \E a \in Class : m[1] \in Class /\ Nearest(table, a, m[1], m[2])
    <2> DEFINE a == CHOOSE a \in Class : Nearest(table, a, m[1], m[2])
    <2>1. a \in Class
      BY <1>1
    <2>2. <<a, m[2]>> \in Method
      BY <2>1 DEF Method, Target
    <2> QED BY <1>1, <2>2 DEF Lookup
  <1>2. CASE ~ \E a \in Class : m[1] \in Class /\ Nearest(table, a, m[1], m[2])
    BY <1>2 DEF Lookup
  <1> QED BY <1>1, <1>2

\* Only a method of an existing class can be found.
LEMMA LookupFound ==
  ASSUME NEW table, NEW m \in Target, Lookup(table, m) # NoImp
  PROVE  m \in Method
  BY DEF Lookup, Method, Target

-------------------------------------------------------------------------------
(* Type correctness: every action keeps the registry well formed.            *)

LEMMA TypeInit == MethodInit => TypeOK
  <1> SUFFICES ASSUME MethodInit PROVE TypeOK
    OBVIOUS
  <1>1. imp \in [Method -> Imp \cup {NoImp}]
    BY DEF MethodInit, ShippedTable, Imp
  <1>2. closure \in [Closure -> {"unused", "live", "freed"}]
    BY DEF MethodInit
  <1>3. hooks \in Seq(Hook) /\ DOMAIN hooks = {}
    BY DEF MethodInit
  <1> QED BY <1>1, <1>2, <1>3 DEF TypeOK, MethodInit

\* Registering a hook whose original implementation is one that lookup found.
LEMMA TypeRegister ==
  ASSUME TypeOK, NEW h \in Hook, NEW failed \in BOOLEAN,
         h.original # NoImp \/ h.closure # NoClosure => h.target \in Method,
         Register(h, failed)
  PROVE  /\ hooks' \in Seq(Hook)
         /\ \A i \in DOMAIN hooks' : hooks'[i].original # NoImp \/ hooks'[i].closure # NoClosure => hooks'[i].target \in Method
         /\ hookErrors' \in Nat
         /\ mutex' \in {"free", "clearing"}
  <1>1. /\ hooks' = Append(hooks, h) /\ hooks \in Seq(Hook)
        /\ hookErrors' \in Nat /\ mutex' \in {"free", "clearing"}
    BY DEF Register, TypeOK
  <1>2. \A i \in DOMAIN hooks : hooks[i].original # NoImp \/ hooks[i].closure # NoClosure => hooks[i].target \in Method
    BY DEF TypeOK
  <1> QED BY <1>1, <1>2, AppendHook

LEMMA TypeAddHook ==
  ASSUME TypeOK, NEW m \in Target, AddHook(m)
  PROVE  TypeOK'
  <1>0. /\ imp \in [Method -> Imp \cup {NoImp}]
        /\ closure \in [Closure -> {"unused", "live", "freed"}]
    BY DEF TypeOK
  <1>1. Lookup(imp, m) \in Imp \cup {NoImp} /\ (Lookup(imp, m) # NoImp => m \in Method)
    BY <1>0, LookupType, LookupFound
  <1>2. CASE HookTargetMissing(m)
    <2>1. [target |-> m, original |-> NoImp, closure |-> NoClosure] \in Hook
      BY DEF Hook
    <2>2. imp' = imp /\ closure' = closure
      BY <1>2 DEF HookTargetMissing
    <2> QED BY <1>0, <1>2, <2>1, <2>2, TypeRegister DEF HookTargetMissing, TypeOK
  <1>3. CASE HookAllocFailed(m)
    <2>1. [target |-> m, original |-> Lookup(imp, m), closure |-> NoClosure] \in Hook
      BY <1>1 DEF Hook
    <2>2. imp' = imp /\ closure' = closure
      BY <1>3 DEF HookAllocFailed
    <2> QED BY <1>0, <1>1, <1>3, <2>1, <2>2, TypeRegister DEF HookAllocFailed, TypeOK
  <1>4. CASE HookPrepareFailed(m)
    <2>1. [target |-> m, original |-> Lookup(imp, m), closure |-> NoClosure] \in Hook
      BY <1>1 DEF Hook
    <2>2. imp' = imp /\ closure' \in [Closure -> {"unused", "live", "freed"}]
      BY <1>0, <1>4 DEF HookPrepareFailed
    <2> QED BY <1>0, <1>1, <1>4, <2>1, <2>2, TypeRegister DEF HookPrepareFailed, TypeOK
  <1>5. CASE HookInstalled(m)
    <2> PICK k \in Closure :
            /\ closure[k] = "unused"
            /\ closure' = [closure EXCEPT ![k] = "live"]
            /\ imp' = [imp EXCEPT ![m] = k]
            /\ Register([target |-> m, original |-> Lookup(imp, m), closure |-> k], FALSE)
      BY <1>5 DEF HookInstalled
    <2>1. [target |-> m, original |-> Lookup(imp, m), closure |-> k] \in Hook
      BY <1>1 DEF Hook
    <2>2. /\ imp' \in [Method -> Imp \cup {NoImp}]
          /\ closure' \in [Closure -> {"unused", "live", "freed"}]
      BY <1>0 DEF Imp
    <2>3. m \in Method
      BY <1>1, <1>5 DEF HookInstalled
    <2> QED BY <2>1, <2>2, <2>3, TypeRegister DEF TypeOK
  <1> QED BY <1>2, <1>3, <1>4, <1>5 DEF AddHook

LEMMA TypeClear ==
  ASSUME TypeOK, ClearSteps \/ ClearHookErrors
  PROVE  TypeOK'
  <1>1. CASE BeginClear
    BY <1>1 DEF BeginClear, TypeOK
  <1>2. CASE DestroyFront
    <2> DEFINE h == Head(hooks)
    <2>1. /\ hooks \in Seq(Hook) /\ hooks # <<>>
          /\ \A i \in DOMAIN hooks : hooks[i].original # NoImp \/ hooks[i].closure # NoClosure => hooks[i].target \in Method
      BY <1>2 DEF DestroyFront, TypeOK
    <2>2. h \in Hook /\ (h.original # NoImp \/ h.closure # NoClosure => h.target \in Method)
      BY <2>1, TailHook
    <2>3. imp' \in [Method -> Imp \cup {NoImp}]
      BY <1>2, <2>2 DEF DestroyFront, Restored, TypeOK, Hook
    <2>4. closure' \in [Closure -> {"unused", "live", "freed"}]
      BY <1>2, <2>2 DEF DestroyFront, Released, TypeOK, Hook
    <2>5. /\ hooks' \in Seq(Hook)
          /\ \A i \in DOMAIN hooks' : hooks'[i].original # NoImp \/ hooks'[i].closure # NoClosure => hooks'[i].target \in Method
      BY <1>2, <2>1, TailHook DEF DestroyFront
    <2> QED BY <1>2, <2>3, <2>4, <2>5 DEF DestroyFront, TypeOK
  <1>3. CASE EndClear
    BY <1>3 DEF EndClear, TypeOK
  <1>4. CASE ClearHookErrors
    BY <1>4 DEF ClearHookErrors, TypeOK
  <1> QED BY <1>1, <1>2, <1>3, <1>4 DEF ClearSteps

LEMMA TypeStep == TypeOK /\ [MethodNext]_methodVars => TypeOK'
  <1> SUFFICES ASSUME TypeOK, [MethodNext]_methodVars PROVE TypeOK'
    OBVIOUS
  <1>1. ASSUME NEW m \in Target, AddHook(m) PROVE TypeOK'
    BY <1>1, TypeAddHook
  <1>2. CASE ClearSteps \/ ClearHookErrors
    BY <1>2, TypeClear
  <1>3. CASE UNCHANGED methodVars
    BY <1>3 DEF methodVars, TypeOK
  <1> QED BY <1>1, <1>2, <1>3 DEF MethodNext

\* A careful patch is a patch: its steps are steps of the registry.
LEMMA CarefulIsMethod == [CarefulNext]_methodVars => [MethodNext]_methodVars
  BY DEF CarefulNext, MethodNext

\* The registry never leaves its types (wap::ObjcMethod, every operation).
THEOREM TypeCorrect == MethodSpec => []TypeOK
  BY TypeInit, TypeStep, PTL DEF MethodSpec

-------------------------------------------------------------------------------
(* No closure leaks and none is freed twice.                                 *)

\* The hook that addHook appends owns no closure, or one just allocated.
LEMMA OwnedRegister ==
  ASSUME TypeOK, ClosuresOwned, NEW h \in Hook, NEW failed \in BOOLEAN,
         Register(h, failed),
         \/ /\ h.closure = NoClosure
            /\ \A k \in Closure : closure[k] # "unused" => closure'[k] = closure[k]
            /\ \A k \in Closure : closure[k] = "unused" => closure'[k] # "live"
         \/ /\ h.closure \in Closure
            /\ closure[h.closure] = "unused"
            /\ closure' = [closure EXCEPT ![h.closure] = "live"]
  PROVE  ClosuresOwned'
  <1> DEFINE n == Len(hooks) + 1
  <1>1. hooks \in Seq(Hook) /\ hooks' = Append(hooks, h)
    BY DEF TypeOK, Register
  <1>2. /\ DOMAIN hooks' = DOMAIN hooks \cup {n}
        /\ \A i \in DOMAIN hooks : i # n /\ hooks'[i] = hooks[i]
        /\ hooks'[n] = h
    BY <1>1, AppendHook
  <1>3. \A i \in DOMAIN hooks : hooks[i].closure \in Closure \cup {NoClosure}
    BY <1>1, HookFields
  <1>4. closure \in [Closure -> {"unused", "live", "freed"}]
    BY DEF TypeOK
  <1>5. \A i \in DOMAIN hooks : hooks[i].closure # NoClosure => closure'[hooks[i].closure] = "live"
    BY <1>3, <1>4 DEF ClosuresOwned
  <1>6. h.closure # NoClosure =>
          /\ closure'[h.closure] = "live"
          /\ \A i \in DOMAIN hooks : hooks[i].closure # h.closure
    BY <1>3, <1>4, ValuesAssumption DEF ClosuresOwned
  <1>7. \A k \in Closure : closure'[k] = "live" => \E i \in DOMAIN hooks' : hooks'[i].closure = k
    <2> SUFFICES ASSUME NEW k \in Closure, closure'[k] = "live"
                 PROVE  \E i \in DOMAIN hooks' : hooks'[i].closure = k
      OBVIOUS
    <2>1. CASE closure[k] = "live"
      BY <2>1, <1>2 DEF ClosuresOwned
    <2>2. CASE closure[k] # "live"
      BY <2>2, <1>2, <1>4
    <2> QED BY <2>1, <2>2
  <1> QED BY <1>2, <1>5, <1>6, <1>7 DEF ClosuresOwned

LEMMA OwnedAddHook ==
  ASSUME TypeOK, ClosuresOwned, NEW m \in Target, AddHook(m)
  PROVE  ClosuresOwned'
  <1>0. /\ imp \in [Method -> Imp \cup {NoImp}]
        /\ closure \in [Closure -> {"unused", "live", "freed"}]
    BY DEF TypeOK
  <1>1. Lookup(imp, m) \in Imp \cup {NoImp}
    BY <1>0, LookupType
  <1>2. CASE HookTargetMissing(m) \/ HookAllocFailed(m)
    <2>1. PICK h \in Hook : /\ Register(h, TRUE)
                            /\ h.closure = NoClosure
                            /\ closure' = closure
      <3>1. /\ [target |-> m, original |-> NoImp, closure |-> NoClosure] \in Hook
            /\ [target |-> m, original |-> Lookup(imp, m), closure |-> NoClosure] \in Hook
        BY <1>1 DEF Hook
      <3> QED BY <3>1, <1>2 DEF HookTargetMissing, HookAllocFailed
    <2> QED BY <2>1, OwnedRegister
  <1>3. CASE HookPrepareFailed(m)
    <2> DEFINE h == [target |-> m, original |-> Lookup(imp, m), closure |-> NoClosure]
    <2>1. h \in Hook /\ h.closure = NoClosure
      BY <1>1 DEF Hook
    <2>2. Register(h, TRUE)
      BY <1>3 DEF HookPrepareFailed
    <2>3. /\ \A k \in Closure : closure[k] # "unused" => closure'[k] = closure[k]
          /\ \A k \in Closure : closure[k] = "unused" => closure'[k] # "live"
      BY <1>0, <1>3 DEF HookPrepareFailed
    <2> HIDE DEF h
    <2> QED BY <2>1, <2>2, <2>3, OwnedRegister
  <1>4. CASE HookInstalled(m)
    <2> PICK k \in Closure :
            /\ closure[k] = "unused"
            /\ closure' = [closure EXCEPT ![k] = "live"]
            /\ Register([target |-> m, original |-> Lookup(imp, m), closure |-> k], FALSE)
      BY <1>4 DEF HookInstalled
    <2> DEFINE h == [target |-> m, original |-> Lookup(imp, m), closure |-> k]
    <2>1. h \in Hook /\ h.closure = k
      BY <1>1 DEF Hook
    <2>2. Register(h, FALSE)
      OBVIOUS
    <2> HIDE DEF h
    <2> QED BY <2>1, <2>2, OwnedRegister
  <1> QED BY <1>2, <1>3, <1>4 DEF AddHook

\* The oldest hook takes its closure with it and no other hook had that one.
LEMMA OwnedDestroyFront ==
  ASSUME TypeOK, ClosuresOwned, DestroyFront
  PROVE  ClosuresOwned'
  <1>1. /\ hooks \in Seq(Hook) /\ hooks # <<>> /\ hooks' = Tail(hooks)
        /\ closure' = Released(closure, Head(hooks))
    BY DEF DestroyFront, TypeOK
  <1>2. /\ Head(hooks) = hooks[1] /\ 1 \in DOMAIN hooks
        /\ \A i \in DOMAIN hooks' : i + 1 \in DOMAIN hooks /\ i + 1 # 1 /\ hooks'[i] = hooks[i + 1]
        /\ \A i \in DOMAIN hooks : i # 1 => i - 1 \in DOMAIN hooks' /\ hooks'[i - 1] = hooks[i]
    BY <1>1, TailHook
  <1>3. \A i \in DOMAIN hooks : hooks[i].closure \in Closure \cup {NoClosure}
    BY <1>1, HookFields
  <1>4. closure \in [Closure -> {"unused", "live", "freed"}]
    BY DEF TypeOK
  <1>5. \A k \in Closure : closure'[k] = IF k = hooks[1].closure THEN "freed" ELSE closure[k]
    BY <1>1, <1>2, <1>3, <1>4, ValuesAssumption DEF Released
  <1>6. \A k \in Closure : closure'[k] = "live" => \E i \in DOMAIN hooks' : hooks'[i].closure = k
    <2> SUFFICES ASSUME NEW k \in Closure, closure'[k] = "live"
                 PROVE  \E i \in DOMAIN hooks' : hooks'[i].closure = k
      OBVIOUS
    <2>1. closure[k] = "live" /\ k # hooks[1].closure
      BY <1>5
    <2>2. PICK i \in DOMAIN hooks : hooks[i].closure = k
      BY <2>1 DEF ClosuresOwned
    <2> QED BY <2>1, <2>2, <1>2
  <1>7. \A i \in DOMAIN hooks' : hooks'[i].closure # NoClosure => closure'[hooks'[i].closure] = "live"
    BY <1>2, <1>3, <1>5 DEF ClosuresOwned
  <1>8. \A i, j \in DOMAIN hooks' :
          hooks'[i].closure = hooks'[j].closure /\ hooks'[i].closure # NoClosure => i = j
    <2> SUFFICES ASSUME NEW i \in DOMAIN hooks', NEW j \in DOMAIN hooks',
                        hooks'[i].closure = hooks'[j].closure, hooks'[i].closure # NoClosure
                 PROVE  i = j
      OBVIOUS
    <2>1. i + 1 = j + 1
      BY <1>2 DEF ClosuresOwned
    <2>2. i \in Nat /\ j \in Nat
      <3>1. hooks' \in Seq(Hook)
        BY <1>1, TailHook
      <3> QED BY <3>1
    <2> QED BY <2>1, <2>2
  <1> QED BY <1>6, <1>7, <1>8 DEF ClosuresOwned

LEMMA OwnedStep == TypeOK /\ ClosuresOwned /\ [MethodNext]_methodVars => ClosuresOwned'
  <1> SUFFICES ASSUME TypeOK, ClosuresOwned, [MethodNext]_methodVars PROVE ClosuresOwned'
    OBVIOUS
  <1>1. ASSUME NEW m \in Target, AddHook(m) PROVE ClosuresOwned'
    BY <1>1, OwnedAddHook
  <1>2. CASE DestroyFront
    BY <1>2, OwnedDestroyFront
  <1>3. CASE BeginClear \/ EndClear \/ ClearHookErrors \/ UNCHANGED methodVars
    <2>1. hooks' = hooks /\ closure' = closure
      BY <1>3 DEF BeginClear, EndClear, ClearHookErrors, methodVars
    <2> QED BY <2>1 DEF ClosuresOwned
  <1> QED BY <1>1, <1>2, <1>3 DEF MethodNext, ClearSteps

LEMMA OwnedInit == MethodInit => ClosuresOwned
  BY DEF MethodInit, ClosuresOwned

\* Whatever a patch hooks and however its hooks fail, every allocated closure
\* is owned by one registered hook (ObjcMethodHook::hook and its destructor).
THEOREM NoClosureLeaks == MethodSpec => []ClosuresOwned
  BY TypeInit, TypeStep, OwnedInit, OwnedStep, PTL DEF MethodSpec

-------------------------------------------------------------------------------
(* A careful patch is undone.                                                *)

\* The class a lookup ends at is unique: superclass chains have no cycles.
LEMMA NearestUnique ==
  ASSUME NEW table, NEW c \in Class, NEW s \in Selector,
         NEW a \in Class, Nearest(table, a, c, s)
  PROVE  Lookup(table, <<c, s>>) = table[<<a, s>>]
  <1>1. \A b \in Class : Nearest(table, b, c, s) => b = a
    <2> SUFFICES ASSUME NEW b \in Class, Nearest(table, b, c, s) PROVE b = a
      OBVIOUS
    <2>1. a \in Ancestors[c] /\ b \in Ancestors[c] /\ a \in Ancestors[b] /\ b \in Ancestors[a]
      BY DEF Nearest
    <2> QED BY <2>1, HierarchyAssumption
  <1>2. (CHOOSE b \in Class : Nearest(table, b, c, s)) = a
    BY <1>1
  <1> QED BY <1>2 DEF Lookup

\* A class with an implementation somewhere up its chain has a nearest one.
LEMMA NearestExists ==
  ASSUME NEW table, NEW c \in Class, NEW s \in Selector,
         NEW b \in Ancestors[c], table[<<b, s>>] # NoImp
  PROVE  \E a \in Class : Nearest(table, a, c, s)
  <1> DEFINE S == {d \in Ancestors[c] : table[<<d, s>>] # NoImp}
  <1>1. S \subseteq Ancestors[c] /\ S # {}
    OBVIOUS
  <1>2. \E a \in S : S \subseteq Ancestors[a]
    <2> HIDE DEF S
    <2>1. \A T \in (SUBSET Ancestors[c]) \ {{}} : \E a \in T : T \subseteq Ancestors[a]
      BY HierarchyAssumption
    <2> QED BY <1>1, <2>1
  <1> PICK a \in S : S \subseteq Ancestors[a]
    BY <1>2
  <1>3. a \in Class
    <2>1. a \in Ancestors[c] /\ Ancestors[c] \subseteq Class
      BY HierarchyAssumption
    <2> QED BY <2>1
  <1> QED BY <1>3 DEF Nearest

\* A shipped method is found in its own class.
LEMMA ShippedLookup ==
  ASSUME NEW c \in Class, NEW s \in Selector, <<c, s>> \in Shipped
  PROVE  Lookup(ShippedTable, <<c, s>>) = <<c, s>>
  <1>1. <<c, s>> \in Method
    BY DEF Method
  <1>2. ShippedTable[<<c, s>>] = <<c, s>> /\ <<c, s>> # NoImp
    BY <1>1, ValuesAssumption DEF ShippedTable
  <1>3. Nearest(ShippedTable, c, c, s)
    <2>1. c \in Ancestors[c] /\ Ancestors[c] \subseteq Class
      BY HierarchyAssumption
    <2> QED BY <2>1, <1>2 DEF Nearest
  <1> QED BY <1>2, <1>3, NearestUnique

\* If every slot up the chain of c is as shipped, or holds what the shipped
\* program would have run there, a message to c runs what the shipped program ran.
LEMMA LookupUnchanged ==
  ASSUME NEW table, NEW c \in Class, NEW s \in Selector,
         \A a \in Ancestors[c] :
           \/ table[<<a, s>>] = NoImp /\ <<a, s>> \notin Shipped
           \/ table[<<a, s>>] = Lookup(ShippedTable, <<a, s>>) /\ table[<<a, s>>] # NoImp
  PROVE  Lookup(table, <<c, s>>) = Lookup(ShippedTable, <<c, s>>)
  <1>0. /\ Ancestors[c] \subseteq Class
        /\ \A a \in Ancestors[c] : Ancestors[a] \subseteq Ancestors[c] /\ a \in Ancestors[a]
    BY HierarchyAssumption
  <1>1. \A d \in Ancestors[c] : ShippedTable[<<d, s>>] # NoImp => table[<<d, s>>] # NoImp
    <2> SUFFICES ASSUME NEW d \in Ancestors[c], ShippedTable[<<d, s>>] # NoImp
                 PROVE  table[<<d, s>>] # NoImp
      OBVIOUS
    <2>1. <<d, s>> \in Method
      BY <1>0 DEF Method
    <2>2. <<d, s>> \in Shipped
      BY <2>1 DEF ShippedTable
    <2> QED BY <2>2
  <1>2. CASE \E a \in Class : Nearest(table, a, c, s)
    <2> PICK a \in Class : Nearest(table, a, c, s)
      BY <1>2
    <2>1. /\ a \in Ancestors[c] /\ table[<<a, s>>] # NoImp
          /\ \A b \in Ancestors[c] : table[<<b, s>>] # NoImp => b \in Ancestors[a]
      BY DEF Nearest
    <2>2. Lookup(table, <<c, s>>) = Lookup(ShippedTable, <<a, s>>)
      BY <2>1, NearestUnique
    <2>3. PICK b \in Class : Nearest(ShippedTable, b, a, s)
      <3>1. Lookup(ShippedTable, <<a, s>>) # NoImp
        BY <2>1
      <3> QED BY <3>1 DEF Lookup
    <2>4. b \in Ancestors[a] /\ ShippedTable[<<b, s>>] # NoImp
      BY <2>3 DEF Nearest
    <2>5. ASSUME NEW d \in Ancestors[c], ShippedTable[<<d, s>>] # NoImp
          PROVE  d \in Ancestors[b]
      <3>1. d \in Ancestors[a]
        BY <1>1, <2>1, <2>5
      <3> QED BY <3>1, <2>3, <2>5 DEF Nearest
    <2>6. Nearest(ShippedTable, b, c, s)
      <3>1. b \in Ancestors[c]
        BY <1>0, <2>1, <2>4
      <3> QED BY <3>1, <2>4, <2>5 DEF Nearest
    <2>7. Lookup(ShippedTable, <<a, s>>) = ShippedTable[<<b, s>>]
      BY <2>3, NearestUnique
    <2>8. Lookup(ShippedTable, <<c, s>>) = ShippedTable[<<b, s>>]
      BY <2>6, NearestUnique
    <2> QED BY <2>2, <2>7, <2>8
  <1>3. CASE ~ \E a \in Class : Nearest(table, a, c, s)
    <2>1. Lookup(table, <<c, s>>) = NoImp
      BY <1>3 DEF Lookup
    <2>2. ~ \E b \in Class : Nearest(ShippedTable, b, c, s)
      <3> SUFFICES ASSUME NEW b \in Class, Nearest(ShippedTable, b, c, s) PROVE FALSE
        OBVIOUS
      <3>1. b \in Ancestors[c] /\ table[<<b, s>>] # NoImp
        BY <1>1 DEF Nearest
      <3> QED BY <3>1, <1>3, NearestExists
    <2> QED BY <2>1, <2>2 DEF Lookup
  <1> QED BY <1>2, <1>3

\* What a careful patch finds when it hooks is what the host shipped.
LEMMA CarefulLookup ==
  ASSUME TypeOK, CarefulInv, NEW m \in Target, Untouched(m), Lookup(imp, m) # NoImp
  PROVE  Lookup(imp, m) = Lookup(ShippedTable, m)
  <1>1. m \in Method
    BY LookupFound
  <1> PICK c \in Class, s \in Selector : m = <<c, s>>
    BY <1>1 DEF Method
  <1>2. SUFFICES ASSUME NEW a \in Ancestors[c]
                 PROVE  \/ imp[<<a, s>>] = NoImp /\ <<a, s>> \notin Shipped
                        \/ /\ imp[<<a, s>>] = Lookup(ShippedTable, <<a, s>>)
                           /\ imp[<<a, s>>] # NoImp
    BY LookupUnchanged
  <1>3. a \in Class
    <2>1. Ancestors[c] \subseteq Class
      BY HierarchyAssumption
    <2> QED BY <2>1
  <1>4. Accounted(<<a, s>>)
    BY <1>3 DEF CarefulInv, Method
  <1>5. \A i \in DOMAIN hooks : hooks[i].original # NoImp => hooks[i].target # <<a, s>>
    BY DEF Untouched, Related
  <1>6. \A i \in DOMAIN hooks : hooks[i].closure # NoClosure => hooks[i].original # NoImp
    BY DEF CarefulInv, SavedIsShipped
  <1> QED BY <1>4, <1>5, <1>6, ValuesAssumption DEF Accounted

\* Registering a hook that saved a shipped implementation or none.
LEMMA CarefulRegister ==
  ASSUME TypeOK, CarefulInv, NEW h \in Hook, NEW failed \in BOOLEAN, Register(h, failed),
         h.closure # NoClosure => h.original # NoImp,
         h.original # NoImp => h.original = Lookup(ShippedTable, h.target),
         \A m \in Method : imp'[m] = imp[m] \/ (m = h.target /\ imp'[m] = h.closure /\ h.closure \in Closure)
  PROVE  CarefulInv'
  <1>1. hooks \in Seq(Hook) /\ hooks' = Append(hooks, h)
    BY DEF TypeOK, Register
  <1>2. /\ DOMAIN hooks' = DOMAIN hooks \cup {Len(hooks) + 1}
        /\ \A i \in DOMAIN hooks : hooks'[i] = hooks[i]
        /\ hooks'[Len(hooks) + 1] = h
    BY <1>1, AppendHook
  <1>3. SavedIsShipped'
    BY <1>2 DEF CarefulInv, SavedIsShipped
  <1>4. ASSUME NEW m \in Method PROVE Accounted(m)'
    <2>1. Accounted(m)
      BY DEF CarefulInv
    <2>2. CASE imp'[m] = imp[m]
      BY <1>2, <2>1, <2>2 DEF Accounted
    <2>3. CASE m = h.target /\ imp'[m] = h.closure /\ h.closure \in Closure
      BY <1>2, <2>3 DEF Accounted
    <2> QED BY <2>2, <2>3
  <1> QED BY <1>3, <1>4 DEF CarefulInv

LEMMA CarefulAddHook ==
  ASSUME TypeOK, CarefulInv, NEW m \in Target, Untouched(m), AddHook(m)
  PROVE  CarefulInv'
  <1>0. imp \in [Method -> Imp \cup {NoImp}]
    BY DEF TypeOK
  <1>1. /\ Lookup(imp, m) \in Imp \cup {NoImp}
        /\ Lookup(imp, m) # NoImp => Lookup(imp, m) = Lookup(ShippedTable, m)
    BY <1>0, LookupType, CarefulLookup
  <1>2. CASE HookTargetMissing(m) \/ HookAllocFailed(m) \/ HookPrepareFailed(m)
    <2> DEFINE h1 == [target |-> m, original |-> NoImp, closure |-> NoClosure]
               h2 == [target |-> m, original |-> Lookup(imp, m), closure |-> NoClosure]
    <2>1. /\ h1 \in Hook /\ h1.original = NoImp /\ h1.closure = NoClosure /\ h1.target = m
          /\ h2 \in Hook /\ h2.original = Lookup(imp, m) /\ h2.closure = NoClosure /\ h2.target = m
      BY <1>1 DEF Hook
    <2>2. imp' = imp /\ (Register(h1, TRUE) \/ Register(h2, TRUE))
      BY <1>2 DEF HookTargetMissing, HookAllocFailed, HookPrepareFailed
    <2> HIDE DEF h1, h2
    <2> QED BY <1>1, <2>1, <2>2, CarefulRegister
  <1>3. CASE HookInstalled(m)
    <2> PICK k \in Closure :
            /\ imp' = [imp EXCEPT ![m] = k]
            /\ Register([target |-> m, original |-> Lookup(imp, m), closure |-> k], FALSE)
      BY <1>3 DEF HookInstalled
    <2> DEFINE h == [target |-> m, original |-> Lookup(imp, m), closure |-> k]
    <2>1. h \in Hook /\ h.closure = k /\ h.original = Lookup(imp, m) /\ h.target = m
      BY <1>1 DEF Hook
    <2>2. Register(h, FALSE) /\ Lookup(imp, m) # NoImp
      BY <1>3 DEF HookInstalled
    <2>3. \A n \in Method : imp'[n] = imp[n] \/ (n = m /\ imp'[n] = k)
      BY <1>0
    <2> HIDE DEF h
    <2> QED BY <1>1, <2>1, <2>2, <2>3, CarefulRegister
  <1> QED BY <1>2, <1>3 DEF AddHook

LEMMA CarefulDestroyFront ==
  ASSUME TypeOK, CarefulInv, DestroyFront
  PROVE  CarefulInv'
  <1>1. /\ hooks \in Seq(Hook) /\ hooks # <<>> /\ hooks' = Tail(hooks)
        /\ imp' = Restored(imp, Head(hooks))
        /\ imp \in [Method -> Imp \cup {NoImp}]
    BY DEF DestroyFront, TypeOK
  <1>2. /\ Head(hooks) = hooks[1] /\ 1 \in DOMAIN hooks
        /\ \A i \in DOMAIN hooks' : i + 1 \in DOMAIN hooks /\ hooks'[i] = hooks[i + 1]
        /\ \A i \in DOMAIN hooks : i # 1 => i - 1 \in DOMAIN hooks' /\ hooks'[i - 1] = hooks[i]
    BY <1>1, TailHook
  <1>3. SavedIsShipped'
    BY <1>2 DEF CarefulInv, SavedIsShipped
  <1>4. /\ hooks[1].original # NoImp => hooks[1].original = Lookup(ShippedTable, hooks[1].target)
        /\ hooks[1].closure # NoClosure => hooks[1].original # NoImp
    BY <1>2 DEF CarefulInv, SavedIsShipped
  <1>5. ASSUME NEW m \in Method PROVE Accounted(m)'
    <2>1. Accounted(m)
      BY DEF CarefulInv
    <2>2. CASE hooks[1].original # NoImp /\ hooks[1].target = m
      <3>1. imp'[m] = hooks[1].original
        BY <1>1, <1>2, <2>2 DEF Restored
      <3> QED BY <1>4, <2>2, <3>1 DEF Accounted
    <2>3. CASE ~(hooks[1].original # NoImp /\ hooks[1].target = m)
      <3>1. imp'[m] = imp[m]
        BY <1>1, <1>2, <2>3 DEF Restored
      <3>2. \A i \in DOMAIN hooks :
              hooks[i].target = m /\ hooks[i].closure = imp[m] /\ imp[m] \in Closure => i # 1
        BY <1>4, <2>3, ValuesAssumption
      <3> QED BY <1>2, <2>1, <3>1, <3>2 DEF Accounted
    <2> QED BY <2>2, <2>3
  <1> QED BY <1>3, <1>5 DEF CarefulInv

LEMMA CarefulStep == TypeOK /\ CarefulInv /\ [CarefulNext]_methodVars => CarefulInv'
  <1> SUFFICES ASSUME TypeOK, CarefulInv, [CarefulNext]_methodVars PROVE CarefulInv'
    OBVIOUS
  <1>1. ASSUME NEW m \in Target, Untouched(m), AddHook(m) PROVE CarefulInv'
    BY <1>1, CarefulAddHook
  <1>2. CASE DestroyFront
    BY <1>2, CarefulDestroyFront
  <1>3. CASE BeginClear \/ EndClear \/ ClearHookErrors \/ UNCHANGED methodVars
    <2>1. hooks' = hooks /\ imp' = imp
      BY <1>3 DEF BeginClear, EndClear, ClearHookErrors, methodVars
    <2> QED BY <2>1 DEF CarefulInv, SavedIsShipped, Accounted
  <1> QED BY <1>1, <1>2, <1>3 DEF CarefulNext, ClearSteps

LEMMA CarefulInit == MethodInit => CarefulInv
  <1> SUFFICES ASSUME MethodInit PROVE CarefulInv
    OBVIOUS
  <1>1. SavedIsShipped
    BY DEF MethodInit, SavedIsShipped
  <1>2. ASSUME NEW m \in Method PROVE Accounted(m)
    <2> PICK c \in Class, s \in Selector : m = <<c, s>>
      BY DEF Method
    <2>1. CASE m \in Shipped
      <3>1. imp[m] = m /\ m # NoImp
        BY <2>1, ValuesAssumption DEF MethodInit, ShippedTable
      <3>2. Lookup(ShippedTable, m) = m
        BY <2>1, ShippedLookup
      <3> QED BY <3>1, <3>2 DEF Accounted
    <2>2. CASE m \notin Shipped
      BY <2>2 DEF Accounted, MethodInit, ShippedTable
    <2> QED BY <2>1, <2>2
  <1> QED BY <1>1, <1>2 DEF CarefulInv

LEMMA CarefulAlways == CarefulSpec => [](TypeOK /\ ClosuresOwned /\ CarefulInv)
  <1>1. TypeOK /\ ClosuresOwned /\ CarefulInv /\ [CarefulNext]_methodVars
          => (TypeOK /\ ClosuresOwned /\ CarefulInv)'
    BY CarefulIsMethod, TypeStep, OwnedStep, CarefulStep
  <1>2. MethodInit => TypeOK /\ ClosuresOwned /\ CarefulInv
    BY TypeInit, OwnedInit, CarefulInit
  <1> QED BY <1>1, <1>2, PTL DEF CarefulSpec

\* While a patch hooks no method twice, and afterwards, no class runs a freed
\* closure, not even half way through clearHooks.
THEOREM CarefulNeverDangles == CarefulSpec => []NoDanglingImp
  <1>1. TypeOK /\ ClosuresOwned /\ CarefulInv => NoDanglingImp
    <2> SUFFICES ASSUME TypeOK, ClosuresOwned, CarefulInv,
                        NEW m \in Method, imp[m] \in Closure
                 PROVE  closure[imp[m]] # "freed"
      BY DEF NoDanglingImp
    <2>1. Accounted(m)
      BY DEF CarefulInv
    <2>2. Lookup(ShippedTable, m) \in Method \cup {NoImp}
      <3>1. ShippedTable \in [Method -> Method \cup {NoImp}] /\ m \in Target
        BY DEF ShippedTable, Method, Target
      <3> QED BY <3>1, LookupType
    <2>3. PICK i \in DOMAIN hooks : hooks[i].closure = imp[m]
      BY <2>1, <2>2, ValuesAssumption DEF Accounted
    <2>4. hooks[i].closure # NoClosure
      BY <2>3, ValuesAssumption
    <2> QED BY <2>3, <2>4 DEF ClosuresOwned
  <1> QED BY <1>1, CarefulAlways, PTL

\* Clearing the hooks of a patch that hooks no method twice gives every class
\* the behaviour it shipped with (ObjcMethod::clearHooks, ~ObjcMethodHook).
THEOREM CarefulIsUndone == CarefulSpec => []ResetRestores
  <1>1. CarefulInv => ResetRestores
    <2> SUFFICES ASSUME CarefulInv, hooks = <<>>, NEW c \in Class, NEW s \in Selector
                 PROVE  Lookup(imp, <<c, s>>) = Lookup(ShippedTable, <<c, s>>)
      BY DEF ResetRestores, Method
    <2>1. SUFFICES ASSUME NEW a \in Ancestors[c]
                   PROVE  \/ imp[<<a, s>>] = NoImp /\ <<a, s>> \notin Shipped
                          \/ /\ imp[<<a, s>>] = Lookup(ShippedTable, <<a, s>>)
                             /\ imp[<<a, s>>] # NoImp
      BY LookupUnchanged
    <2>2. <<a, s>> \in Method
      <3>1. Ancestors[c] \subseteq Class
        BY HierarchyAssumption
      <3> QED BY <3>1 DEF Method
    <2> QED BY <2>2 DEF CarefulInv, Accounted
  <1> QED BY <1>1, CarefulAlways, PTL

-------------------------------------------------------------------------------
(* The newest hook of a method is the one that runs.                         *)

LEMMA LatestRegister ==
  ASSUME TypeOK, LatestHookWins, NEW h \in Hook, NEW failed \in BOOLEAN, Register(h, failed),
         \/ h.closure = NoClosure /\ imp' = imp
         \/ /\ h.closure # NoClosure /\ h.target \in Method
            /\ imp' = [imp EXCEPT ![h.target] = h.closure]
  PROVE  LatestHookWins'
  <1> DEFINE n == Len(hooks) + 1
  <1>1. hooks \in Seq(Hook) /\ hooks' = Append(hooks, h) /\ mutex = "free"
    BY DEF TypeOK, Register
  <1>2. /\ DOMAIN hooks' = DOMAIN hooks \cup {n}
        /\ \A i \in DOMAIN hooks : hooks'[i] = hooks[i]
        /\ hooks'[n] = h
        /\ \A i \in DOMAIN hooks : n > i
    <2>1. \A i \in DOMAIN hooks : n > i
      BY <1>1
    <2> QED BY <1>1, <2>1, AppendHook
  <1>3. imp \in [Method -> Imp \cup {NoImp}]
    BY DEF TypeOK
  <1> HIDE DEF n
  <1> SUFFICES ASSUME NEW i \in DOMAIN hooks',
                      hooks'[i].closure # NoClosure,
                      \A j \in DOMAIN hooks' :
                        j > i => hooks'[j].target # hooks'[i].target \/ hooks'[j].closure = NoClosure
               PROVE  imp'[hooks'[i].target] = hooks'[i].closure
    BY DEF LatestHookWins
  <1>4. CASE i = n
    BY <1>2, <1>3, <1>4
  <1>5. CASE i \in DOMAIN hooks
    <2>1. imp[hooks[i].target] = hooks[i].closure
      <3>1. \A j \in DOMAIN hooks :
              j > i => hooks[j].target # hooks[i].target \/ hooks[j].closure = NoClosure
        BY <1>2, <1>5
      <3>2. hooks[i].closure # NoClosure
        BY <1>2, <1>5
      <3> QED BY <1>1, <1>5, <3>1, <3>2 DEF LatestHookWins
    <2>2. h.target # hooks[i].target \/ h.closure = NoClosure
      <3>1. n \in DOMAIN hooks' /\ n > i /\ hooks'[n] = h /\ hooks'[i] = hooks[i]
        BY <1>2, <1>5
      <3> QED BY <3>1
    <2>3. hooks[i].target \in Method
      <3>1. hooks[i].closure # NoClosure
        BY <1>2, <1>5
      <3> QED BY <1>5, <3>1 DEF TypeOK
    <2>4. imp'[hooks[i].target] = imp[hooks[i].target]
      BY <1>3, <2>2, <2>3
    <2> QED BY <1>2, <1>5, <2>1, <2>4
  <1> QED BY <1>2, <1>4, <1>5

LEMMA LatestAddHook ==
  ASSUME TypeOK, LatestHookWins, NEW m \in Target, AddHook(m)
  PROVE  LatestHookWins'
  <1>0. imp \in [Method -> Imp \cup {NoImp}]
    BY DEF TypeOK
  <1>1. Lookup(imp, m) \in Imp \cup {NoImp} /\ (Lookup(imp, m) # NoImp => m \in Method)
    BY <1>0, LookupType, LookupFound
  <1>2. CASE HookTargetMissing(m) \/ HookAllocFailed(m) \/ HookPrepareFailed(m)
    <2> DEFINE h1 == [target |-> m, original |-> NoImp, closure |-> NoClosure]
               h2 == [target |-> m, original |-> Lookup(imp, m), closure |-> NoClosure]
    <2>1. /\ h1 \in Hook /\ h1.closure = NoClosure
          /\ h2 \in Hook /\ h2.closure = NoClosure
      BY <1>1 DEF Hook
    <2>2. imp' = imp /\ (Register(h1, TRUE) \/ Register(h2, TRUE))
      BY <1>2 DEF HookTargetMissing, HookAllocFailed, HookPrepareFailed
    <2> HIDE DEF h1, h2
    <2> QED BY <2>1, <2>2, LatestRegister
  <1>3. CASE HookInstalled(m)
    <2> PICK k \in Closure :
            /\ imp' = [imp EXCEPT ![m] = k]
            /\ Register([target |-> m, original |-> Lookup(imp, m), closure |-> k], FALSE)
      BY <1>3 DEF HookInstalled
    <2> DEFINE h == [target |-> m, original |-> Lookup(imp, m), closure |-> k]
    <2>1. h \in Hook /\ h.closure = k /\ h.closure # NoClosure /\ h.target = m /\ m \in Method
      BY <1>1, <1>3, ValuesAssumption DEF Hook, HookInstalled
    <2>2. Register(h, FALSE)
      OBVIOUS
    <2> HIDE DEF h
    <2> QED BY <2>1, <2>2, LatestRegister
  <1> QED BY <1>2, <1>3 DEF AddHook

LEMMA LatestStep == TypeOK /\ LatestHookWins /\ [MethodNext]_methodVars => LatestHookWins'
  <1> SUFFICES ASSUME TypeOK, LatestHookWins, [MethodNext]_methodVars PROVE LatestHookWins'
    OBVIOUS
  <1>1. ASSUME NEW m \in Target, AddHook(m) PROVE LatestHookWins'
    BY <1>1, LatestAddHook
  <1>2. CASE BeginClear \/ DestroyFront
    BY <1>2 DEF BeginClear, DestroyFront, LatestHookWins
  <1>3. CASE EndClear
    BY <1>3 DEF EndClear, LatestHookWins
  <1>4. CASE ClearHookErrors \/ UNCHANGED methodVars
    <2>1. hooks' = hooks /\ imp' = imp /\ mutex' = mutex
      BY <1>4 DEF ClearHookErrors, methodVars
    <2> QED BY <2>1 DEF LatestHookWins
  <1> QED BY <1>1, <1>2, <1>3, <1>4 DEF MethodNext, ClearSteps

\* However often a method is hooked and however many of the attempts fail, its
\* class runs the closure of the last hook installed (ObjcMethodHook::hook).
THEOREM LatestHookRuns == MethodSpec => []LatestHookWins
  <1>1. MethodInit => LatestHookWins
    BY DEF MethodInit, LatestHookWins
  <1> QED BY <1>1, TypeInit, TypeStep, LatestStep, PTL DEF MethodSpec
===============================================================================
