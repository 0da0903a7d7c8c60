--------------------------- MODULE CreatePkiProofs ---------------------------
(***************************************************************************)
(* Proofs about CreatePki, for any list of services and any number of      *)
(* interruptions: type correctness, that a bundle matches the key and      *)
(* certificate beside it, and that a run nobody interrupted is complete.   *)
(***************************************************************************)
EXTENDS CreatePki, TLAPS

Leaf == {"service", "conf", "ext", "key", "crt", "pem", "remove"}

LEMMA NamesFacts ==
  /\ Len(ServiceNames) \in Nat \ {0}
  /\ DOMAIN ServiceNames = 1..Len(ServiceNames)
  /\ \A i \in 1..Len(ServiceNames) : ServiceNames[i] \in Services
  /\ \A s \in Services : \E i \in 1..Len(ServiceNames) : s = ServiceNames[i]
<1>1. Len(ServiceNames) \in Nat \ {0} /\ DOMAIN ServiceNames = 1..Len(ServiceNames)
  BY NamesAssumption
<1> QED
  BY <1>1 DEF Services

(* The service the script is at is one of the list while it is in the      *)
(* loop; a key is made only when there is none, so its bundle is one of    *)
(* before or of now.                                                       *)
LeafInv ==
    /\ pc \in {"root", "rootCrt"} => at = 1
    /\ pc \in Leaf => at \in 1..Len(ServiceNames)
    /\ pc \in {"conf", "ext", "key"} => key[Service] = 0
    /\ pc \in {"crt", "pem"} => pem[Service] = 0
    /\ pc = "pem" => crt[Service] = key[Service]
    /\ BundleMatchesKey

LEMMA InLoop ==
  ASSUME LeafInv, pc \in Leaf
  PROVE  Service \in Services /\ at \in 1..Len(ServiceNames)
  BY NamesFacts DEF LeafInv, Service

(* On to the next service: the loop is not left but at its end.            *)
LEMMA AdvanceType ==
  ASSUME LeafInv, pc \in Leaf, Advance
  PROVE  /\ at' \in 1..(Len(ServiceNames) + 1) /\ at' = at + 1
         /\ pc' \in {"done", "service"}
         /\ pc' = "service" => at' \in 1..Len(ServiceNames)
         /\ pc' = "done" => at' = Len(ServiceNames) + 1
  BY InLoop, NamesFacts DEF Advance

LEMMA InitHolds == Init => TypeOK /\ LeafInv
<1> SUFFICES ASSUME Init PROVE TypeOK /\ LeafInv
  OBVIOUS
<1>1. config \in [Configs -> [Services -> {"none", "generated", "own"}]]
  BY DEF Init
<1>2. at \in 1..(Len(ServiceNames) + 1) /\ interrupts \in 0..MaxInterrupts
  BY NamesFacts, InterruptsAssumption DEF Init
<1>3. TypeOK
  <2>1. /\ key \in [Services -> 0..1] /\ crt \in [Services -> 0..1]
        /\ pem \in [Services -> 0..1]
    BY DEF Init
  <2>2. rootKey \in BOOLEAN /\ rootCrt \in BOOLEAN
    BY DEF Init
  <2> QED
    BY <1>1, <1>2, <2>1, <2>2 DEF Init, TypeOK
<1>4. LeafInv
  BY DEF Init, LeafInv, Leaf, BundleMatchesKey
<1> QED
  BY <1>3, <1>4

LEMMA LeafStep == TypeOK /\ LeafInv /\ [Next]_vars => TypeOK' /\ LeafInv'
<1> SUFFICES ASSUME TypeOK, LeafInv, [Next]_vars PROVE TypeOK' /\ LeafInv'
  OBVIOUS
<1>1. CASE Run
  <2>1. TypeOK'
    BY <1>1, NamesFacts DEF Run, TypeOK, root, leaf
  <2>2. LeafInv'
    BY <1>1 DEF Run, LeafInv, Leaf, BundleMatchesKey, leaf
  <2> QED
    BY <2>1, <2>2
<1>2. CASE RootKey
  <2>1. TypeOK'
    BY <1>2 DEF RootKey, TypeOK, leaf
  <2>2. LeafInv'
    BY <1>2, NamesFacts DEF RootKey, LeafInv, Leaf, BundleMatchesKey, leaf
  <2> QED
    BY <2>1, <2>2
<1>3. CASE RootCrt
  <2>1. TypeOK'
    BY <1>3 DEF RootCrt, TypeOK, leaf
  <2>2. LeafInv'
    BY <1>3, NamesFacts DEF RootCrt, LeafInv, Leaf, BundleMatchesKey, leaf
  <2> QED
    BY <2>1, <2>2
<1>4. CASE SkipService
  <2>0. pc \in Leaf
    BY <1>4 DEF SkipService, Leaf
  <2>1. TypeOK'
    BY <1>4, <2>0, AdvanceType DEF SkipService, TypeOK, root, leaf
  <2>2. LeafInv'
    BY <1>4, <2>0, AdvanceType
       DEF SkipService, LeafInv, Leaf, BundleMatchesKey, leaf
  <2> QED
    BY <2>1, <2>2
<1>5. CASE BeginService
  <2>1. TypeOK'
    BY <1>5 DEF BeginService, TypeOK, root, leaf, Configs
  <2>2. LeafInv'
    BY <1>5 DEF BeginService, LeafInv, Leaf, BundleMatchesKey, leaf, Service
  <2> QED
    BY <2>1, <2>2
<1>6. ASSUME NEW c \in Configs, NEW next \in {"ext", "key"}, WriteConfig(c, next)
      PROVE  TypeOK' /\ LeafInv'
  <2>1. UNCHANGED <<root, leaf, at, interrupts>> /\ pc = c /\ pc' = next
    BY <1>6 DEF WriteConfig
  <2>2. config' \in [Configs -> [Services -> {"none", "generated", "own"}]]
    BY <1>6 DEF WriteConfig, TypeOK
  <2>3. generated' \subseteq Configs
    BY <1>6 DEF WriteConfig, TypeOK
  <2>4. TypeOK'
    BY <2>1, <2>2, <2>3 DEF TypeOK, root, leaf, Configs
  <2>5. LeafInv'
    BY <1>6, <2>1 DEF LeafInv, Leaf, BundleMatchesKey, leaf, Service, Configs
  <2> QED
    BY <2>4, <2>5
<1>7. CASE MakeKey
  <2>1. Service \in Services /\ key[Service] = 0 /\ pc = "key"
    BY <1>7, InLoop DEF MakeKey, LeafInv, Leaf
  <2>2. key' \in [Services -> 0..1] /\ key'[Service] = 1
        /\ \A s \in Services : s # Service => key'[s] = key[s]
    BY <1>7, <2>1 DEF MakeKey, TypeOK
  <2>3. TypeOK'
    BY <1>7, <2>2 DEF MakeKey, TypeOK, root
  <2>4. pem[Service] = 0
    BY <2>1 DEF LeafInv, BundleMatchesKey
  <2>5. LeafInv'
    BY <1>7, <2>1, <2>2, <2>4
       DEF MakeKey, LeafInv, Leaf, BundleMatchesKey, Service
  <2> QED
    BY <2>3, <2>5
<1>8. CASE SignKey
  <2>1. Service \in Services /\ pem[Service] = 0
    BY <1>8, InLoop DEF SignKey, LeafInv, Leaf
  <2>2. crt' \in [Services -> 0..1] /\ crt'[Service] = key[Service]
        /\ \A s \in Services : s # Service => crt'[s] = crt[s]
    BY <1>8, <2>1 DEF SignKey, TypeOK
  <2>3. TypeOK'
    BY <1>8, <2>2 DEF SignKey, TypeOK, root
  <2>4. LeafInv'
    BY <1>8, <2>1, <2>2 DEF SignKey, LeafInv, Leaf, BundleMatchesKey, Service
  <2> QED
    BY <2>3, <2>4
<1>9. CASE CannotSign \/ Interrupted
  <2>1. TypeOK'
    BY <1>9, InterruptsAssumption
       DEF CannotSign, Interrupted, TypeOK, root, leaf
  <2>2. LeafInv'
    BY <1>9 DEF CannotSign, Interrupted, LeafInv, Leaf, BundleMatchesKey, leaf
  <2> QED
    BY <2>1, <2>2
<1>10. CASE MakeBundle
  <2>1. Service \in Services /\ crt[Service] = key[Service]
    BY <1>10, InLoop DEF MakeBundle, LeafInv, Leaf
  <2>2. pem' \in [Services -> 0..1] /\ pem'[Service] = key[Service]
        /\ \A s \in Services : s # Service => pem'[s] = pem[s]
    BY <1>10, <2>1 DEF MakeBundle, TypeOK
  <2>3. TypeOK'
    BY <1>10, <2>2 DEF MakeBundle, TypeOK, root
  <2>4. LeafInv'
    BY <1>10, <2>1, <2>2
       DEF MakeBundle, LeafInv, Leaf, BundleMatchesKey, Service
  <2> QED
    BY <2>3, <2>4
<1>11. CASE RemoveConfigs
  <2>0. pc \in Leaf
    BY <1>11 DEF RemoveConfigs, Leaf
  <2>1. config' \in [Configs -> [Services -> {"none", "generated", "own"}]]
    BY <1>11 DEF RemoveConfigs, TypeOK
  <2>2. TypeOK'
    BY <1>11, <2>0, <2>1, AdvanceType DEF RemoveConfigs, TypeOK, root, leaf
  <2>3. LeafInv'
    BY <1>11, <2>0, AdvanceType
       DEF RemoveConfigs, LeafInv, Leaf, BundleMatchesKey, leaf
  <2> QED
    BY <2>2, <2>3
<1>12. CASE UNCHANGED vars
  BY <1>12 DEF vars, TypeOK, LeafInv, BundleMatchesKey, Service
<1> QED
  BY <1>1, <1>2, <1>3, <1>4, <1>5, <1>6, <1>7, <1>8, <1>9, <1>10, <1>11,
     <1>12 DEF Next, Step, Configs

(* The variables keep their types: a key is generated once for a service,  *)
(* however often the script is run.                                        *)
THEOREM TypeCorrect == Spec => []TypeOK
  BY InitHolds, LeafStep, PTL DEF Spec

LEMMA LeafHolds == Spec => []LeafInv
  BY InitHolds, LeafStep, PTL DEF Spec

(* However the script is interrupted and run again, the bundle of a        *)
(* service is that of the key and the certificate beside it.               *)
THEOREM BundlesMatch == Spec => []BundleMatchesKey
<1>1. LeafInv => BundleMatchesKey
  BY DEF LeafInv
<1> QED
  BY <1>1, LeafHolds, PTL

------------------------------------------------------------------------------
(* With no run cut short, a root key comes with its certificate, so that   *)
(* every key can be signed; each key but the one at work has its bundle,   *)
(* and each service before the one at work has its key.                    *)
CompleteInv ==
    interrupts = 0 =>
        /\ rootKey => rootCrt \/ pc = "rootCrt"
        /\ pc \in Leaf => rootCrt
        /\ pc \in {"crt", "pem", "remove"} => key[Service] # 0
        /\ \A s \in Services :
              key[s] # 0 => pem[s] = key[s] \/ (pc \in {"crt", "pem"} /\ s = Service)
        /\ \A i \in 1..(at - 1) : key[ServiceNames[i]] # 0
        /\ pc = "done" => at = Len(ServiceNames) + 1

LEMMA CompleteStep ==
  TypeOK /\ LeafInv /\ CompleteInv /\ [Next]_vars => CompleteInv'
<1> SUFFICES ASSUME TypeOK, LeafInv, CompleteInv, [Next]_vars, interrupts' = 0
             PROVE  CompleteInv'
  BY DEF CompleteInv
<1>0. interrupts = 0
  <2>1. interrupts' \in {interrupts, interrupts + 1} /\ interrupts \in Nat
    BY DEF Next, Step, Run, RootKey, RootCrt, SkipService, BeginService,
       WriteConfig, MakeKey, SignKey, CannotSign, MakeBundle, RemoveConfigs,
       Interrupted, TypeOK, vars
  <2> QED
    BY <2>1
<1>1. CASE Run
  BY <1>0, <1>1 DEF Run, CompleteInv, Leaf, root, leaf
<1>2. CASE RootKey \/ RootCrt
  BY <1>0, <1>2 DEF RootKey, RootCrt, CompleteInv, Leaf, leaf, TypeOK
<1>3. CASE SkipService \/ RemoveConfigs
  <2>1. /\ pc \in Leaf /\ Advance /\ key[Service] # 0 /\ pc \notin {"crt", "pem"}
        /\ UNCHANGED <<root, leaf>>
    BY <1>0, <1>3 DEF SkipService, RemoveConfigs, CompleteInv, Leaf
  <2>2. /\ at' = at + 1 /\ at \in 1..Len(ServiceNames)
        /\ pc' \in {"done", "service"}
        /\ pc' = "done" => at' = Len(ServiceNames) + 1
    BY <2>1, AdvanceType, InLoop
  <2>3. \A i \in 1..(at' - 1) : key[ServiceNames[i]] # 0
    <3>1. \A i \in 1..(at' - 1) : i = at \/ i \in 1..(at - 1)
      BY <2>2
    <3> QED
      BY <1>0, <2>1, <3>1 DEF CompleteInv, Service
  <2> QED
    BY <1>0, <2>1, <2>2, <2>3 DEF CompleteInv, root, leaf, Leaf
<1>4. CASE BeginService
  BY <1>0, <1>4 DEF BeginService, CompleteInv, Leaf, root, leaf
<1>5. ASSUME NEW c \in Configs, NEW next \in {"ext", "key"}, WriteConfig(c, next)
      PROVE  CompleteInv'
  BY <1>0, <1>5 DEF WriteConfig, CompleteInv, Leaf, root, leaf, Configs
<1>6. CASE MakeKey
  <2>1. Service \in Services /\ key[Service] = 0
    BY <1>6, InLoop DEF MakeKey, LeafInv, Leaf
  <2>2. /\ key'[Service] = 1
        /\ \A s \in Services : s # Service => key'[s] = key[s]
        /\ \A s \in Services : key[s] # 0 => key'[s] # 0
    BY <1>6, <2>1 DEF MakeKey, TypeOK
  <2>3. \A i \in 1..(at - 1) : ServiceNames[i] \in Services
    BY NamesFacts DEF TypeOK
  <2> QED
    BY <1>0, <1>6, <2>1, <2>2, <2>3 DEF MakeKey, CompleteInv, Leaf, root, Service
<1>7. CASE SignKey
  BY <1>0, <1>7 DEF SignKey, CompleteInv, Leaf, root, Service
<1>8. CASE CannotSign
  BY <1>0, <1>8 DEF CannotSign, CompleteInv, Leaf
<1>9. CASE MakeBundle
  <2>1. Service \in Services
    BY <1>9, InLoop DEF MakeBundle, Leaf
  <2>2. /\ pem'[Service] = key[Service]
        /\ \A s \in Services : s # Service => pem'[s] = pem[s]
    BY <1>9, <2>1 DEF MakeBundle, TypeOK
  <2> QED
    BY <1>0, <1>9, <2>2 DEF MakeBundle, CompleteInv, Leaf, root, Service
<1>10. CASE Interrupted
  BY <1>0, <1>10 DEF Interrupted
<1>11. CASE UNCHANGED vars
  BY <1>0, <1>11 DEF vars, CompleteInv, Service
<1> QED
  BY <1>1, <1>2, <1>3, <1>4, <1>5, <1>6, <1>7, <1>8, <1>9, <1>10, <1>11
     DEF Next, Step, Configs

(* A run that ends, with no run before it cut short, leaves every service  *)
(* with a bundle of the key on disk.                                       *)
THEOREM Complete == Spec => []CompleteUnlessInterrupted
<1>1. Init => CompleteInv
  BY DEF Init, CompleteInv, Leaf
<1>2. TypeOK /\ LeafInv /\ CompleteInv /\ [Next]_vars => CompleteInv'
  BY CompleteStep
<1>3. CompleteInv => CompleteUnlessInterrupted
  <2> SUFFICES ASSUME CompleteInv, pc = "done", interrupts = 0,
                      NEW s \in Services
               PROVE  pem[s] # 0 /\ pem[s] = key[s]
    BY DEF CompleteUnlessInterrupted
  <2>1. PICK i \in 1..Len(ServiceNames) : s = ServiceNames[i]
    BY NamesFacts
  <2>2. i \in 1..(at - 1)
    BY NamesFacts DEF CompleteInv
  <2>3. key[s] # 0
    BY <2>1, <2>2 DEF CompleteInv
  <2> QED
    BY <2>3 DEF CompleteInv
<1> QED
  BY <1>1, <1>2, <1>3, TypeCorrect, LeafHolds, PTL DEF Spec
==============================================================================
