------------------------------ MODULE CreatePki ------------------------------
(***************************************************************************)
(* pki/create_pki.sh, run one or more times in one directory: a root CA,   *)
(* then for each service a key, a certificate and the bundle (.pem) that   *)
(* its haproxy serves.  It may be interrupted, or a command may fail and   *)
(* end it (set -e), after any of its commands.  A key file is named by the *)
(* number of the time it was generated, 0 when there is none, and so are   *)
(* the certificate and the bundle made from it.                            *)
(***************************************************************************)
EXTENDS Naturals, Sequences

CONSTANTS ServiceNames,     \* service_names, in their order
          MaxInterrupts     \* bound

ASSUME NamesAssumption == ServiceNames \in Seq(STRING) \ {<< >>}
ASSUME InterruptsAssumption == MaxInterrupts \in Nat

Services == {ServiceNames[i] : i \in DOMAIN ServiceNames}
Configs == {"conf", "ext"}

VARIABLES
    rootKey, rootCrt,   \* rootCA.key and rootCA.crt exist
    key, crt, pem,      \* the files of each service
    config,             \* config[c][s]: "none", "generated" or "own"
    generated,          \* conf_generated and ext_generated, of this run
    pc,                 \* where the script is; "off" when it is not running
    at,                 \* the service it is at
    interrupts

vars == <<rootKey, rootCrt, key, crt, pem, config, generated, pc, at, interrupts>>
root == <<rootKey, rootCrt>>
leaf == <<key, crt, pem>>

Service == ServiceNames[at]

Init ==
    /\ rootKey = FALSE
    /\ rootCrt = FALSE
    /\ key = [s \in Services |-> 0]
    /\ crt = [s \in Services |-> 0]
    /\ pem = [s \in Services |-> 0]
    /\ config \in [Configs -> [Services -> {"none", "own"}]]
    /\ generated = {}
    /\ pc = "off"
    /\ at = 1
    /\ interrupts = 0

------------------------------------------------------------------------------
Run ==
    /\ pc \in {"off", "done"}
    /\ pc' = "root"
    /\ at' = 1
    /\ generated' = {}
    /\ UNCHANGED <<root, leaf, config, interrupts>>

(* openssl genrsa, unless there is a root key; then the certificate. *)
RootKey ==
    /\ pc = "root"
    /\ rootKey' = TRUE
    /\ pc' = IF rootKey THEN "service" ELSE "rootCrt"
    /\ UNCHANGED <<rootCrt, leaf, config, generated, at, interrupts>>

RootCrt ==
    /\ pc = "rootCrt"
    /\ rootCrt' = TRUE
    /\ pc' = "service"
    /\ UNCHANGED <<rootKey, leaf, config, generated, at, interrupts>>

(* On to the next service, or past the last one. *)
Advance ==
    /\ at' = at + 1
    /\ pc' = IF at = Len(ServiceNames) THEN "done" ELSE "service"

(* create_leaf_cert: only the key file is looked at. *)
SkipService ==
    /\ pc = "service"
    /\ key[Service] # 0
    /\ Advance
    /\ UNCHANGED <<root, leaf, config, generated, interrupts>>

(* Mutant of BeginService: does not look at what is there. *)
BeginService_Anyway ==
    /\ pc = "service"
    /\ pc' = "conf"
    /\ UNCHANGED <<root, leaf, config, generated, at, interrupts>>

BeginService ==
    /\ pc = "service"
    /\ key[Service] = 0
    /\ pc' = "conf"
    /\ UNCHANGED <<root, leaf, config, generated, at, interrupts>>

(* A config file is written, and remembered, if there is none. *)
WriteConfig(c, next) ==
    /\ pc = c
    /\ pc' = next
    /\ IF config[c][Service] = "none"
       THEN /\ config' = [config EXCEPT ![c][Service] = "generated"]
            /\ generated' = generated \cup {c}
       ELSE UNCHANGED <<config, generated>>
    /\ UNCHANGED <<root, leaf, at, interrupts>>

(* openssl req: a new key and the request for it. *)
MakeKey ==
    /\ pc = "key"
    /\ key' = [key EXCEPT ![Service] = @ + 1]
    /\ pc' = "crt"
    /\ UNCHANGED <<root, crt, pem, config, generated, at, interrupts>>

(* openssl x509, which needs the root certificate. *)
SignKey ==
    /\ pc = "crt"
    /\ rootCrt
    /\ crt' = [crt EXCEPT ![Service] = key[Service]]
    /\ pc' = "pem"
    /\ UNCHANGED <<root, key, pem, config, generated, at, interrupts>>

(* Mutant of MakeBundle: forgotten. *)
MakeBundle_Forgotten ==
    /\ pc = "pem"
    /\ pc' = "remove"
    /\ UNCHANGED <<root, leaf, config, generated, at, interrupts>>

MakeBundle ==
    /\ pc = "pem"
    /\ pem' = [pem EXCEPT ![Service] = key[Service]]
    /\ pc' = "remove"
    /\ UNCHANGED <<root, key, crt, config, generated, at, interrupts>>

(* The config files go if the variables say so; the variables stay set.    *)
RemoveConfigs ==
    /\ pc = "remove"
    /\ config' = [c \in Configs |->
                    [config[c] EXCEPT ![Service] =
                        IF c \in generated THEN "none" ELSE @]]
    /\ Advance
    /\ UNCHANGED <<root, leaf, generated, interrupts>>

(* Ctrl-C, or a command that fails.                                        *)
Interrupted ==
    /\ interrupts < MaxInterrupts
    /\ pc \notin {"off", "done"}
    /\ pc' = "off"
    /\ interrupts' = interrupts + 1
    /\ UNCHANGED <<root, leaf, config, generated, at>>

(* Without the root certificate openssl x509 fails every time.             *)
CannotSign ==
    /\ pc = "crt"
    /\ ~rootCrt
    /\ pc' = "off"
    /\ UNCHANGED <<root, leaf, config, generated, at, interrupts>>

Step ==
    \/ RootKey
    \/ RootCrt
    \/ SkipService
    \/ BeginService
    \/ WriteConfig("conf", "ext")
    \/ WriteConfig("ext", "key")
    \/ MakeKey
    \/ SignKey
    \/ CannotSign
    \/ MakeBundle
    \/ RemoveConfigs

Next == Run \/ Step \/ Interrupted

Spec == Init /\ [][Next]_vars

------------------------------------------------------------------------------
TypeOK ==
    /\ rootKey \in BOOLEAN
    /\ rootCrt \in BOOLEAN
    /\ key \in [Services -> 0..1]
    /\ crt \in [Services -> 0..1]
    /\ pem \in [Services -> 0..1]
    /\ config \in [Configs -> [Services -> {"none", "generated", "own"}]]
    /\ generated \subseteq Configs
    /\ pc \in Configs \cup {"off", "root", "rootCrt", "service", "key", "crt",
                            "pem", "remove", "done"}
    /\ at \in 1..(Len(ServiceNames) + 1)
    /\ interrupts \in 0..MaxInterrupts

(* A run that ends, with no run before it cut short, leaves a bundle for   *)
(* every service, made from the key on disk.                               *)
CompleteUnlessInterrupted ==
    pc = "done" /\ interrupts = 0 =>
        \A s \in Services : pem[s] # 0 /\ pem[s] = key[s]

(* However it is interrupted and run again, a bundle that is being served  *)
(* is the one of the key and certificate beside it.                        *)
BundleMatchesKey ==
    \A s \in Services : pem[s] # 0 => pem[s] = key[s] /\ crt[s] = key[s]

(* "remove any generated config files": a config file of the developer's   *)
(* own is never removed.                                                   *)
OwnConfigsStay ==
    [][\A c \in Configs, s \in Services :
          config[c][s] = "own" => config'[c][s] = "own"]_vars

==============================================================================
