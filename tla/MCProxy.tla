------------------------------ MODULE MCProxy ------------------------------
(* The connections of one proxy, for the display, the sound or a file, and *)
(* the pod the proxy runs in. Server.handler gives each type of request a  *)
(* handler of its own, and what the handlers share lies outside of them,   *)
(* so each type is followed alone: followed is the type of the request, or *)
(* "pod", which has no steps and many initial states. The loop that keeps  *)
(* the token of the vault is followed here, too: it is a goroutine beside  *)
(* the requests like those of the streams.                                 *)
EXTENDS DisplayStream, AudioStream, FileTransfer, SessionPod, VaultToken

VARIABLE followed

MCNames == {<<"a">>, <<"a", Newline, "b">>}
MCContent == <<"x", "y", "z">>
MCType == <<"text">>
MCEncoded == [n \in 0..Len(MCContent) |-> ToString(n)]

Unix(p) == [scheme |-> "unix", path |-> p]
At(d, f) == d \o <<"/", f>>
Own == <<"/", "own">>
Tmpfs == <<"/", "tmp", "fs">>
Runtime == <<"/", "run", "time">>

(* Templates: sockets in every kind of place, and mounts over some of them. *)
MCTemplates ==
    [display : {NoAddress, [scheme |-> "tcp", path |-> <<"127.0.0.1:5900">>], [scheme |-> "", path |-> Own],
                Unix(At(Tmp, "d")), Unix(At(Tmpfs, "d")), Unix(At(Run, "d")), Unix(At(At(Run, "own"), "d")), Unix(At(Own, "d"))},
     pulse : {NoPath, At(Tmp, "p"), At(Tmpfs, "p"), At(Own, "p"), At(Runtime, "p"), At(At(Home, "user"), "p"),
              <<"/", "var", "/", "p">>},
     qemu : {"none", "csi", "image"}, dind : BOOLEAN, dindMounts : {{Mount("mine", Own)}},
     mounts : {{}, {Mount("mine", Tmp)}, {Mount("mine", Append(Tmp, "/"))}, {Mount("mine", Own)},
               {Mount("mine", At(Tmp, "d")), Mount("mine", Own)}},
     volumes : {{"mine"}}, init : {"systemd", "supervisord"}, files : BOOLEAN]

AnyTemplate ==
    [display |-> NoAddress, pulse |-> NoPath, qemu |-> "none", dind |-> FALSE, dindMounts |-> {},
     mounts |-> {}, volumes |-> {}, init |-> "systemd", files |-> FALSE]

proxyVars == <<displayVars, audioVars, transferVars, template, vaultVars, followed>>

ProxyInit ==
    /\ DisplayInit /\ AudioInit /\ TransferInit /\ VaultInit
    /\ followed \in {"display", "audio", "file", "pod", "vault"}
    /\ followed # "vault" => keeper = "app"
    /\ followed # "file" => file = [op |-> "get", name |-> <<"a">>, stands |-> TRUE]
    /\ template \in IF followed = "pod" THEN [spec : MCTemplates, claim : BOOLEAN]
                                        ELSE {[spec |-> AnyTemplate, claim |-> FALSE]}

ProxyNext ==
    /\ \/ followed = "display" /\ DisplayNext /\ UNCHANGED <<audioVars, transferVars, vaultVars>>
       \/ followed = "audio" /\ AudioNext /\ UNCHANGED <<displayVars, transferVars, vaultVars>>
       \/ followed = "file" /\ TransferNext /\ UNCHANGED <<displayVars, audioVars, vaultVars>>
       \/ followed = "vault" /\ VaultNext /\ UNCHANGED <<displayVars, audioVars, transferVars>>
    /\ UNCHANGED <<template, followed>>

(* Whatever is not followed has not begun, and fairness asks nothing of it. *)
ProxySpec ==
    /\ ProxyInit /\ [][ProxyNext]_proxyVars
    /\ DisplayFairness /\ AudioFairness /\ VaultFairness
=============================================================================
