--------------------------- MODULE SandboxIdentity ---------------------------
(* The identity of a launcher Sandbox: internal/controller/identity.go makes  *)
(* its key, internal/launcher/identity.go signs tokens with it for the guest  *)
(* agent (internal/guestagent/identity.go), and internal/frontend/identity.go *)
(* verifies them (internal/sandboxid/token.go).  A Sandbox may be deleted and *)
(* made again under its name at any step, suspended and resumed, and          *)
(* snapshotted, which raises its identity generation.                         *)
EXTENDS Naturals

CONSTANTS Lives,      \* budgets of what happens to the Sandbox
          Audiences, Lifetime, MaxNow, None

VARIABLES
  life,      \* what may still happen
  idSandbox, \* the Sandbox under the name: its UID and status.identity
  secret,    \* the Secret <name>-identity: the Sandbox that controls it, its key
  idPod,     \* the launcher Pod: its Sandbox, its spec, what its launcher holds
  creating,  \* createPod of the operator: where it is, what it read
  taking,    \* a snapshot is under way: the generation that the node agent wrote
  token,     \* a token that some process keeps
  accepted,  \* the token that the frontend accepted last, and when
  now        \* time, in steps of the lifetime

siVars == <<life, idSandbox, secret, idPod, creating, taking, token, accepted, now>>

Idle == [pc |-> "idle", sb |-> None, sec |-> None]

siInit ==
  /\ life \in Lives
  /\ idSandbox = [uid |-> 1, identity |-> None]
  /\ secret = None /\ idPod = None /\ creating = Idle /\ taking = None
  /\ token = None /\ accepted = None /\ now = 0

-----------------------------------------------------------------------------
(* createPod and ensureIdentity.  An API error, or a crash of the operator,   *)
(* ends the reconcile; the next one starts again.                             *)
Fails ==
  /\ life.faults > 0
  /\ life' = [life EXCEPT !.faults = @ - 1]
  /\ creating' = Idle
  /\ UNCHANGED <<idSandbox, secret, idPod, taking, token, accepted, now>>

At(l) == creating.pc = l

begin ==
  /\ At("idle") /\ idPod = None
  /\ creating' = [pc |-> "get", sb |-> idSandbox, sec |-> None]
  /\ UNCHANGED <<life, idSandbox, secret, idPod, taking, token, accepted, now>>

(* Mutant: the Secret under the name is taken whoever controls it.            *)
IsControlledBy_Any(sec, sb) == TRUE

IsControlledBy(sec, sb) == sec.owner = sb.uid

(* A Secret of an earlier Sandbox of the name is deleted, and then replaced.  *)
getSecret ==
  /\ At("get")
  /\ \/ /\ CASE secret = None -> creating' = [creating EXCEPT !.pc = "create"]
             [] secret # None ->
                  IF IsControlledBy(secret, creating.sb)
                    THEN creating' = [creating EXCEPT !.pc = "record", !.sec = secret]
                    ELSE creating' = [creating EXCEPT !.pc = "delete"]
        /\ UNCHANGED <<life, idSandbox, secret, idPod, taking, token, accepted, now>>
     \/ Fails

deleteSecret ==
  /\ At("delete")
  /\ \/ /\ secret' = None
        /\ creating' = [creating EXCEPT !.pc = "create"]
        /\ UNCHANGED <<life, idSandbox, idPod, taking, token, accepted, now>>
     \/ Fails

(* A new key in a Secret that the Sandbox controls.                           *)
createIdentitySecret ==
  /\ At("create")
  /\ \/ /\ secret = None
        /\ secret' = [owner |-> creating.sb.uid, key |-> [n |-> life.keys + 1, of |-> creating.sb.uid]]
        /\ life' = [life EXCEPT !.keys = @ + 1]
        /\ creating' = [creating EXCEPT !.pc = "record", !.sec = secret']
        /\ UNCHANGED <<idSandbox, idPod, taking, token, accepted, now>>
     \/ /\ secret # None
        /\ creating' = Idle
        /\ UNCHANGED <<life, idSandbox, secret, idPod, taking, token, accepted, now>>
     \/ Fails

(* The generation that the Pod starts with is the one of the status.          *)
specGeneration(id) == id.gen

Recorded(id, key) ==
  IF id = None THEN [key |-> key, gen |-> 1] ELSE [id EXCEPT !.key = key]

(* The public key goes to the status, under the name, when it is not there;   *)
(* the generation is kept.                                                    *)
recordIdentity ==
  /\ At("record")
  /\ \/ /\ LET id == Recorded(creating.sb.identity, creating.sec.key) IN
           /\ creating' = [creating EXCEPT !.pc = "pod", !.sb.identity = id]
           /\ idSandbox' = IF id = creating.sb.identity THEN idSandbox
                           ELSE [idSandbox EXCEPT !.identity = id]
        /\ UNCHANGED <<life, secret, idPod, taking, token, accepted, now>>
     \/ Fails

createPod ==
  /\ At("pod")
  /\ \/ /\ idPod' = IF idPod # None THEN idPod
                    ELSE [uid |-> creating.sb.uid, gen |-> specGeneration(creating.sb.identity),
                          key |-> None, file |-> 0]
        /\ creating' = Idle
        /\ UNCHANGED <<life, idSandbox, secret, taking, token, accepted, now>>
     \/ Fails

-----------------------------------------------------------------------------
(* The kubelet mounts the Secret that has the name, whoever controls it, and  *)
(* the launcher reads its key once.                                           *)
newIdentitySigner ==
  /\ idPod # None /\ secret # None
  /\ idPod.key = None
  /\ idPod' = [idPod EXCEPT !.key = secret.key]
  /\ UNCHANGED <<life, idSandbox, secret, creating, taking, token, accepted, now>>

Running == IF idPod = None THEN FALSE ELSE idPod.key # None

(* The larger of the generation of the spec and the one in the file.          *)
generation == IF idPod.file > idPod.gen THEN idPod.file ELSE idPod.gen

Sign(key, claims) == [key |-> key, by |-> idPod.uid, c |-> claims]

(* The launcher signs for any audience but the empty one.                     *)
sign(aud) ==
  Sign(idPod.key, [sub |-> idPod.uid, aud |-> aud, gen |-> generation, exp |-> now + Lifetime])

(* A process asks the guest agent, which asks the launcher, for a token.      *)
ServeHTTP ==
  /\ Running /\ taking = None
  /\ \E aud \in Audiences \ {""} : token' = sign(aud)
  /\ UNCHANGED <<life, idSandbox, secret, idPod, creating, taking, accepted, now>>

(* What Verify compares; want is what the verifier knows of the Sandbox.      *)
Verify(t, want) ==
  /\ t.key = want.key /\ t.c.sub = want.sub /\ t.c.aud = want.aud
  /\ now < t.c.exp /\ t.c.gen = want.gen

(* The UID that the token names is the one of the Sandbox under the name.     *)
sameSandbox(t) == t.c.sub = idSandbox.uid

Verifies(t, aud) ==
  IF t = None \/ idSandbox.identity = None THEN FALSE
  ELSE sameSandbox(t) /\ Verify(t, [key |-> idSandbox.identity.key, sub |-> t.c.sub, aud |-> aud,
                                    gen |-> idSandbox.identity.gen])

VerifySandboxIdentity ==
  \E aud \in Audiences :
    /\ Verifies(token, aud)
    /\ accepted' = [token |-> token, uid |-> idSandbox.uid, aud |-> aud, at |-> now]
    /\ UNCHANGED <<life, idSandbox, secret, idPod, creating, taking, token, now>>

-----------------------------------------------------------------------------
(* A snapshot: the node agent writes the next generation while the machine is *)
(* paused, and the coordinator records it in the status of the Sandbox that   *)
(* has the name.  An attempt that fails in between leaves the file raised.    *)
writeIdentityGeneration ==
  /\ Running /\ taking = None /\ life.snapshots > 0
  /\ idPod.uid = idSandbox.uid /\ idSandbox.identity # None
  /\ life' = [life EXCEPT !.snapshots = @ - 1]
  /\ taking' = [gen |-> idSandbox.identity.gen + 1, uid |-> idSandbox.uid]
  /\ idPod' = [idPod EXCEPT !.file = taking'.gen]
  /\ UNCHANGED <<idSandbox, secret, creating, token, accepted, now>>

recordIdentityGeneration ==
  /\ taking # None
  /\ taking' = None
  /\ \/ /\ idSandbox' = IF idSandbox.identity = None THEN idSandbox
                        ELSE IF idSandbox.identity.gen >= taking.gen THEN idSandbox
                        ELSE [idSandbox EXCEPT !.identity.gen = taking.gen]
        /\ life' = [life EXCEPT !.torn = @ \/ taking.uid # idSandbox.uid]
     \/ /\ life.faults > 0
        /\ life' = [life EXCEPT !.faults = @ - 1, !.torn = TRUE]
        /\ UNCHANGED idSandbox
  /\ UNCHANGED <<secret, idPod, creating, token, accepted, now>>

(* The session is suspended or resumed: its Pod goes, and is made anew.       *)
suspend ==
  /\ life.suspends > 0 /\ idPod # None /\ taking = None
  /\ life' = [life EXCEPT !.suspends = @ - 1]
  /\ idPod' = None
  /\ UNCHANGED <<idSandbox, secret, creating, taking, token, accepted, now>>

(* The Sandbox is deleted and another is made under its name; what it owned   *)
(* is collected later.                                                        *)
isRemade ==
  /\ life.remakes > 0
  /\ life' = [life EXCEPT !.remakes = @ - 1]
  /\ idSandbox' = [uid |-> idSandbox.uid + 1, identity |-> None]
  /\ UNCHANGED <<secret, idPod, creating, taking, token, accepted, now>>

collected ==
  /\ \/ /\ idPod # None /\ secret' = secret
        /\ idPod.uid # idSandbox.uid /\ idPod' = None
     \/ /\ secret # None /\ idPod' = idPod
        /\ secret.owner # idSandbox.uid /\ secret' = None
  /\ UNCHANGED <<life, idSandbox, creating, taking, token, accepted, now>>

siTick ==
  /\ now < MaxNow
  /\ now' = now + 1
  /\ UNCHANGED <<life, idSandbox, secret, idPod, creating, taking, token, accepted>>

ensureIdentity ==
  begin \/ getSecret \/ deleteSecret \/ createIdentitySecret \/ recordIdentity \/ createPod

siNext ==
  \/ ensureIdentity \/ newIdentitySigner \/ ServeHTTP \/ VerifySandboxIdentity
  \/ writeIdentityGeneration \/ recordIdentityGeneration
  \/ suspend \/ isRemade \/ collected \/ siTick

siSpec == siInit /\ [][siNext]_siVars

-----------------------------------------------------------------------------
(* A token that the frontend accepts comes from the launcher of the very      *)
(* Sandbox that has the name, for that audience and not past its lifetime,    *)
(* also when a Pod that outlived its Sandbox got the Secret of the next one.  *)
AcceptedIsItsOwn ==
  accepted = None \/
    /\ accepted.token.by = accepted.uid /\ accepted.token.c.aud = accepted.aud
    /\ accepted.at < accepted.token.c.exp

(* "Each Sandbox, so each fork, gets its own key" (identity.go): the launcher *)
(* of a Sandbox holds a key that was made for it, also when a Sandbox of the  *)
(* same name left its Secret behind.                                          *)
KeyOfItsOwn ==
  Running => (idPod.uid = idSandbox.uid => idPod.key.of = idPod.uid)

(* A machine that is up and is not being snapshotted gets tokens that verify, *)
(* after a resume and after a snapshot too: the key and the generation of its *)
(* launcher are the ones in the status.  A snapshot that failed half way, or  *)
(* whose Sandbox was remade under it, leaves the two generations apart.       *)
TokensVerify ==
  Running /\ taking = None /\ ~life.torn =>
    \/ idPod.uid # idSandbox.uid
    \/ idSandbox.identity = [key |-> idPod.key, gen |-> generation]
=============================================================================
