-------------------------- MODULE CommandAuthority --------------------------
(***************************************************************************)
(* The authority of a command to write to a project: a receipt, signed with *)
(* the project's key and spent once (core/runtime/self-signed-activation.ts, *)
(* activation.ts, native-pi-run.ts).                                       *)
(*                                                                         *)
(* A command makes the key pair of a project that has none, signs a receipt *)
(* for itself, or is started with a receipt that another process signed; it *)
(* verifies the receipt at its first guarded write and claims the nonce.   *)
(* Nothing of this holds a lock.  A key pair and a nonce are known by the  *)
(* command that made them.                                                 *)
(***************************************************************************)
CONSTANTS
    Clis,           \* commands, one process each
    NoKey,          \* a key file that does not exist
    TornKey         \* one that a kill left incomplete

ASSUME AuthorityAssumption == NoKey # TornKey /\ {NoKey, TornKey} \cap Clis = {}

VARIABLES
    privateKey,     \* .omd/activation/project.key
    publicKey,      \* .omd/activation/project.pub
    receipts,       \* receipts signed so far: [nonce, key]
    claims,         \* .omd/activation/consumed-nonces, one file of each nonce
    journal,        \* .omd/activation/consumed-nonces.jsonl
    progress,       \* progress[p]: where command p is
    using           \* using[p]: its receipt

authVars == <<privateKey, publicKey, receipts, claims, journal, progress, using>>

AuthInit ==
    /\ privateKey = NoKey /\ publicKey = NoKey
    /\ receipts = {} /\ claims = {} /\ journal = {}
    /\ progress = [p \in Clis |-> "idle"]
    /\ using = [p \in Clis |-> [nonce |-> p, key |-> NoKey]]

Advance(p, from, to) == progress[p] = from /\ progress' = [progress EXCEPT ![p] = to]

Readable == publicKey \notin {NoKey, TornKey}

-----------------------------------------------------------------------------
(* projectKeyPair and mintSelfSignedReceipt.                               *)

Sign(p, key) ==
    LET receipt == [nonce |-> p, key |-> key] IN
    /\ receipts' = receipts \cup {receipt}
    /\ using' = [using EXCEPT ![p] = receipt]

\* The private key decides whether there is a pair; the public one must be there
\* then.  Without a receipt every guarded write of the command is refused.
Mint(p) ==
    /\ \/ /\ privateKey = NoKey
          /\ Advance(p, "idle", "make")
          /\ UNCHANGED <<receipts, using>>
       \/ /\ privateKey # NoKey /\ Readable
          /\ Advance(p, "idle", "verify")
          /\ Sign(p, privateKey)
       \/ /\ privateKey # NoKey /\ ~Readable
          /\ Advance(p, "idle", "refused")
          /\ UNCHANGED <<receipts, using>>
    /\ UNCHANGED <<privateKey, publicKey, claims, journal>>

\* The private key is staged under the process' own name and renamed ...
RenamePrivate(p) ==
    /\ Advance(p, "make", "public")
    /\ privateKey' = p
    /\ UNCHANGED <<publicKey, receipts, claims, journal, using>>

\* ... then the public one is written in place.
WritePublic(p) ==
    /\ Advance(p, "public", "verify")
    /\ publicKey' = p
    /\ Sign(p, p)
    /\ UNCHANGED <<privateKey, claims, journal>>

\* The receipt comes from the environment, or from the descriptor of a Pi command.
TakeOver(p) ==
    /\ Advance(p, "idle", "verify")
    /\ \E receipt \in receipts : using' = [using EXCEPT ![p] = receipt]
    /\ UNCHANGED <<privateKey, publicKey, receipts, claims, journal>>

-----------------------------------------------------------------------------
(* verifySelfSignedReceipt and claimNonce.                                 *)

Nonce(p) == using[p].nonce

\* The signature is of the project's key and the journal does not know the nonce.
Verify(p) ==
    /\ Advance(p, "verify", "claim")
    /\ Readable /\ using[p].key = publicKey
    /\ Nonce(p) \notin journal
    /\ UNCHANGED <<privateKey, publicKey, receipts, claims, journal, using>>

\* Mutant of MayClaim: the claim file is opened without O_EXCL.
MayClaimAgain(p) == TRUE

MayClaim(p) == Nonce(p) \notin claims

Claim(p) ==
    /\ Advance(p, "claim", "journal")
    /\ MayClaim(p)
    /\ claims' = claims \cup {Nonce(p)}
    /\ UNCHANGED <<privateKey, publicKey, receipts, journal, using>>

\* The audit line; from then on the command holds the authority in memory.
Accept(p) ==
    /\ Advance(p, "journal", "accepted")
    /\ journal' = journal \cup {Nonce(p)}
    /\ UNCHANGED <<privateKey, publicKey, receipts, claims, using>>

Refuse(p) ==
    /\ \/ /\ Advance(p, "verify", "refused")
          /\ ~Readable \/ using[p].key # publicKey \/ Nonce(p) \in journal
       \/ /\ Advance(p, "claim", "refused")
          /\ ~MayClaim(p)
    /\ UNCHANGED <<privateKey, publicKey, receipts, claims, journal, using>>

\* A kill may tear the public key, and a claim stays.
KillCli(p) ==
    /\ progress[p] \notin {"idle", "accepted", "refused", "killed"}
    /\ progress' = [progress EXCEPT ![p] = "killed"]
    /\ publicKey' \in IF progress[p] = "public" THEN {publicKey, TornKey} ELSE {publicKey}
    /\ UNCHANGED <<privateKey, receipts, claims, journal, using>>

CliStep(p) ==
    \/ Mint(p) \/ RenamePrivate(p) \/ WritePublic(p) \/ TakeOver(p)
    \/ Verify(p) \/ Claim(p) \/ Accept(p) \/ Refuse(p)

AuthNext == \E p \in Clis : CliStep(p) \/ KillCli(p)

AuthSpec == AuthInit /\ [][AuthNext]_authVars

-----------------------------------------------------------------------------
(* Properties.                                                             *)

\* A receipt authorizes one command: whichever processes are started with it, and
\* wherever one of them is killed, no second one spends it (claimNonce;
\* test/self-signed-wiring.test.ts:99).
ReceiptSpentOnce ==
    \A p, q \in Clis :
        progress[p] = "accepted" /\ progress[q] = "accepted" /\ p # q => Nonce(p) # Nonce(q)

\* The key pair is made once (self-signed-activation.ts:70): when no command is making
\* one and none was killed, the two files are one pair.  The code does not hold it.
KeysAreOnePair ==
    (\A p \in Clis : progress[p] \notin {"make", "public", "killed"}) => publicKey = privateKey

=============================================================================
