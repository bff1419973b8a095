------------------------ MODULE ApiClientSecretRotation ------------------------
(***************************************************************************)
(* The secret of one API client (ApiClientSecretRotator), at rest under a  *)
(* key of the environment (ApiClientSecretCipher).  An operator registers  *)
(* the client (ApiClientRegistrationCommandLauncher), has its secret       *)
(* rotated, hands the new one to the client, and has the previous one      *)
(* retired when the client signs with the new one.  Each command reads the *)
(* row and writes it in a second query under no condition.  A request is   *)
(* accepted under either secret of the row (ApiClientSignatureVerifier).   *)
(***************************************************************************)
EXTENDS Integers

CONSTANTS
    Operators,              \* the commands that may be under way together
    MaximumSecretCount,     \* bound: secrets ever generated
    EncryptionKeys,         \* the keys the environment may have
    RegistrationKey,        \* the one it had when the client was registered
    Unset

Secrets == 1..MaximumSecretCount

Envelopes == [secret : Secrets, key : EncryptionKeys]

ApiClientRows ==
    [secretCiphertext : Envelopes, previousSecretCiphertext : Envelopes \cup {Unset}]

ASSUME RotationAssumption ==
    /\ MaximumSecretCount \in Nat \ {0}
    /\ RegistrationKey \in EncryptionKeys
    /\ Unset \notin EncryptionKeys
    /\ Unset \notin Secrets
    /\ Unset \notin Envelopes
    /\ Unset \notin ApiClientRows

VARIABLES
    encryptionKey,  \* the environment's key for the secrets at rest, by now
    apiClient,      \* the row: its two secrets
    commands,       \* what each command under way has read
    secretCount,    \* the secrets generated
    offered,        \* the last secret an operator was told, for the client
    loss,           \* whether that secret was lost on its way to the client
    signedWith,     \* the secret the client signs with
    hasOverlapped,  \* history: two commands have been under way together
    hasLostSecret   \* history: a secret was lost

histories == <<hasOverlapped, hasLostSecret>>

rotationVars ==
    <<encryptionKey, apiClient, commands, secretCount, offered, loss, signedWith, histories>>

NoCommand == [phase |-> "idle", secretCiphertext |-> Unset]

EncryptSecret(secret, key) == [secret |-> secret, key |-> key]

\* An envelope of another key does not authenticate, and opens to nothing.
DecryptedSecret(envelope) ==
    IF envelope # Unset /\ envelope.key = encryptionKey THEN envelope.secret ELSE Unset

RotationTypeOK ==
    /\ encryptionKey \in EncryptionKeys \cup {Unset}
    /\ apiClient \in ApiClientRows \cup {Unset}
    /\ commands \in [Operators ->
        [phase : {"idle", "rotating", "retiring"},
         secretCiphertext : Envelopes \cup {Unset}]]
    /\ secretCount \in Secrets \cup {0}
    /\ offered \in Secrets \cup {Unset}
    /\ loss \in {"none", "lost", "advised"}
    /\ signedWith \in Secrets \cup {Unset}
    /\ hasOverlapped \in BOOLEAN
    /\ hasLostSecret \in BOOLEAN

RotationInit ==
    /\ encryptionKey \in EncryptionKeys \cup {Unset}
    /\ apiClient = Unset
    /\ commands = [operator \in Operators |-> NoCommand]
    /\ secretCount = 0
    /\ offered = Unset
    /\ loss = "none"
    /\ signedWith = Unset
    /\ hasOverlapped = FALSE
    /\ hasLostSecret = FALSE

--------------------------------------------------------------------------------
(* Registration                                                             *)

RegisteredApiClient(secret) ==
    [secretCiphertext |-> EncryptSecret(secret, RegistrationKey),
     previousSecretCiphertext |-> Unset]

\* A name and a prefix that can be used are given; the secret is told this once,
\* and the client has it.  The key is that of the day, and the environment may have
\* lost or changed it since.
RegisterApiClient ==
    /\ apiClient = Unset
    /\ secretCount' = 1
    /\ apiClient' = RegisteredApiClient(1)
    /\ offered' = 1
    /\ signedWith' = 1
    /\ UNCHANGED <<encryptionKey, commands, loss, histories>>

--------------------------------------------------------------------------------
(* Rotation and retirement                                                  *)

\* Faulty form: a rotation begins whatever was left of the one before.
HasRotationUnderWay_Never == FALSE

HasRotationUnderWay == apiClient.previousSecretCiphertext # Unset

\* A command opens the cipher before anything else, so none begins without a key.
CanBeOperated == apiClient # Unset /\ encryptionKey # Unset

\* The first query of a command, which is refused or goes on to write.
ReadApiClient(operator, phase) ==
    /\ commands[operator] = NoCommand
    /\ commands' = [commands EXCEPT ![operator] =
        [phase |-> phase, secretCiphertext |-> apiClient.secretCiphertext]]
    /\ hasOverlapped' =
        (hasOverlapped \/ \E other \in Operators : commands[other] # NoCommand)
    /\ UNCHANGED
        <<encryptionKey, apiClient, secretCount, offered, loss, signedWith, hasLostSecret>>

\* rotateApiClientSecret, refused while a rotation is under way.
BeginRotation(operator) ==
    /\ CanBeOperated
    /\ ~HasRotationUnderWay
    /\ secretCount < MaximumSecretCount
    /\ ReadApiClient(operator, "rotating")

\* The refusal of a rotation, told to an operator who lost the secret and was told
\* to rotate again: "retire it first".
RefuseRotation(operator) ==
    /\ CanBeOperated
    /\ commands[operator] = NoCommand
    /\ HasRotationUnderWay
    /\ loss = "lost"
    /\ loss' = "advised"
    /\ UNCHANGED <<encryptionKey, apiClient, commands, secretCount, offered, signedWith, histories>>

\* retirePreviousApiClientSecret, asked for once the client signs with the
\* secret the operator gave it, or as the operator was advised to.
BeginRetirement(operator) ==
    /\ CanBeOperated
    /\ HasRotationUnderWay
    /\ signedWith = offered \/ loss = "advised"
    /\ ReadApiClient(operator, "retiring")

\* The row moves on from what the command read, and the operator is told the
\* new secret.
SaveRotatedSecret(operator) ==
    /\ commands[operator].phase = "rotating"
    /\ secretCount < MaximumSecretCount
    /\ secretCount' = secretCount + 1
    /\ apiClient' =
        [secretCiphertext |-> EncryptSecret(secretCount', encryptionKey),
         previousSecretCiphertext |-> commands[operator].secretCiphertext]
    /\ offered' = secretCount'
    /\ loss' = "none"
    /\ commands' = [commands EXCEPT ![operator] = NoCommand]
    /\ UNCHANGED <<encryptionKey, signedWith, histories>>

SaveRetirement(operator) ==
    /\ commands[operator].phase = "retiring"
    /\ apiClient' = [apiClient EXCEPT !.previousSecretCiphertext = Unset]
    /\ commands' = [commands EXCEPT ![operator] = NoCommand]
    /\ UNCHANGED <<encryptionKey, secretCount, offered, loss, signedWith, histories>>

\* A query of a command throws: the row stays as it was.
FailCommand(operator) ==
    /\ commands[operator] # NoCommand
    /\ commands' = [commands EXCEPT ![operator] = NoCommand]
    /\ UNCHANGED
        <<encryptionKey, apiClient, secretCount, offered, loss, signedWith, histories>>

\* The secret is told once, and stored only encrypted.
LoseSecret ==
    /\ loss = "none"
    /\ signedWith # offered
    /\ loss' = "lost"
    /\ hasLostSecret' = TRUE
    /\ UNCHANGED
        <<encryptionKey, apiClient, commands, secretCount, offered, signedWith, hasOverlapped>>

\* The client changes over at a time of its own.
AdoptSecret ==
    /\ loss = "none"
    /\ signedWith # offered
    /\ signedWith' = offered
    /\ UNCHANGED
        <<encryptionKey, apiClient, commands, secretCount, offered, loss, histories>>

RotationNext ==
    \/ RegisterApiClient
    \/ \E operator \in Operators :
        \/ BeginRotation(operator)
        \/ RefuseRotation(operator)
        \/ BeginRetirement(operator)
        \/ SaveRotatedSecret(operator)
        \/ SaveRetirement(operator)
        \/ FailCommand(operator)
    \/ LoseSecret
    \/ AdoptSecret

\* The secrets a signature is tried under.
AcceptedSecrets ==
    {DecryptedSecret(apiClient.secretCiphertext),
     DecryptedSecret(apiClient.previousSecretCiphertext)} \ {Unset}

================================================================================
