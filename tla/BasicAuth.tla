------------------------------- MODULE BasicAuth -------------------------------
(***************************************************************************)
(* The password: Config::from_args encodes the credentials once            *)
(* (base64_encode of src/config.rs) and handle of src/http/mod.rs compares *)
(* the header of a request with that (constant_time_eq). A text is a       *)
(* sequence of bytes, an encoded text one of sextets, with Pad for "=".    *)
(***************************************************************************)
EXTENDS Integers, Sequences

CONSTANT Credentials    \* sequences of bytes

ASSUME CredentialsAssumption == Credentials \subseteq Seq(0 .. 255)

VARIABLES
    configured,     \* the credentials of the command line
    auth,           \* config.auth
    asked,          \* the credentials a client sends, << >> for no header
    admitted        \* of the last request: "none", "yes" or "no"

authVars == <<configured, auth, asked, admitted>>

Pad == 64
NoHeader == <<-1>>

(* The sextets of up to three bytes. *)
EncodeChunk(chunk) ==
    LET byte(i) == IF i <= Len(chunk) THEN chunk[i] ELSE 0
        n == byte(1) * 65536 + byte(2) * 256 + byte(3)
    IN  <<n \div 262144, (n \div 4096) % 64,
          IF Len(chunk) > 1 THEN (n \div 64) % 64 ELSE Pad,
          IF Len(chunk) > 2 THEN n % 64 ELSE Pad>>

Chunks(bytes) == (Len(bytes) + 2) \div 3

Chunk(bytes, k) == SubSeq(bytes, 3 * k - 2, IF 3 * k <= Len(bytes) THEN 3 * k ELSE Len(bytes))

(* Four of every chunk, one chunk after the other. *)
Base64Encode(bytes) ==
    [i \in 1 .. 4 * Chunks(bytes) |-> EncodeChunk(Chunk(bytes, (i + 3) \div 4))[1 + ((i + 3) % 4)]]

(* Mutant: a header that the password begins with is enough. *)
EqualAsFarAsBoth(a, b) == \A i \in DOMAIN a \cap DOMAIN b : a[i] = b[i]

ConstantTimeEq(a, b) == Len(a) = Len(b) /\ \A i \in DOMAIN a : a[i] = b[i]

AuthInit ==
    /\ configured \in Credentials /\ auth = Base64Encode(configured)
    /\ asked = << >> /\ admitted = "none"

(* A client encodes what its user has typed, as the standard says. *)
Ask(credentials, header) ==
    /\ asked' = credentials
    /\ admitted' = IF header # NoHeader /\ ConstantTimeEq(header, auth) THEN "yes" ELSE "no"
    /\ UNCHANGED <<configured, auth>>

AuthNext ==
    \/ \E c \in Credentials : Ask(c, Base64Encode(c))
    \/ Ask(<<-1>>, NoHeader)

AuthSpec == AuthInit /\ [][AuthNext]_authVars

-----------------------------------------------------------------------------
(* Properties *)

(* Only the password opens the dashboard, and it does: the encoding has one
   text for one password, whatever its length, and all of it is compared. *)
PasswordDecides == admitted # "none" => (admitted = "yes" <=> asked = configured)
===============================================================================
