------------------------------- MODULE License -------------------------------
(***************************************************************************)
(* The license gate of TRI-SYNC (license.rs): what it takes for a document *)
(* to unlock an enterprise feature, and the codes of refusals.  Where the  *)
(* document comes from is in Cli, since the files may change meanwhile.    *)
(***************************************************************************)
EXTENDS Integers

CONSTANTS
  None,      \* no value: no expiry, no capability asked for
  Missing,   \* a variable that is not set, a file that does not exist
  Blank,     \* a variable or a file with nothing but white space in it
  TooLarge   \* contents above MAX_LICENSE_BYTES

Capability == {"commercial-production", "compliance-reporting"}

ASSUME NoneAssumption == None \notin Nat \union Capability

\* A license document.  `readable` stands for everything that is wrong with a
\* document at any time: JSON, schema version, required fields, feature names.
Document ==
  [readable: BOOLEAN, genuine: BOOLEAN, issued: Nat, expires: Nat \union {None},
   features: SUBSET Capability]

Contents == Document \union {Missing, Blank, TooLarge}

LicenseCodes ==
  {"LICENSE_REQUIRED", "LICENSE_KEY_EMPTY", "LICENSE_STORE_MISSING", "LICENSE_INVALID"}

\* What is wrong with contents that were found; an absent file is known to be
\* one only when it is read.
ContentsFault(c) ==
  CASE c = Missing -> "LICENSE_STORE_MISSING"
    [] c = Blank -> "LICENSE_KEY_EMPTY"
    [] c = TooLarge -> "LICENSE_INVALID"
    [] OTHER -> "ok"

\* parse_license_document, by the clock `now`.
Parses(d, now) ==
  /\ d.readable
  /\ d.issued <= now
  /\ d.expires = None \/ d.issued <= d.expires

\* The document without a look at its expiry.
Verifies_NoExpiry(d, wanted, now) ==
  /\ d.genuine
  /\ wanted = None \/ wanted \in d.features

\* verify_license_document, by the clock `now`: the signature over everything
\* else, the expiry, and the capability the feature requires.
Verifies(d, wanted, now) ==
  /\ d.genuine
  /\ d.expires = None \/ now <= d.expires
  /\ wanted = None \/ wanted \in d.features
=============================================================================
