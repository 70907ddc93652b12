---------------------------- MODULE UploadPolicy -----------------------------
(***************************************************************************)
(* What becomes of a filled-in form: the rules of the web client           *)
(* (web/lib/validation.ts) and of the API (the handler of POST /leads and  *)
(* _validate_upload of api/app/services/lead_service.py), over classes of  *)
(* inputs that the rules tell apart.                                       *)
(***************************************************************************)
EXTENDS Naturals

CONSTANTS MAX_RESUME_BYTES,  \* the cap of the web client
          max_resume_bytes,  \* settings.max_resume_mb of the API
          BODY_LIMIT         \* the framework's cap on the body of a server action

ASSUME PolicyAssumption ==
  MAX_RESUME_BYTES \in Nat /\ max_resume_bytes \in Nat /\ BODY_LIMIT \in Nat

\* Sizes around every boundary of the two caps.
Sizes == {0, 1} \cup UNION {{cap, cap + 1} : cap \in {MAX_RESUME_BYTES, max_resume_bytes}}

\* A file: what the browser declares, how it is named, what its first bytes are.
Resume == [type : {"pdf", "docx", "other"}, suffix : {".pdf", ".docx", "other"},
           size : Sizes, magic : {"pdf", "zip", "docx", "other", "none"}]

\* Two validators read an address, zod's expression and EmailStr.  "uncommon" ones
\* (a&b@host.com) only EmailStr takes, "special" ones (at a reserved domain) only
\* zod does, "malformed" ones neither; "long" ones have more than 320 characters.
\* trap is the hidden field contact_ref_2.
Entry == [name : {"ok", "blank"}, email : {"ok", "uncommon", "special", "malformed", "long"},
          resume : Resume, trap : BOOLEAN]

-----------------------------------------------------------------------------
(***************************************************************************)
(* The web client                                                          *)
(***************************************************************************)

\* Mutant of checkResume: the cap excludes its own boundary.
checkResume_OffByOne(file) ==
  /\ file.size > 0 /\ file.size < MAX_RESUME_BYTES
  /\ file.type # "other" \/ file.suffix # "other"

checkResume(file) ==
  /\ file.size > 0 /\ file.size <= MAX_RESUME_BYTES
  /\ file.type # "other" \/ file.suffix # "other"

\* zod's email().
checkEmail(email) == email \notin {"uncommon", "malformed"}

\* The schema of the form in the browser and again of the server action.
leadFormSchema(e) ==
  e.name = "ok" /\ checkEmail(e.email) /\ checkResume(e.resume)

\* The server action is called at all only with a body that fits.
Relayed(e) == e.resume.size <= BODY_LIMIT

-----------------------------------------------------------------------------
(***************************************************************************)
(* The API                                                                 *)
(***************************************************************************)

\* A refusal is its code and the field its detail begins with, if any.
Verdict == [code : {"accepted", "discarded", "validation_error",
                    "unsupported_media_type", "resume_too_large", "rate_limited"},
            field : {"none", "email"}]

says(code) == [code |-> code, field |-> "none"]

SIGNATURE_EXTENSIONS(magic) ==
  CASE magic = "pdf" -> {".pdf"} [] magic \in {"zip", "docx"} -> {".docx"} [] OTHER -> {}

validate_upload(file) ==
  CASE file.type = "other" \/ file.suffix = "other" -> says("unsupported_media_type")
    [] file.size > max_resume_bytes -> says("resume_too_large")
    [] file.size = 0 \/ file.suffix \notin SIGNATURE_EXTENSIONS(file.magic) ->
         says("unsupported_media_type")
    [] OTHER -> says("accepted")

\* The form fields, the honeypot, LeadCreate, then the upload.  The envelope
\* drops the first part of an error's location, which is all LeadCreate has.
judge(e) ==
  CASE e.email = "long" -> [code |-> "validation_error", field |-> "email"]
    [] e.trap -> says("discarded")
    [] e.name = "blank" \/ e.email \in {"special", "malformed"} -> says("validation_error")
    [] OTHER -> validate_upload(e.resume)
=============================================================================
