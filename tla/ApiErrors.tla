----------------------------- MODULE ApiErrors -----------------------------
(***************************************************************************)
(* Errors and the answers they become: the enums of core, db and sqlx      *)
(* (crates/flight-academy-core/src/error.rs, ...-db/src/error.rs) and      *)
(* their rendering in apps/api/src/error.rs.  An error is its variant; the *)
(* rest of a problem document is wording.                                  *)
(***************************************************************************)
CoreErrors == {"Internal", "NotFound", "Validation", "Unauthorized", "Forbidden"}
DbErrors == {"Sqlx", "Migrate", "AuditPoolRoleUnfit"}

\* ApiError::classify
Classify == [Internal |-> 500, NotFound |-> 404, Validation |-> 400,
             Unauthorized |-> 401, Forbidden |-> 403]

\* From<Error>, From<flight_academy_db::Error>, From<sqlx::Error>: what the
\* driver said stays inside.
ApiError(err) == IF err \in CoreErrors THEN err ELSE "Internal"

\* IntoResponse for ApiError
Answer(err) == Classify[ApiError(err)]
=============================================================================
