------------------------------- MODULE Status -------------------------------
(* The status codes of include/iowa.h, named by their class and detail. *)

CONSTANT NULL   \* what an operation that fails returns, and a nil pointer

NO_ERROR == 0
CREATED == 201
DELETED == 202
CHANGED == 204
CONTENT == 205
BAD_REQUEST == 400
UNAUTHORIZED == 401
BAD_OPTION == 402
FORBIDDEN == 403
NOT_FOUND == 404
METHOD_NOT_ALLOWED == 405
NOT_ACCEPTABLE == 406
CONFLICT == 409
TOO_LARGE == 413
UNSUPPORTED_CONTENT_FORMAT == 415
INTERNAL_ERROR == 500
NOT_IMPLEMENTED == 501
=============================================================================
