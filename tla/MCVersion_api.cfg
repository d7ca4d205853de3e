\* The API selection of VersionDef.h:148-162 for every NVCV_VERSION_API a
\* user may define, supported or not, and for no definition.
CONSTANTS
  Majors <- MCMajors
  Components <- MCComponents
  ApiDefs <- MCApiDefs
  Undefined = Undefined
SPECIFICATION Spec
INVARIANT ApiSelection
