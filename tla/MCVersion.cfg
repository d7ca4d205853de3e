\* Components within two decimal digits, majors within uint32_t.
CONSTANTS
  Majors <- MCMajors
  Components <- MCComponents
  ApiDefs <- MCApiDefs
  Undefined = Undefined
SPECIFICATION Spec
INVARIANT OrderPreserved
