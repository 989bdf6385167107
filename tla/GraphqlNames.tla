---------------------------- MODULE GraphqlNames -----------------------------
(***************************************************************************)
(* The naming policy of the GraphQL surface (GraphqlCatalogNaming and the  *)
(* SDL generator).  A name is the words it is tokenized into and the way   *)
(* they are joined; tokenizing sees the words only, so two names that      *)
(* differ in style collapse once they are derived again.                   *)
(***************************************************************************)
EXTENDS Sequences

Named(words, style) == [words |-> words, style |-> style]

(* type_name_for_object_name, public_field_name_for_column and the enum    *)
(* value of an order field.                                                *)
Pascal(name) == Named(name.words, "Pascal")
Camel(name) == Named(name.words, "camel")
EnumValue(name) == Named(name.words, "UPPER")

(* The fields of the query root for an object of type `type`.              *)
ItemField(type) == Camel(type)
CollectionField(type) == Named(Append(type.words, "list"), "camel")

(* The envelope and the inputs the SDL declares beside the type itself.    *)
Suffixed(type, suffix) == Named(Append(type.words, suffix), type.style)
==============================================================================
