----------------------------- MODULE MCBindings -----------------------------
(***************************************************************************)
(* Bindings, of the tables of this library.                                *)
(***************************************************************************)
EXTENDS Bindings

Fal == INSTANCE FalconDeclared
Cpp == INSTANCE FalconWrappers

DeclaredRoutines == Fal!DeclaredRoutines

Wrappers == Cpp!WrapperRows

ArrayClasses ==
  {"ControlArray", "ControlArray1D", "LabelledControlArray", "LabelledControlArray1D",
   "MeasuredArray", "MeasuredArray1D", "LabelledMeasuredArray", "LabelledMeasuredArray1D"}

\* Of the C++ classes: every array is an FArray, and a 1D one an array.
Bases ==
  {<<c, "FArray">> : c \in ArrayClasses}
  \cup {<<"ControlArray1D", "ControlArray">>, <<"MeasuredArray1D", "MeasuredArray">>}

Literals ==
  Plain \cup {"Map<string, bool>", "Map<Connection, float>", "Map<Connection, Quantity>",
              "Map<InstrumentPort, Quantity>", "Map<InterpretationContext, T>"}

\* The routines whose declaration and wrapper disagree; the README says how.
Unusable ==
  {<<"AcquisitionContext", "Division">>,
   <<"FArray", "Power">>, <<"DeviceVoltageState", "Power">>,
   <<"DeviceVoltageStates", "Connection">>, <<"DeviceVoltageStates", "Voltage">>,
   <<"Point", "Set">>, <<"Point", "Remove">>, <<"Point", "Clear">>,
   <<"VoltageConstraints", "Matrix">>, <<"VoltageConstraints", "Limits">>,
   <<"MeasurementRequest", "New">>, <<"MeasurementRequest", "Waveforms">>,
   <<"MeasurementRequest", "MeterTransforms">>,
   <<"InterpretationContainer", "SelectContexts">>,
   <<"CoupledLabelledDomain", "Domains">>, <<"DiscreteSpace", "Increasing">>,
   <<"UnitSpace", "New">>, <<"UnitSpace", "CartesianSpace">>,
   <<"UnitSpace", "Cartesian2DSpace">>, <<"UnitSpace", "Axes">>,
   <<"UnitSpace", "CreateArray">>,
   <<"DeviceCharacteristicQuery", "SetExtra">>}
  \cup {"DeviceCharacteristicQuery"} \X {"SetBarrierGate", "SetPlungerGate",
                                         "SetReservoirGate", "SetScreeningGate"}
  \cup {"DeviceCharacteristic", "DeviceCharacteristicQuery"}
        \X {"GetBarrierGate", "GetPlungerGate", "GetReservoirGate", "GetScreeningGate"}
=============================================================================
